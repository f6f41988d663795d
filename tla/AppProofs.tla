----------------------------- MODULE AppProofs -----------------------------
(***************************************************************************)
(* A request leaves the page as the page shows it, a delivery is sent once *)
(* and a report says what is on the two chains, for every deployment,      *)
(* every number of pending calls and every order of clicks, answers,       *)
(* reloads and reorganizations.                                            *)
(***************************************************************************)
EXTENDS AppSafety, TLAPS

-----------------------------------------------------------------------------
(* What an ordinary step does *)

\* A task that only loses marks.
KeptTask(old, new, marks) ==
    /\ DOMAIN new = DOMAIN old
    /\ new.kind = old.kind /\ new.at = old.at /\ new.setup = old.setup /\ new.item = old.item
    /\ new.holds \subseteq old.holds \ marks

Rest(S, marks) ==
    /\ DOMAIN tasks' = Tasks
    /\ \A u \in Tasks \ S : KeptTask(tasks[u], tasks'[u], marks)

\* A task that neither asks the wallet nor has or gets an answer of it, and starts no delivery.
Calm(old, new) ==
    /\ new.at \notin {"handed", "asked", "answered"}
    /\ ~(old.kind = "worker" /\ old.at = "answered")
    /\ new.kind = "worker" =>
          /\ old.kind = "worker" /\ new.item.call = old.item.call
          /\ old.at \in {"checking", "session"} /\ new.at \in {"checking", "session"}

\* The page changes what a mark vouches for only when the mark is taken from all tasks.
PageKept(marks) ==
    /\ PageFits(page')
    /\ "work" \in marks \/ page'.milestone = page.milestone
    /\ "draft" \in marks \/ page'.draft = page.draft
    /\ "settlement" \in marks \/ page'.plan = page.plan
    /\ \/ "write" \in marks
       \/ /\ page'.draft = page.draft
          /\ \/ page'.control = page.control
             \/ /\ page'.draft # Nothing /\ page'.draft.signed
                /\ page'.control = Accept(page'.draft.order)
    /\ page'.report \in {page.report, NoReport} /\ page'.history \in {page.history, NoReport}

Aside ==
    /\ DOMAIN device' = DeviceFields /\ device'.journal = device.journal
    /\ UNCHANGED <<prompts, txs, lost, node>>

NothingLeaves == \A t \in Tasks : ~Leaves(t)

\* The two halves of ReportsAreFaithful, of the values.
ReportFaithful(report) == report.status = "complete" => CompleteAt(report.epoch, report.pins)
HistoryFaithful(history) ==
    history.status # "none" =>
        /\ \A record \in history.records : RecordedAt(record, history.pins[record.epoch])
        /\ history.status = "invalid" => history.records = {}
        /\ history.status = "verified" =>
              \A epoch \in DOMAIN history.pins : \A e \in WorkRows(history.pins[epoch], epoch) :
                  [epoch |-> epoch, id |-> e.id, kind |-> e.kind] \in history.records

LEMMA FaithfulHalves ==
    /\ ReportsAreFaithful <=> ReportFaithful(page.report) /\ HistoryFaithful(page.history)
    /\ ReportsAreFaithful' <=> ReportFaithful(page'.report) /\ HistoryFaithful(page'.history)
BY DEF ReportsAreFaithful, ReportFaithful, HistoryFaithful

LEMMA NoReportIsFaithful == ReportFaithful(NoReport) /\ HistoryFaithful(NoReport)
BY DEF ReportFaithful, HistoryFaithful, NoReport

LEMMA ReportsKept ==
  ASSUME ReportsAreFaithful, page'.report \in {page.report, NoReport},
         page'.history \in {page.history, NoReport}
  PROVE  ReportsAreFaithful'
BY FaithfulHalves, NoReportIsFaithful

LEMMA VouchedKept ==
  ASSUME NEW old, NEW new, NEW marks, KeptTask(old, new, marks), Vouched(page, old), PageKept(marks)
  PROVE  Vouched(page', new)
BY DEF KeptTask, Vouched, PageKept, InForm

LEMMA UnderwayKept ==
  ASSUME NEW old, NEW new, NEW marks, KeptTask(old, new, marks),
         Underway(txs, lost, device.journal, old), device'.journal = device.journal,
         UNCHANGED <<txs, lost>>
  PROVE  Underway(txs', lost', device'.journal, new)
BY DEF KeptTask, Underway

LEMMA CalmUnderway ==
  ASSUME NEW old, NEW new, Calm(old, new), Underway(txs, lost, device.journal, old),
         device'.journal = device.journal, UNCHANGED <<txs, lost>>
  PROVE  Underway(txs', lost', device'.journal, new)
BY DEF Calm, Underway

LEMMA GatheredKept ==
  ASSUME NEW old, NEW new, NEW marks, KeptTask(old, new, marks), Gathered(node, old),
         UNCHANGED node
  PROVE  Gathered(node', new)
BY DEF KeptTask, Gathered

\* Nobody else gets to send a delivery or to make a plan.
LEMMA AloneKept ==
  ASSUME Alone, NEW S \in SUBSET Tasks, NEW marks, Rest(S, marks), \A t, u \in S : t = u,
         \A t \in S : tasks'[t].kind = "worker" => tasks[t].kind = "worker",
         \A t \in S : tasks'[t].kind = "plan" /\ "settlement" \in tasks'[t].holds =>
                         "settlement" \in marks
  PROVE  Alone'
<1> SUFFICES ASSUME NEW t \in Tasks, NEW u \in Tasks, t # u
             PROVE  /\ ~(tasks'[t].kind = "worker" /\ tasks'[u].kind = "worker")
                    /\ ~(tasks'[t].kind = "plan" /\ tasks'[u].kind = "plan"
                           /\ "settlement" \in tasks'[t].holds /\ "settlement" \in tasks'[u].holds)
  BY DEF Alone
<1>1. CASE t \notin S /\ u \notin S
  BY <1>1 DEF Alone, Rest, KeptTask
<1>2. CASE t \in S /\ u \notin S
  BY <1>2 DEF Alone, Rest, KeptTask
<1>3. CASE t \notin S /\ u \in S
  BY <1>3 DEF Alone, Rest, KeptTask
<1> QED BY <1>1, <1>2, <1>3

LEMMA DeliveredKept ==
  ASSUME DeliveredOnce, NEW S \in SUBSET Tasks, NEW marks, Rest(S, marks),
         \A t \in S : ~(tasks[t].kind = "worker" /\ tasks[t].at = "answered"),
         device'.journal = device.journal, UNCHANGED <<txs, lost>>
  PROVE  DeliveredOnce'
<1>1. ASSUME NEW hash, Known(hash) PROVE Known(hash)'
  BY <1>1 DEF Known, Rest, KeptTask
<1> QED BY <1>1 DEF DeliveredOnce

LEMMA Ordinary ==
  ASSUME AppInv, NEW S \in SUBSET Tasks, NEW marks, Rest(S, marks), \A t, u \in S : t = u,
         PageKept(marks), Aside,
         \A t \in S : /\ TaskTyped(tasks'[t]) /\ Calm(tasks[t], tasks'[t])
                      /\ Vouched(page', tasks'[t]) /\ Gathered(node', tasks'[t])
                      /\ tasks'[t].kind = "plan" => "settlement" \in marks
  PROVE  AppInv' /\ NothingLeaves
<1>1. Alone'
  BY AloneKept DEF AppInv, Calm
<1>2. ASSUME NEW t \in Tasks
      PROVE  /\ TaskTyped(tasks'[t]) /\ Vouched(page', tasks'[t])
             /\ Underway(txs', lost', device'.journal, tasks'[t]) /\ Gathered(node', tasks'[t])
             /\ ~Leaves(t)
  <2>0. /\ TaskTyped(tasks[t]) /\ Vouched(page, tasks[t])
        /\ Underway(txs, lost, device.journal, tasks[t]) /\ Gathered(node, tasks[t])
    BY DEF AppInv
  <2>1. CASE t \in S
    <3>1. Underway(txs', lost', device'.journal, tasks'[t])
      BY <2>0, <2>1, CalmUnderway DEF Aside
    <3> QED BY <2>1, <3>1 DEF Calm, Leaves, GivenAway
  <2>2. CASE t \notin S
    <3>1. KeptTask(tasks[t], tasks'[t], marks)
      BY <2>2 DEF Rest
    <3>2. TaskTyped(tasks'[t]) /\ ~Leaves(t)
      BY <2>0, <3>1 DEF TaskTyped, KeptTask, Leaves, GivenAway
    <3> QED BY <2>0, <3>1, <3>2, VouchedKept, UnderwayKept, GatheredKept DEF Aside
  <2> QED BY <2>1, <2>2
<1>3. DeliveredOnce' /\ ReportsAreFaithful'
  BY DeliveredKept, ReportsKept DEF AppInv, Aside, PageKept, Calm
<1>4. NodeTyped' /\ SentTyped' /\ PageFits(page') /\ DOMAIN tasks' = Tasks /\ DOMAIN device' = DeviceFields
  BY DEF AppInv, Aside, NodeTyped, SentTyped, PageKept, Rest
<1> QED BY <1>1, <1>2, <1>3, <1>4 DEF AppInv, NothingLeaves

-----------------------------------------------------------------------------
(* Tasks that start, end or go on *)

LEMMA Lowering ==
  ASSUME AppInv, NEW marks
  PROVE  /\ DOMAIN Raised(marks) = Tasks
         /\ \A t \in Tasks : KeptTask(tasks[t], Raised(marks)[t], marks)
BY DEF AppInv, TaskTyped, Raised, KeptTask

LEMMA Raising ==
  ASSUME AppInv, NEW marks, Raise(marks)
  PROVE  Rest({}, marks)
BY Lowering DEF Raise, Rest

LEMMA Staying ==
  ASSUME AppInv, UNCHANGED tasks
  PROVE  Rest({}, {})
BY DEF AppInv, Rest, KeptTask

LEMMA Starting ==
  ASSUME AppInv, NEW t \in Tasks, NEW kind, NEW at, NEW raised, NEW holds, NEW item,
         Start(t, kind, at, raised, holds, item)
  PROVE  /\ Rest({t}, raised) /\ tasks[t] = Idle
         /\ tasks'[t] = [kind |-> kind, at |-> at, holds |-> holds, setup |-> page.setup, item |-> item]
BY Lowering DEF Start, Rest

LEMMA Ending ==
  ASSUME AppInv, NEW t \in Tasks, NEW raised, Finish(t, raised)
  PROVE  Rest({t}, raised) /\ tasks'[t] = Idle
BY Lowering DEF Finish, Rest

LEMMA Proceeding ==
  ASSUME AppInv, NEW t \in Tasks, NEW at, NEW item, Proceed(t, at, item)
  PROVE  /\ Rest({t}, {}) /\ DOMAIN tasks'[t] = DOMAIN tasks[t]
         /\ tasks'[t].kind = tasks[t].kind /\ tasks'[t].at = at /\ tasks'[t].setup = tasks[t].setup
         /\ tasks'[t].item = item /\ tasks'[t].holds = tasks[t].holds
BY DEF AppInv, TaskTyped, Proceed, Rest, KeptTask

LEMMA Connecting ==
  ASSUME AppInv, NEW t \in Tasks, NEW at, NEW item, Connected(t, at, item)
  PROVE  /\ Rest({t}, {}) /\ DOMAIN tasks'[t] = DOMAIN tasks[t]
         /\ tasks'[t].kind = tasks[t].kind /\ tasks'[t].at = at /\ tasks'[t].setup = tasks[t].setup
         /\ tasks'[t].item = item /\ tasks'[t].holds \subseteq tasks[t].holds \cup {"wallet"}
         /\ PageKept({})
<1> DEFINE joined == IF page.session = Nothing THEN Raised({"wallet"}) ELSE tasks
<1>1. DOMAIN joined = Tasks /\ \A u \in Tasks : KeptTask(tasks[u], joined[u], {})
  BY Lowering DEF AppInv, KeptTask
<1>2. DOMAIN joined[t] = {"kind", "at", "holds", "setup", "item"}
  BY <1>1 DEF AppInv, TaskTyped, KeptTask
<1>3. tasks' = [joined EXCEPT ![t].at = at, ![t].item = item, ![t].holds = @ \cup {"wallet"}]
  BY DEF Connected
<1>4. PageKept({})
  BY DEF Connected, WithSession, PageKept, PageFits, PageFields, AppInv
<1> HIDE DEF joined
<1> QED BY <1>1, <1>2, <1>3, <1>4 DEF Rest, KeptTask

LEMMA IdleTask ==
  /\ TaskTyped(Idle) /\ Idle.kind = "idle" /\ Idle.at = "idle"
  /\ \A p : Vouched(p, Idle)
  /\ \A n : Gathered(n, Idle)
BY DEF Idle, TaskTyped, Vouched, Gathered, Senders, Collectors

LEMMA RaiseStep ==
  ASSUME AppInv, NEW marks, Raise(marks), PageKept(marks), Aside
  PROVE  AppInv' /\ NothingLeaves
<1>1. Rest({}, marks)
  BY Raising
<1> QED BY <1>1, Ordinary

LEMMA QuietStep ==
  ASSUME AppInv, UNCHANGED tasks, PageKept({}), Aside
  PROVE  AppInv' /\ NothingLeaves
<1>1. Rest({}, {})
  BY Staying
<1> QED BY <1>1, Ordinary

LEMMA FinishStep ==
  ASSUME AppInv, NEW t \in Tasks, NEW raised, Finish(t, raised), PageKept(raised), Aside,
         ~(tasks[t].kind = "worker" /\ tasks[t].at = "answered")
  PROVE  AppInv' /\ NothingLeaves
<1>1. Rest({t}, raised) /\ tasks'[t] = Idle
  BY Ending
<1>2. Calm(tasks[t], tasks'[t])
  BY <1>1, IdleTask DEF Calm
<1>3. TaskTyped(tasks'[t]) /\ Vouched(page', tasks'[t]) /\ Gathered(node', tasks'[t]) /\ tasks'[t].kind # "plan"
  BY <1>1, IdleTask
<1> QED BY <1>1, <1>2, <1>3, Ordinary

\* A call that starts; what is left to show of it is what depends on its kind.
LEMMA StartStep ==
  ASSUME AppInv, NEW t \in Tasks, NEW kind, NEW at, NEW raised, NEW holds, NEW item,
         Start(t, kind, at, raised, holds, item), PageKept(raised), Aside,
         kind # "worker", at \notin {"handed", "asked", "answered"},
         kind \in Senders => DOMAIN item = {"call", "account", "hash"},
         kind = "sign" => DOMAIN item = {"packet", "account"},
         kind = "plan" => "settlement" \in raised,
         Vouched(page', tasks'[t]), Gathered(node', tasks'[t])
  PROVE  AppInv' /\ NothingLeaves
<1>1. /\ Rest({t}, raised) /\ tasks[t] = Idle
      /\ tasks'[t] = [kind |-> kind, at |-> at, holds |-> holds, setup |-> page.setup, item |-> item]
  BY Starting
<1>2. Calm(tasks[t], tasks'[t])
  BY <1>1, IdleTask DEF Calm
<1>3. TaskTyped(tasks'[t])
  BY <1>1 DEF TaskTyped
<1>4. tasks'[t].kind = "plan" => "settlement" \in raised
  BY <1>1
<1> QED BY <1>1, <1>2, <1>3, <1>4, Ordinary

PlainKinds == {"verify", "offer", "import", "followup", "recheck", "target"}

\* A call whose result rests on nothing but its own marks.
LEMMA PlainStart ==
  ASSUME AppInv, NEW t \in Tasks, NEW kind, kind \in PlainKinds, NEW at, NEW raised, NEW holds, NEW item,
         Start(t, kind, at, raised, holds, item), PageKept(raised), Aside,
         at \notin {"handed", "asked", "answered"},
         kind \in Senders => DOMAIN item = {"call", "account", "hash"}
  PROVE  AppInv' /\ NothingLeaves
<1>1. /\ Rest({t}, raised) /\ tasks[t] = Idle
      /\ tasks'[t] = [kind |-> kind, at |-> at, holds |-> holds, setup |-> page.setup, item |-> item]
  BY Starting
<1>2. Vouched(page', tasks'[t]) /\ Gathered(node', tasks'[t])
  BY <1>1 DEF Vouched, Gathered, PlainKinds, Collectors
<1>3. kind \notin {"worker", "sign", "plan"}
  BY DEF PlainKinds
<1> QED BY <1>2, <1>3, StartStep

-----------------------------------------------------------------------------
(* The settings and the wallet session *)

LEMMA SettingsKeep ==
  ASSUME AppInv, Settings
  PROVE  AppInv' /\ NothingLeaves
<1>1. CASE \E setup \in Setups : SettingsInput(setup)
  <2>1. PICK setup \in Setups : SettingsInput(setup)
    BY <1>1
  <2>2. PageKept(WriteMarks)
    BY <2>1 DEF SettingsInput, WithoutWrites, WithoutPrepared, WriteMarks, AppInv, PageKept, PageFits, PageFields
  <2>3. Aside
    BY <2>1 DEF SettingsInput, AppInv, Aside, walletVars, ledgerVars
  <2> QED BY <2>1, <2>2, <2>3, RaiseStep DEF SettingsInput
<1>2. CASE \E t \in Tasks : SubmitSettings(t)
  <2>1. PICK t \in Tasks : SubmitSettings(t)
    BY <1>2
  <2>2. PageKept(WriteMarks)
    BY <2>1 DEF SubmitSettings, WithoutWrites, WithoutPrepared, WriteMarks, AppInv, PageKept, PageFits, PageFields
  <2>3. Aside
    BY <2>1 DEF SubmitSettings, AppInv, Aside, walletVars, ledgerVars
  <2> QED BY <2>1, <2>2, <2>3, PlainStart DEF SubmitSettings, PlainKinds, Senders
<1>3. CASE \E t \in Tasks : CheckSettings(t)
  <2>1. PICK t \in Tasks : CheckSettings(t)
    BY <1>3
  <2>2. PageKept({})
    BY <2>1 DEF CheckSettings, AppInv, PageKept
  <2>3. Aside
    BY <2>1 DEF CheckSettings, AppInv, Aside, walletVars, ledgerVars
  <2> QED BY <2>1, <2>2, <2>3, PlainStart DEF CheckSettings, PlainKinds, Senders
<1>4. CASE \E t \in Tasks : LoadDemo(t)
  <2>1. PICK t \in Tasks : LoadDemo(t)
    BY <1>4
  <2>2. PageKept(WriteMarks)
    BY <2>1 DEF LoadDemo, WithoutWrites, WithoutPrepared, WriteMarks, AppInv, PageKept, PageFits, PageFields
  <2>3. Aside
    BY <2>1 DEF LoadDemo, AppInv, Aside, walletVars, ledgerVars, DeviceFields
  <2> QED BY <2>1, <2>2, <2>3, PlainStart DEF LoadDemo, PlainKinds, Senders
<1>5. CASE \E t \in Tasks : VerificationSucceeds(t) \/ VerificationFails(t)
  <2>1. PICK t \in Tasks : VerificationSucceeds(t) \/ VerificationFails(t)
    BY <1>5
  <2>2. PageKept({})
    BY <2>1 DEF VerificationSucceeds, VerificationFails, AppInv, PageKept, PageFits, PageFields
  <2>3. Aside
    BY <2>1 DEF VerificationSucceeds, VerificationFails, AppInv, Aside, walletVars, ledgerVars, DeviceFields
  <2>4. Finish(t, {}) /\ tasks[t].kind # "worker"
    BY <2>1 DEF VerificationSucceeds, VerificationFails, At
  <2> QED BY <2>2, <2>3, <2>4, FinishStep
<1>6. CASE LoadLocal
  <2>1. PageKept(WriteMarks)
    BY <1>6 DEF LoadLocal, WithoutWrites, WithoutPrepared, WriteMarks, AppInv, PageKept, PageFits, PageFields
  <2>2. Aside
    BY <1>6 DEF LoadLocal, AppInv, Aside, walletVars, ledgerVars, DeviceFields
  <2> QED BY <1>6, <2>1, <2>2, RaiseStep DEF LoadLocal
<1>7. CASE ClearSettings
  <2>1. PageKept(WriteMarks)
    BY <1>7 DEF ClearSettings, WithoutWrites, WithoutPrepared, WriteMarks, AppInv, PageKept, PageFits, PageFields
  <2>2. Aside
    BY <1>7 DEF ClearSettings, AppInv, Aside, walletVars, ledgerVars, DeviceFields
  <2> QED BY <1>7, <2>1, <2>2, RaiseStep DEF ClearSettings
<1> QED BY <1>1, <1>2, <1>3, <1>4, <1>5, <1>6, <1>7 DEF Settings

LEMMA SessionKeeps ==
  ASSUME AppInv, WalletEvent \/ Connect \/ \E account \in Accounts : SelectAccount(account)
  PROVE  AppInv' /\ NothingLeaves
<1>1. CASE \E account \in Accounts : SelectAccount(account)
  <2>1. PICK account \in Accounts : SelectAccount(account)
    BY <1>1
  <2>2. PageKept({}) /\ Aside
    BY <2>1 DEF SelectAccount, AppInv, Aside, ledgerVars, PageKept
  <2> QED BY <2>1, <2>2, QuietStep DEF SelectAccount
<1>2. CASE WalletEvent /\ ~page.bound
  <2>1. PageKept({}) /\ Aside
    BY <1>2 DEF WalletEvent, AppInv, Aside, ledgerVars, PageKept
  <2> QED BY <1>2, <2>1, QuietStep DEF WalletEvent
<1>3. CASE WalletEvent /\ page.bound
  <2>1. PageKept({"wallet", "write"})
    BY <1>3 DEF WalletEvent, WithoutPrepared, AppInv, PageKept, PageFits, PageFields
  <2>2. Aside
    BY <1>3 DEF WalletEvent, AppInv, Aside, ledgerVars
  <2> QED BY <1>3, <2>1, <2>2, RaiseStep DEF WalletEvent
<1>4. CASE Connect
  <2>1. PageKept({"wallet"})
    BY <1>4 DEF Connect, WithSession, AppInv, PageKept, PageFits, PageFields
  <2>2. Aside
    BY <1>4 DEF Connect, AppInv, Aside, walletVars, ledgerVars
  <2> QED BY <1>4, <2>1, <2>2, RaiseStep DEF Connect
<1> QED BY <1>1, <1>2, <1>3, <1>4

LEMMA FailureKeeps ==
  ASSUME AppInv, NEW t \in Tasks, Fail(t)
  PROVE  AppInv' /\ NothingLeaves
<1>1. PageKept({}) /\ Aside
  BY DEF Fail, AppInv, Aside, walletVars, ledgerVars, PageKept
<1> QED BY <1>1, FinishStep DEF Fail

-----------------------------------------------------------------------------
(* Offers and work files *)

LEMMA WorkFilesKeep ==
  ASSUME AppInv, WorkFiles
  PROVE  AppInv' /\ NothingLeaves
<1>1. CASE OfferInput
  <2>1. PageKept(DraftMarks)
    BY <1>1 DEF OfferInput, WithoutPrepared, DraftMarks, AppInv, PageKept, PageFits, PageFields
  <2>2. Aside
    BY <1>1 DEF OfferInput, AppInv, Aside, walletVars, ledgerVars
  <2> QED BY <1>1, <2>1, <2>2, RaiseStep DEF OfferInput
<1>2. CASE \E t \in Tasks, order \in Orders : SubmitOffer(t, order)
  <2>1. PICK t \in Tasks, order \in Orders : SubmitOffer(t, order)
    BY <1>2
  <2>2. PageKept(DraftMarks)
    BY <2>1 DEF SubmitOffer, WithDraft, WithoutPrepared, DraftMarks, AppInv, PageKept, PageFits, PageFields
  <2>3. Aside
    BY <2>1 DEF SubmitOffer, AppInv, Aside, walletVars, ledgerVars
  <2> QED BY <2>1, <2>2, <2>3, PlainStart DEF SubmitOffer, PlainKinds, Senders
<1>3. CASE \E t \in Tasks, order \in Orders : UseTemplate(t, order)
  <2>1. PICK t \in Tasks, order \in Orders : UseTemplate(t, order)
    BY <1>3
  <2>2. PageKept({"followup"}) /\ Aside
    BY <2>1 DEF UseTemplate, AppInv, Aside, walletVars, ledgerVars, PageKept
  <2> QED BY <2>1, <2>2, PlainStart DEF UseTemplate, PlainKinds, Senders
<1>4. CASE \E t \in Tasks, packet \in Packets, orders \in BOOLEAN : ChooseFile(t, packet, orders)
  <2>1. PICK t \in Tasks, packet \in Packets, orders \in BOOLEAN : ChooseFile(t, packet, orders)
    BY <1>4
  <2>2. PageKept(IF orders THEN DraftMarks ELSE {})
    BY <2>1 DEF ChooseFile, WithoutPrepared, DraftMarks, AppInv, PageKept, PageFits, PageFields
  <2>3. Aside
    BY <2>1 DEF ChooseFile, AppInv, Aside, walletVars, ledgerVars
  <2> QED BY <2>1, <2>2, <2>3, PlainStart DEF ChooseFile, PlainKinds, Senders
<1>5. CASE \E t \in Tasks : OfferCreated(t)
  <2>1. PICK t \in Tasks : OfferCreated(t)
    BY <1>5
  <2>2. PageKept(ReadMarks \cup DraftMarks)
    BY <2>1 DEF OfferCreated, Adopted, WithDraft, WithoutRead, WithoutPrepared, ReadMarks, DraftMarks,
                AppInv, PageKept, PageFits, PageFields
  <2>3. Aside
    BY <2>1 DEF OfferCreated, Kept, AppInv, Aside, walletVars, ledgerVars, DeviceFields
  <2>4. Finish(t, ReadMarks \cup DraftMarks) /\ tasks[t].kind # "worker"
    BY <2>1 DEF OfferCreated, At
  <2> QED BY <2>2, <2>3, <2>4, FinishStep
<1>6. CASE \E t \in Tasks : ReviewFile(t)
  <2>1. PICK t \in Tasks : ReviewFile(t)
    BY <1>6
  <2>2. /\ Rest({t}, {"work"}) /\ DOMAIN tasks'[t] = DOMAIN tasks[t]
        /\ tasks'[t].kind = "import" /\ tasks'[t].at = "review" /\ tasks[t].kind = "import"
    BY <2>1, Lowering DEF ReviewFile, At, Rest, AppInv, TaskTyped
  <2>3. TaskTyped(tasks'[t])
    BY <2>2 DEF TaskTyped, AppInv, Senders
  <2>4. Calm(tasks[t], tasks'[t]) /\ Vouched(page', tasks'[t]) /\ Gathered(node', tasks'[t])
    BY <2>2 DEF Calm, Vouched, Gathered, Collectors
  <2>5. PageKept({"work"}) /\ Aside
    BY <2>1 DEF ReviewFile, AppInv, Aside, walletVars, ledgerVars, PageKept
  <2> QED BY <2>2, <2>3, <2>4, <2>5, Ordinary
<1>7. CASE \E t \in Tasks : FileReviewed(t)
  <2>1. PICK t \in Tasks : FileReviewed(t)
    BY <1>7
  <2>2. PageKept(ReadMarks \cup DraftMarks)
    BY <2>1 DEF FileReviewed, Adopted, WithDraft, WithoutRead, WithoutPrepared, ReadMarks, DraftMarks,
                ReadWork, AppInv, PageKept, PageFits, PageFields
  <2>3. Aside
    BY <2>1 DEF FileReviewed, Kept, AppInv, Aside, walletVars, ledgerVars, DeviceFields
  <2>4. Finish(t, ReadMarks \cup DraftMarks) /\ tasks[t].kind # "worker"
    BY <2>1 DEF FileReviewed, At
  <2> QED BY <2>2, <2>3, <2>4, FinishStep
<1>8. CASE \E t \in Tasks : TemplateRead(t)
  <2>1. PICK t \in Tasks : TemplateRead(t)
    BY <1>8
  <2>2. PageKept(ReadMarks \cup DraftMarks)
    BY <2>1 DEF TemplateRead, WithDraft, WithoutRead, WithoutPrepared, ReadMarks, DraftMarks,
                AppInv, PageKept, PageFits, PageFields
  <2>3. Aside
    BY <2>1 DEF TemplateRead, AppInv, Aside, walletVars, ledgerVars, DeviceFields
  <2>4. Finish(t, ReadMarks \cup DraftMarks) /\ tasks[t].kind # "worker"
    BY <2>1 DEF TemplateRead, At
  <2> QED BY <2>2, <2>3, <2>4, FinishStep
<1>9. CASE \E record \in Range(device.works) : SelectSaved(record)
  <2>1. PICK record \in Range(device.works) : SelectSaved(record)
    BY <1>9
  <2>2. PageKept(ReadMarks \cup DraftMarks)
    BY <2>1 DEF SelectSaved, Adopted, WithDraft, WithoutRead, WithoutPrepared, ReadMarks, DraftMarks,
                AppInv, PageKept, PageFits, PageFields
  <2>3. Aside
    BY <2>1 DEF SelectSaved, AppInv, Aside, walletVars, ledgerVars
  <2> QED BY <2>1, <2>2, <2>3, RaiseStep DEF SelectSaved
<1>10. CASE page.packet # Nothing /\ \E m \in Milestones(page.packet.order) : SelectMilestone(m)
  <2>1. PICK m \in Milestones(page.packet.order) : SelectMilestone(m)
    BY <1>10
  <2>2. PageKept(ReadMarks)
    BY <2>1 DEF SelectMilestone, WithoutRead, ReadMarks, AppInv, PageKept, PageFits, PageFields
  <2>3. Aside
    BY <2>1 DEF SelectMilestone, AppInv, Aside, walletVars, ledgerVars, DeviceFields
  <2> QED BY <2>1, <2>2, <2>3, RaiseStep DEF SelectMilestone
<1> QED BY <1>1, <1>2, <1>3, <1>4, <1>5, <1>6, <1>7, <1>8, <1>9, <1>10 DEF WorkFiles

-----------------------------------------------------------------------------
(* Requests leave the page *)

\* A task that has its session gives its request away.
LEMMA AskStep ==
  ASSUME AppInv, NEW t \in Tasks, NEW at \in {"handed", "asked"}, Proceed(t, at, tasks[t].item),
         tasks[t].at \in {"session", "handed"},
         tasks[t].kind \in Senders \cup {"sign"}, at = "handed" => tasks[t].kind \in {"source", "target"},
         UNCHANGED <<page, device, prompts, txs, lost, node>>
  PROVE  /\ AppInv' /\ (\A u \in Tasks : Leaves(u) => u = t /\ ~GivenAway(tasks[t]))
         /\ tasks'[t].kind = tasks[t].kind /\ tasks'[t].setup = tasks[t].setup
         /\ tasks'[t].item = tasks[t].item
<1>1. /\ Rest({t}, {}) /\ DOMAIN tasks'[t] = DOMAIN tasks[t]
      /\ tasks'[t].kind = tasks[t].kind /\ tasks'[t].at = at /\ tasks'[t].setup = tasks[t].setup
      /\ tasks'[t].item = tasks[t].item /\ tasks'[t].holds = tasks[t].holds
  BY Proceeding
<1>2. PageKept({})
  BY DEF AppInv, PageKept
<1>3. Alone' /\ DeliveredOnce' /\ ReportsAreFaithful'
  <2>1. Alone'
    <3>1. \A u \in Tasks : tasks'[u].kind = tasks[u].kind /\ tasks'[u].holds \subseteq tasks[u].holds
      BY <1>1 DEF Rest, KeptTask
    <3> QED BY <3>1 DEF Alone, AppInv
  <2>2. DeliveredOnce'
    BY <1>1, DeliveredKept DEF AppInv
  <2> QED BY <2>1, <2>2, ReportsKept DEF AppInv
<1>4. ASSUME NEW u \in Tasks
      PROVE  /\ TaskTyped(tasks'[u]) /\ Vouched(page', tasks'[u])
             /\ Underway(txs', lost', device'.journal, tasks'[u]) /\ Gathered(node', tasks'[u])
             /\ Leaves(u) => u = t /\ ~GivenAway(tasks[t])
  <2>0. /\ TaskTyped(tasks[u]) /\ Vouched(page, tasks[u])
        /\ Underway(txs, lost, device.journal, tasks[u]) /\ Gathered(node, tasks[u])
    BY DEF AppInv
  <2>1. CASE u = t
    <3>1. TaskTyped(tasks'[t])
      BY <1>1, <2>0, <2>1 DEF TaskTyped
    <3>2. Vouched(page', tasks'[t]) /\ Gathered(node', tasks'[t])
      BY <1>1, <2>0, <2>1 DEF Vouched, Gathered
    <3>3. Underway(txs', lost', device'.journal, tasks'[t])
      BY <1>1, <2>0, <2>1 DEF Underway, TaskTyped
    <3>4. Leaves(u) => ~GivenAway(tasks[t])
      BY <2>1 DEF Leaves
    <3> QED BY <2>1, <3>1, <3>2, <3>3, <3>4
  <2>2. CASE u # t
    <3>1. KeptTask(tasks[u], tasks'[u], {})
      BY <1>1, <2>2 DEF Rest
    <3>2. TaskTyped(tasks'[u]) /\ ~Leaves(u)
      BY <2>0, <3>1 DEF TaskTyped, KeptTask, Leaves, GivenAway
    <3> QED BY <1>2, <2>0, <3>1, <3>2, VouchedKept, UnderwayKept, GatheredKept
  <2> QED BY <2>1, <2>2
<1>5. NodeTyped' /\ SentTyped' /\ PageFits(page') /\ DOMAIN tasks' = Tasks /\ DOMAIN device' = DeviceFields
  BY <1>1 DEF AppInv, NodeTyped, SentTyped, Rest
<1> QED BY <1>1, <1>3, <1>4, <1>5 DEF AppInv

\* What every step has to do, of the invariant and of the requests.
Keeps == AppInv' /\ \A t \in Tasks : Leaves(t) => Shows(tasks'[t])

LEMMA SilentKeeps ==
  ASSUME AppInv' /\ NothingLeaves
  PROVE  Keeps
BY DEF Keeps, NothingLeaves

LEMMA SignAskKeeps ==
  ASSUME AppInv, NEW t \in Tasks, SignAsk(t)
  PROVE  Keeps
<1>1. /\ tasks[t].kind = "sign" /\ tasks[t].at = "session" /\ {"draft", "wallet"} \subseteq tasks[t].holds
      /\ page.setup = tasks[t].setup /\ tasks[t].item.account = Worker(tasks[t].item.packet.order)
  BY DEF SignAsk, At, Fresh
<1>2. /\ AppInv' /\ (\A u \in Tasks : Leaves(u) => u = t)
      /\ tasks'[t].kind = tasks[t].kind /\ tasks'[t].setup = tasks[t].setup
      /\ tasks'[t].item = tasks[t].item
  BY <1>1, AskStep DEF SignAsk, walletVars, ledgerVars
<1>3. Vouched(page, tasks[t]) /\ PageFits(page)
  BY DEF AppInv
<1>4. OfferShown(tasks[t].item.packet, tasks[t].item.account)
  BY <1>1, <1>3 DEF OfferShown, Vouched, PageFits
<1> QED BY <1>1, <1>2, <1>4 DEF Keeps, Shows

LEMMA WorkAskKeeps ==
  ASSUME AppInv, NEW t \in Tasks, WorkAsk(t)
  PROVE  Keeps
<1> DEFINE call == tasks[t].item.call
<1>1. /\ tasks[t].kind = "worker" /\ tasks[t].at = "session" /\ "work" \in tasks[t].holds
      /\ page.setup = tasks[t].setup /\ tasks[t].item.account = Worker(call.order)
      /\ page.packet # Nothing /\ page.packet.order = call.order
      /\ page.delivery # Nothing /\ page.delivery.call.content = call.content
  BY DEF WorkAsk, At, SameSelection, Fresh
<1>2. /\ AppInv' /\ (\A u \in Tasks : Leaves(u) => u = t)
      /\ tasks'[t].kind = tasks[t].kind /\ tasks'[t].setup = tasks[t].setup
      /\ tasks'[t].item = tasks[t].item
  BY <1>1, AskStep DEF WorkAsk, walletVars, ledgerVars, Senders
<1>3. Vouched(page, tasks[t]) /\ PageFits(page)
  BY DEF AppInv
<1>4. DeliveryShown(call, tasks[t].item.account)
  BY <1>1, <1>3 DEF DeliveryShown, Vouched, PageFits
<1> QED BY <1>1, <1>2, <1>4 DEF Keeps, Shows

LEMMA PreparedHandedKeeps ==
  ASSUME AppInv, NEW t \in Tasks, PreparedHanded(t)
  PROVE  Keeps
<1>1. /\ tasks[t].kind \in {"source", "target"} /\ tasks[t].at = "session"
      /\ "write" \in tasks[t].holds /\ page.setup = tasks[t].setup
      /\ tasks[t].kind = "source" /\ NeedsSafe(tasks[t].item.call) =>
            tasks[t].item.account = SafeOf[tasks[t].setup]
  BY DEF PreparedHanded, Fresh
<1>2. /\ AppInv' /\ (\A u \in Tasks : Leaves(u) => u = t)
      /\ tasks'[t].kind = tasks[t].kind /\ tasks'[t].setup = tasks[t].setup
      /\ tasks'[t].item = tasks[t].item
  BY <1>1, AskStep DEF PreparedHanded, walletVars, ledgerVars, Senders
<1>3. tasks[t].kind = "source" => InForm(page, tasks[t].item.call)
  BY <1>1 DEF AppInv, Vouched
<1> QED BY <1>1, <1>2, <1>3 DEF Keeps, Shows

\* What the signer has is with the wallet now; it has left the page before.
LEMMA PreparedAskKeeps ==
  ASSUME AppInv, NEW t \in Tasks, PreparedAsk(t)
  PROVE  AppInv' /\ NothingLeaves
<1>1. tasks[t].kind \in {"source", "target"} /\ tasks[t].at = "handed"
  BY DEF PreparedAsk
<1>2. AppInv' /\ (\A u \in Tasks : Leaves(u) => u = t /\ ~GivenAway(tasks[t]))
  BY <1>1, AskStep DEF PreparedAsk, walletVars, ledgerVars, Senders
<1> QED BY <1>1, <1>2 DEF NothingLeaves, GivenAway

LEMMA SettleAskKeeps ==
  ASSUME AppInv, NEW t \in Tasks, SettleAsk(t)
  PROVE  Keeps
<1>0. TaskTyped(tasks[t]) /\ Vouched(page, tasks[t]) /\ PageFits(page)
  BY DEF AppInv
<1>1. tasks[t].kind = "settle" /\ tasks[t].at = "session"
  BY DEF SettleAsk, At
<1>2. CASE Journal(tasks[t].item.call.plan) = {}
  <2>1. Fresh(t, {"settlement", "wallet"}) /\ Proceed(t, "asked", tasks[t].item)
    BY <1>2 DEF SettleAsk
  <2>2. /\ AppInv' /\ (\A u \in Tasks : Leaves(u) => u = t)
        /\ tasks'[t].kind = tasks[t].kind /\ tasks'[t].setup = tasks[t].setup
        /\ tasks'[t].item = tasks[t].item
    BY <1>1, <2>1, AskStep DEF SettleAsk, walletVars, ledgerVars, Senders
  <2> QED BY <1>0, <1>1, <2>1, <2>2 DEF Keeps, Shows, Fresh, Vouched
<1>3. CASE Journal(tasks[t].item.call.plan) # {}
  <2>1. PICK hash : Proceed(t, "receipt", [tasks[t].item EXCEPT !.hash = hash])
    BY <1>3 DEF SettleAsk
  <2>2. /\ Rest({t}, {}) /\ DOMAIN tasks'[t] = DOMAIN tasks[t]
        /\ tasks'[t].kind = tasks[t].kind /\ tasks'[t].at = "receipt" /\ tasks'[t].setup = tasks[t].setup
        /\ tasks'[t].item = [tasks[t].item EXCEPT !.hash = hash] /\ tasks'[t].holds = tasks[t].holds
    BY <2>1, Proceeding
  <2>3. PageKept({}) /\ Aside
    BY DEF SettleAsk, AppInv, Aside, walletVars, ledgerVars, PageKept
  <2>4. TaskTyped(tasks'[t]) /\ Calm(tasks[t], tasks'[t]) /\ Gathered(node', tasks'[t])
    BY <1>0, <1>1, <2>2 DEF TaskTyped, Calm, Gathered, Senders, Collectors
  <2>5. page' = page /\ tasks'[t].item.call = tasks[t].item.call
    BY <1>0, <1>1, <2>2 DEF SettleAsk, TaskTyped, Senders
  <2>6. Vouched(page', tasks'[t])
    BY <1>0, <1>1, <2>2, <2>5 DEF Vouched
  <2> QED BY <1>1, <2>2, <2>3, <2>4, <2>6, Ordinary, SilentKeeps
<1> QED BY <1>2, <1>3

-----------------------------------------------------------------------------
(* Signing *)

\* A task looks at the wallet; it keeps its marks and what it is about.
LEMMA SessionStep ==
  ASSUME AppInv, NEW t \in Tasks, Connected(t, "session", [tasks[t].item EXCEPT !.account = wallet.account]),
         tasks[t].kind \in Senders \cup {"sign"}, tasks[t].at \in {"review", "checking"},
         tasks[t].kind = "worker" => tasks[t].at = "checking",
         UNCHANGED <<device, prompts, txs, lost, node>>
  PROVE  AppInv' /\ NothingLeaves
<1>1. /\ Rest({t}, {}) /\ DOMAIN tasks'[t] = DOMAIN tasks[t]
      /\ tasks'[t].kind = tasks[t].kind /\ tasks'[t].at = "session" /\ tasks'[t].setup = tasks[t].setup
      /\ tasks'[t].item = [tasks[t].item EXCEPT !.account = wallet.account]
      /\ tasks'[t].holds \subseteq tasks[t].holds \cup {"wallet"} /\ PageKept({})
  BY Connecting
<1>2. TaskTyped(tasks[t]) /\ Vouched(page, tasks[t])
  BY DEF AppInv
<1>3. /\ TaskTyped(tasks'[t])
      /\ tasks[t].kind \in Senders => tasks'[t].item.call = tasks[t].item.call
      /\ tasks[t].kind = "sign" => tasks'[t].item.packet = tasks[t].item.packet
  BY <1>1, <1>2 DEF TaskTyped, Senders
<1>4. Calm(tasks[t], tasks'[t]) /\ Gathered(node', tasks'[t]) /\ tasks'[t].kind # "plan"
  BY <1>1, <1>3 DEF Calm, Gathered, Senders, Collectors
<1>5. /\ page'.milestone = page.milestone /\ page'.draft = page.draft /\ page'.plan = page.plan
      /\ \A call : InForm(page, call) => InForm(page', call)
  BY <1>1 DEF PageKept, InForm
<1>6. Vouched(page', tasks'[t])
  BY <1>1, <1>2, <1>3, <1>5 DEF Vouched, Senders
<1>7. Aside
  BY DEF AppInv, Aside
<1> QED BY <1>1, <1>3, <1>4, <1>6, <1>7, Ordinary

LEMMA SigningKeeps ==
  ASSUME AppInv, Signing
  PROVE  Keeps
<1>1. CASE Acknowledge
  <2>1. PageKept({})
    BY <1>1 DEF Acknowledge, AppInv, PageKept, PageFits, PageFields
  <2>2. Aside
    BY <1>1 DEF Acknowledge, AppInv, Aside, walletVars, ledgerVars
  <2> QED BY <1>1, <2>1, <2>2, QuietStep, SilentKeeps DEF Acknowledge
<1>2. CASE \E t \in Tasks : SignQuote(t)
  <2>1. PICK t \in Tasks : SignQuote(t)
    BY <1>2
  <2>2. PageKept({}) /\ Aside
    BY <2>1 DEF SignQuote, AppInv, Aside, walletVars, ledgerVars, PageKept
  <2>3. Start(t, "sign", "review", {}, {"draft"}, [packet |-> page.draft, account |-> Nothing])
    BY <2>1 DEF SignQuote
  <2>4. tasks'[t] = [kind |-> "sign", at |-> "review", holds |-> {"draft"}, setup |-> page.setup,
                     item |-> [packet |-> page.draft, account |-> Nothing]]
    BY <2>3 DEF Start, Raised, AppInv
  <2>5. Vouched(page', tasks'[t]) /\ Gathered(node', tasks'[t])
    BY <2>1, <2>4 DEF SignQuote, Vouched, Gathered, Collectors
  <2> QED BY <2>2, <2>3, <2>5, StartStep, SilentKeeps DEF Senders
<1>3. CASE \E t \in Tasks : SignSession(t)
  <2>1. PICK t \in Tasks : SignSession(t)
    BY <1>3
  <2> QED BY <2>1, SessionStep, SilentKeeps DEF SignSession, At, walletVars, ledgerVars
<1>4. CASE \E t \in Tasks : SignAsk(t)
  BY <1>4, SignAskKeeps
<1>5. CASE \E t \in Tasks : SignReturned(t)
  <2>1. PICK t \in Tasks : SignReturned(t)
    BY <1>5
  <2>2. /\ Rest({t}, {}) /\ DOMAIN tasks'[t] = DOMAIN tasks[t] /\ tasks[t].kind = "sign"
        /\ tasks'[t].kind = tasks[t].kind /\ tasks'[t].at = "returned" /\ tasks'[t].setup = tasks[t].setup
        /\ tasks'[t].item = tasks[t].item /\ tasks'[t].holds = tasks[t].holds
    BY <2>1, Proceeding DEF SignReturned, At
  <2>3. PageKept({}) /\ Aside /\ page' = page
    BY <2>1 DEF SignReturned, AppInv, Aside, walletVars, ledgerVars, PageKept
  <2>4. TaskTyped(tasks[t]) /\ Vouched(page, tasks[t])
    BY DEF AppInv
  <2>5. TaskTyped(tasks'[t]) /\ Calm(tasks[t], tasks'[t]) /\ Gathered(node', tasks'[t])
    BY <2>2, <2>4 DEF TaskTyped, Calm, Gathered, Senders, Collectors
  <2>6. Vouched(page', tasks'[t]) /\ tasks'[t].kind # "plan"
    BY <2>2, <2>3, <2>4 DEF Vouched
  <2> QED BY <2>2, <2>3, <2>5, <2>6, Ordinary, SilentKeeps
<1>6. CASE \E t \in Tasks : Signed(t)
  <2>1. PICK t \in Tasks : Signed(t)
    BY <1>6
  <2>2. PageKept(ReadMarks \cup DraftMarks)
    BY <2>1 DEF Signed, Adopted, WithDraft, WithoutRead, WithoutPrepared, ReadMarks, DraftMarks,
                AppInv, PageKept, PageFits, PageFields
  <2>3. Aside
    BY <2>1 DEF Signed, Kept, AppInv, Aside, walletVars, ledgerVars, DeviceFields
  <2>4. Finish(t, ReadMarks \cup DraftMarks) /\ tasks[t].kind # "worker"
    BY <2>1 DEF Signed, At
  <2> QED BY <2>2, <2>3, <2>4, FinishStep, SilentKeeps
<1> QED BY <1>1, <1>2, <1>3, <1>4, <1>5, <1>6 DEF Signing

-----------------------------------------------------------------------------
(* Source and target calls *)

LEMMA ExecutingKeeps ==
  ASSUME AppInv, Executing
  PROVE  Keeps
<1>1. CASE \E call \in Calls : SourceInput(call)
  <2>1. PICK call \in Calls : SourceInput(call)
    BY <1>1
  <2>2. PageKept(PreparedMarks)
    BY <2>1 DEF SourceInput, WithoutPrepared, PreparedMarks, AppInv, PageKept, PageFits, PageFields
  <2>3. Aside
    BY <2>1 DEF SourceInput, AppInv, Aside, walletVars, ledgerVars
  <2> QED BY <2>1, <2>2, <2>3, RaiseStep, SilentKeeps DEF SourceInput
<1>2. CASE PrepareSource
  <2>1. PageKept(PreparedMarks)
    BY <1>2 DEF PrepareSource, WithoutPrepared, PreparedMarks, AppInv, PageKept, PageFits, PageFields
  <2>2. Aside
    BY <1>2 DEF PrepareSource, AppInv, Aside, walletVars, ledgerVars
  <2> QED BY <1>2, <2>1, <2>2, RaiseStep, SilentKeeps DEF PrepareSource
<1>3. CASE \E t \in Tasks : PrepareQuote(t)
  <2>1. PICK t \in Tasks : PrepareQuote(t)
    BY <1>3
  <2>2. PageKept(PreparedMarks)
    BY <2>1 DEF PrepareQuote, WithoutPrepared, PreparedMarks, AppInv, PageKept, PageFits, PageFields
  <2>3. Aside
    BY <2>1 DEF PrepareQuote, AppInv, Aside, walletVars, ledgerVars
  <2>4. tasks'[t] = [kind |-> "quote", at |-> "reading", holds |-> {"draft"}, setup |-> page.setup,
                     item |-> [packet |-> page.draft]]
    BY <2>1, Starting DEF PrepareQuote
  <2>5. Vouched(page', tasks'[t]) /\ Gathered(node', tasks'[t])
    BY <2>1, <2>4 DEF PrepareQuote, WithoutPrepared, AppInv, PageFits, PageFields, Vouched, Gathered, Collectors
  <2> QED BY <2>1, <2>2, <2>3, <2>5, StartStep, SilentKeeps DEF PrepareQuote, Senders
<1>4. CASE \E t \in Tasks : QuotePrepared(t)
  <2>1. PICK t \in Tasks : QuotePrepared(t)
    BY <1>4
  <2>2. PageKept({})
    <3>1. tasks[t].kind = "quote" /\ "draft" \in tasks[t].holds /\ Vouched(page, tasks[t])
      BY <2>1 DEF QuotePrepared, At, Fresh, AppInv
    <3>2. page.draft = tasks[t].item.packet /\ page.draft # Nothing /\ page.draft.signed
      BY <3>1 DEF Vouched
    <3> QED BY <2>1, <3>2 DEF QuotePrepared, AppInv, PageKept, PageFits, PageFields
  <2>3. Aside
    BY <2>1 DEF QuotePrepared, AppInv, Aside, walletVars, ledgerVars
  <2>4. Finish(t, {}) /\ tasks[t].kind # "worker"
    BY <2>1 DEF QuotePrepared, At
  <2> QED BY <2>2, <2>3, <2>4, FinishStep, SilentKeeps
<1>5. CASE \E t \in Tasks : ExecuteSource(t)
  <2>1. PICK t \in Tasks : ExecuteSource(t)
    BY <1>5
  <2>2. PageKept({}) /\ Aside
    BY <2>1 DEF ExecuteSource, AppInv, Aside, walletVars, ledgerVars, PageKept
  <2>3. DOMAIN Asking(page.prepared.call, Nothing) = {"call", "account", "hash"}
    BY DEF Asking
  <2>4. tasks'[t] = [kind |-> "source", at |-> "checking", holds |-> {"write"}, setup |-> page.setup,
                     item |-> Asking(page.prepared.call, Nothing)]
    <3>1. Start(t, "source", "checking", {}, {"write"}, Asking(page.prepared.call, Nothing))
      BY <2>1 DEF ExecuteSource
    <3>2. tasks' = [Raised({}) EXCEPT ![t] = [kind |-> "source", at |-> "checking", holds |-> {"write"},
                setup |-> page.setup, item |-> Asking(page.prepared.call, Nothing)]]
      BY <3>1 DEF Start
    <3> QED BY <2>1, <3>2, Lowering
  <2>5. page' = page /\ page.control = tasks'[t].item.call
    BY <2>1, <2>4 DEF ExecuteSource, Asking
  <2>6. Vouched(page', tasks'[t]) /\ Gathered(node', tasks'[t])
    BY <2>4, <2>5 DEF Vouched, Gathered, Collectors, InForm
  <2> QED BY <2>1, <2>2, <2>3, <2>6, StartStep, SilentKeeps DEF ExecuteSource
<1>6. CASE \E t \in Tasks, epoch \in Epochs : ExecuteTarget(t, epoch)
  <2>1. PICK t \in Tasks, epoch \in Epochs : ExecuteTarget(t, epoch)
    BY <1>6
  <2>2. PageKept({}) /\ Aside
    BY <2>1 DEF ExecuteTarget, AppInv, Aside, walletVars, ledgerVars, PageKept
  <2>3. DOMAIN Asking(Pay(epoch), Nothing) = {"call", "account", "hash"}
    BY DEF Asking
  <2> QED BY <2>1, <2>2, <2>3, PlainStart, SilentKeeps DEF ExecuteTarget, PlainKinds
<1>7. CASE \E t \in Tasks : PreparedSession(t)
  <2>1. PICK t \in Tasks : PreparedSession(t)
    BY <1>7
  <2> QED BY <2>1, SessionStep, SilentKeeps DEF PreparedSession, Senders, walletVars, ledgerVars
<1>8. CASE \E t \in Tasks : PreparedHanded(t)
  BY <1>8, PreparedHandedKeeps
<1>9. CASE \E t \in Tasks : PreparedAsk(t)
  BY <1>9, PreparedAskKeeps, SilentKeeps
<1>10. CASE \E t \in Tasks : PreparedSent(t)
  <2>1. PICK t \in Tasks : PreparedSent(t)
    BY <1>10
  <2>2. PageKept({}) /\ Aside
    BY <2>1 DEF PreparedSent, AppInv, Aside, walletVars, ledgerVars, PageKept
  <2>3. Finish(t, {}) /\ tasks[t].kind # "worker"
    BY <2>1 DEF PreparedSent
  <2> QED BY <2>2, <2>3, FinishStep, SilentKeeps
<1> QED BY <1>1, <1>2, <1>3, <1>4, <1>5, <1>6, <1>7, <1>8, <1>9, <1>10 DEF Executing

-----------------------------------------------------------------------------
(* What has been sent *)

\* A step that does more than an ordinary one: to the transactions, the journal or a delivery.
LEMMA Telling ==
  ASSUME AppInv, NEW S \in SUBSET Tasks, NEW marks, Rest(S, marks), PageKept(marks),
         DOMAIN device' = DeviceFields, UNCHANGED node,
         \A t \in S : /\ TaskTyped(tasks'[t]) /\ Vouched(page', tasks'[t]) /\ Gathered(node', tasks'[t])
                      /\ ~GivenAway(tasks'[t]),
         \A t \in Tasks : Underway(txs', lost', device'.journal, tasks'[t]),
         Alone', DeliveredOnce', SentTyped'
  PROVE  AppInv' /\ NothingLeaves
<1>1. ASSUME NEW t \in Tasks
      PROVE  /\ TaskTyped(tasks'[t]) /\ Vouched(page', tasks'[t]) /\ Gathered(node', tasks'[t])
             /\ ~Leaves(t)
  <2>0. TaskTyped(tasks[t]) /\ Vouched(page, tasks[t]) /\ Gathered(node, tasks[t])
    BY DEF AppInv
  <2>1. CASE t \in S
    BY <2>1 DEF Leaves, GivenAway
  <2>2. CASE t \notin S
    <3>1. KeptTask(tasks[t], tasks'[t], marks)
      BY <2>2 DEF Rest
    <3>2. TaskTyped(tasks'[t]) /\ ~Leaves(t)
      BY <2>0, <3>1 DEF TaskTyped, KeptTask, Leaves, GivenAway
    <3> QED BY <2>0, <3>1, <3>2, VouchedKept, GatheredKept
  <2> QED BY <2>1, <2>2
<1>2. ReportsAreFaithful'
  BY ReportsKept DEF AppInv, PageKept
<1>3. NodeTyped' /\ PageFits(page') /\ DOMAIN tasks' = Tasks
  BY DEF AppInv, NodeTyped, PageKept, Rest
<1> QED BY <1>1, <1>2, <1>3 DEF AppInv, NothingLeaves

\* A transaction is appended.
LEMMA Appending ==
  ASSUME SentTyped, NEW tx, TxTyped(tx), txs' = Append(txs, tx)
  PROVE  /\ txs' \in Seq(Range(txs')) /\ \A x \in Range(txs') : TxTyped(x)
         /\ Len(txs) + 1 \notin DOMAIN txs /\ Len(txs) + 1 \notin lost
         /\ DOMAIN txs' = DOMAIN txs \cup {Len(txs) + 1} /\ txs'[Len(txs) + 1] = tx
         /\ \A hash \in DOMAIN txs : txs'[hash] = txs[hash]
<1>1. txs \in Seq(Range(txs)) /\ lost \subseteq DOMAIN txs /\ \A x \in Range(txs) : TxTyped(x)
  BY DEF SentTyped
<1>2. Len(txs) \in Nat /\ DOMAIN txs = 1 .. Len(txs)
  BY <1>1
<1>3. txs \in Seq(Range(txs) \cup {tx})
  BY <1>1
<1>4. /\ txs' \in Seq(Range(txs) \cup {tx}) /\ Len(txs') = Len(txs) + 1
      /\ DOMAIN txs' = 1 .. Len(txs) + 1 /\ txs'[Len(txs) + 1] = tx
      /\ \A hash \in DOMAIN txs : txs'[hash] = txs[hash]
  BY <1>2, <1>3
<1>5. Range(txs') \subseteq Range(txs) \cup {tx}
  BY <1>4 DEF Range
<1>6. txs' \in Seq(Range(txs'))
  BY <1>4 DEF Range
<1> QED BY <1>1, <1>2, <1>4, <1>5, <1>6

\* The transactions sent keep what they are; a result comes once.
Lengthened ==
    /\ DOMAIN txs \subseteq DOMAIN txs'
    /\ \A hash \in DOMAIN txs :
          /\ txs'[hash].via = txs[hash].via /\ txs'[hash].call = txs[hash].call
          /\ txs[hash].outcome # "waiting" => txs'[hash].outcome = txs[hash].outcome

LEMMA UnderwayLengthened ==
  ASSUME NEW old, NEW new, NEW marks, KeptTask(old, new, marks),
         Underway(txs, lost, device.journal, old), Lengthened, device'.journal = device.journal,
         Deliveries(txs', lost') = Deliveries(txs, lost)
  PROVE  Underway(txs', lost', device'.journal, new)
<1>1. \A hash \in Deliveries(txs, lost) : txs'[hash].call = txs[hash].call
  BY DEF Deliveries, Lengthened
<1> QED BY <1>1 DEF KeptTask, Underway, Lengthened

LEMMA DeliveredLengthened ==
  ASSUME AppInv, NEW S \in SUBSET Tasks, NEW marks, Rest(S, marks), Lengthened,
         \A t \in S : ~(tasks[t].kind = "worker" /\ tasks[t].at = "answered"),
         device'.journal = device.journal, Deliveries(txs', lost') = Deliveries(txs, lost)
  PROVE  DeliveredOnce'
<1> DEFINE D == Deliveries(txs, lost)
<1>0. DeliveredOnce /\ SentTyped
  BY DEF AppInv
<1>1. \A hash \in D : txs'[hash].call = txs[hash].call
  BY DEF Deliveries, Lengthened
<1>2. ASSUME NEW hash \in D PROVE Known(hash)'
  <2>1. Known(hash)
    BY <1>0 DEF DeliveredOnce, Deliveries
  <2> QED BY <1>1, <2>1 DEF Known, Rest, KeptTask
<1>3. \A h1, h2 \in D : txs'[h1].call = txs'[h2].call => h1 = h2
  BY <1>0, <1>1 DEF DeliveredOnce, Deliveries
<1>4. ASSUME NEW entry \in device.journal
      PROVE  /\ entry.call = txs'[entry.hash].call
             /\ entry.state = "confirmed" => txs'[entry.hash].outcome = "ok"
             /\ entry.state = "failed" => txs'[entry.hash].outcome = "failed"
  <2>1. entry.hash \in DOMAIN txs
    BY <1>0 DEF SentTyped, Deliveries
  <2>2. /\ entry.call = txs[entry.hash].call
        /\ entry.state = "confirmed" => txs[entry.hash].outcome = "ok"
        /\ entry.state = "failed" => txs[entry.hash].outcome = "failed"
    BY <1>0 DEF DeliveredOnce
  <2> QED BY <2>1, <2>2 DEF Lengthened
<1> QED BY <1>2, <1>3, <1>4 DEF DeliveredOnce, Deliveries

LEMMA MiningKeeps ==
  ASSUME AppInv, \E hash \in DOMAIN txs : Mine(hash)
  PROVE  AppInv' /\ NothingLeaves
<1>0. PICK hash \in DOMAIN txs : Mine(hash)
  OBVIOUS
<1>1. PICK outcome \in {"ok", "failed"} :
         txs[hash].outcome = "waiting" /\ txs' = [txs EXCEPT ![hash].outcome = outcome]
  BY <1>0 DEF Mine
<1>2. SentTyped
  BY DEF AppInv
<1>3. ASSUME NEW h \in DOMAIN txs
      PROVE  /\ TxTyped(txs'[h]) /\ txs'[h].via = txs[h].via /\ txs'[h].call = txs[h].call
             /\ txs[h].outcome # "waiting" => txs'[h].outcome = txs[h].outcome
  <2>1. TxTyped(txs[h])
    BY <1>2 DEF SentTyped, Range
  <2>2. CASE h = hash
    BY <1>1, <2>1, <2>2 DEF TxTyped
  <2>3. CASE h # hash
    BY <1>1, <2>1, <2>3
  <2> QED BY <2>2, <2>3
<1>4. DOMAIN txs' = DOMAIN txs /\ lost' = lost
  BY <1>0, <1>1 DEF Mine, walletVars
<1>5. Lengthened /\ Deliveries(txs', lost') = Deliveries(txs, lost)
  BY <1>3, <1>4 DEF Lengthened, Deliveries
<1>6. SentTyped'
  <2>1. txs \in Seq(Range(txs)) /\ Len(txs) \in Nat /\ DOMAIN txs = 1 .. Len(txs)
    BY <1>2 DEF SentTyped
  <2>2. txs' = [h \in 1 .. Len(txs) |-> txs'[h]]
    BY <1>1, <2>1
  <2>3. txs' \in Seq(Range(txs'))
    BY <1>4, <2>1, <2>2 DEF Range
  <2>4. \A tx \in Range(txs') : TxTyped(tx)
    BY <1>3, <1>4 DEF Range
  <2> QED BY <1>0, <1>2, <1>4, <1>5, <2>3, <2>4 DEF SentTyped, Mine, walletVars
<1>7. Rest({}, {}) /\ PageKept({}) /\ UNCHANGED <<device, tasks, node>>
  BY <1>0, Staying DEF Mine, AppInv, PageKept
<1>8. DeliveredOnce' /\ Alone'
  BY <1>5, <1>7, DeliveredLengthened, AloneKept DEF AppInv
<1>9. \A t \in Tasks : Underway(txs', lost', device'.journal, tasks'[t])
  BY <1>5, <1>7, UnderwayLengthened DEF AppInv, Rest
<1> QED BY <1>6, <1>7, <1>8, <1>9, Telling DEF AppInv

\* A transaction whose hash the page never learns.
LEMMA LosingKeeps ==
  ASSUME AppInv, NEW S \in SUBSET Tasks, Rest(S, {}), \A t, u \in S : t = u,
         \A t \in S : tasks'[t] = Idle /\ ~(tasks[t].kind = "worker" /\ tasks[t].at = "answered"),
         NEW tx, TxTyped(tx), txs' = Append(txs, tx), lost' = lost \cup {Len(txs) + 1},
         prompts' \subseteq prompts, UNCHANGED <<page, device, node>>
  PROVE  AppInv' /\ NothingLeaves
<1>1. SentTyped
  BY DEF AppInv
<1>2. /\ txs' \in Seq(Range(txs')) /\ \A x \in Range(txs') : TxTyped(x)
      /\ Len(txs) + 1 \notin DOMAIN txs /\ Len(txs) + 1 \notin lost
      /\ DOMAIN txs' = DOMAIN txs \cup {Len(txs) + 1} /\ txs'[Len(txs) + 1] = tx
      /\ \A hash \in DOMAIN txs : txs'[hash] = txs[hash]
  BY <1>1, Appending
<1>3. Lengthened /\ Deliveries(txs', lost') = Deliveries(txs, lost)
  BY <1>2 DEF Lengthened, Deliveries
<1>4. SentTyped'
  BY <1>1, <1>2, <1>3 DEF SentTyped
<1>5. PageKept({})
  BY DEF AppInv, PageKept
<1>6. DeliveredOnce'
  BY <1>3, DeliveredLengthened DEF AppInv
<1>7. ASSUME NEW t \in S
      PROVE  /\ TaskTyped(tasks'[t]) /\ Vouched(page', tasks'[t]) /\ Gathered(node', tasks'[t])
             /\ tasks'[t].kind \notin {"worker", "plan"} /\ tasks'[t].at \notin {"handed", "asked", "answered"}
  BY IdleTask
<1>8. Alone'
  BY <1>7, AloneKept DEF AppInv
<1>9. ASSUME NEW t \in Tasks PROVE Underway(txs', lost', device'.journal, tasks'[t])
  <2>1. CASE t \in S
    BY <1>7, <2>1 DEF Underway
  <2>2. CASE t \notin S
    BY <1>3, <2>2, UnderwayLengthened DEF AppInv, Rest
  <2> QED BY <2>1, <2>2
<1> QED BY <1>4, <1>5, <1>6, <1>7, <1>8, <1>9, Telling DEF AppInv, GivenAway

LEMMA WalletLosesKeeps ==
  ASSUME AppInv, NEW t \in Tasks, WalletLoses(t)
  PROVE  AppInv' /\ NothingLeaves
<1>1. Rest({t}, {}) /\ tasks'[t] = Idle
  BY Ending DEF WalletLoses
<1> DEFINE tx == [via |-> tasks[t].kind, call |-> tasks[t].item.call,
                  from |-> tasks[t].item.account, outcome |-> "waiting"]
<1>2. /\ TxTyped(tx) /\ txs' = Append(txs, tx) /\ lost' = lost \cup {Len(txs) + 1}
      /\ tasks[t].at # "answered" /\ UNCHANGED <<page, device, node, prompts>>
  BY DEF WalletLoses, TxTyped
<1> HIDE DEF tx
<1> QED BY <1>1, <1>2, LosingKeeps

LEMMA PromptSendsKeeps ==
  ASSUME AppInv, PromptSends
  PROVE  AppInv' /\ NothingLeaves
<1>1. PICK prompt \in prompts : txs' = Append(txs, prompt) /\ prompts' = prompts \ {prompt}
  BY DEF PromptSends
<1>2. TxTyped(prompt)
  BY <1>1 DEF AppInv, SentTyped
<1>3. lost' = lost \cup {Len(txs) + 1} /\ UNCHANGED <<page, device, node, tasks>>
  BY DEF PromptSends
<1>4. Rest({}, {})
  BY <1>3, Staying
<1> QED BY <1>1, <1>2, <1>3, <1>4, LosingKeeps

\* The answer of the wallet: of a delivery, it is the first that makes its call.
LEMMA WalletSendsKeeps ==
  ASSUME AppInv, NEW t \in Tasks, WalletSends(t)
  PROVE  AppInv' /\ NothingLeaves
<1> DEFINE kind == tasks[t].kind
           call == tasks[t].item.call
           tx == [via |-> kind, call |-> call, from |-> tasks[t].item.account, outcome |-> "waiting"]
           D == Deliveries(txs, lost)
<1> PICK hash : hash = Len(txs) + 1
  OBVIOUS
<1>0. /\ SentTyped /\ TaskTyped(tasks[t]) /\ Vouched(page, tasks[t]) /\ DeliveredOnce /\ Alone
      /\ \A u \in Tasks : Underway(txs, lost, device.journal, tasks[u])
  BY DEF AppInv
<1>1. /\ tasks[t].at = "asked" /\ kind \in Senders
      /\ Proceed(t, "answered", [tasks[t].item EXCEPT !.hash = hash])
      /\ UNCHANGED <<page, device, prompts, lost, node>>
  BY <1>0 DEF WalletSends, TaskTyped
<1>2. /\ Rest({t}, {}) /\ DOMAIN tasks'[t] = DOMAIN tasks[t]
      /\ tasks'[t].kind = kind /\ tasks'[t].at = "answered" /\ tasks'[t].setup = tasks[t].setup
      /\ tasks'[t].item = [tasks[t].item EXCEPT !.hash = hash] /\ tasks'[t].holds = tasks[t].holds
  BY <1>1, Proceeding
<1>3. tasks'[t].item.call = call /\ tasks'[t].item.hash = hash /\ TaskTyped(tasks'[t])
  BY <1>0, <1>1, <1>2 DEF TaskTyped, Senders
<1>4. Vouched(page', tasks'[t]) /\ Gathered(node', tasks'[t])
  BY <1>0, <1>1, <1>2, <1>3 DEF Vouched, Gathered, Senders, Collectors
<1>5. /\ txs' \in Seq(Range(txs')) /\ \A x \in Range(txs') : TxTyped(x)
      /\ hash \notin DOMAIN txs /\ hash \notin lost
      /\ DOMAIN txs' = DOMAIN txs \cup {hash} /\ txs'[hash] = tx
      /\ \A h \in DOMAIN txs : txs'[h] = txs[h]
  <2>1. TxTyped(tx) /\ txs' = Append(txs, tx)
    BY DEF WalletSends, TxTyped
  <2> HIDE DEF tx
  <2> QED BY <1>0, <2>1, Appending
<1>6. tx.via = kind /\ tx.call = call
  OBVIOUS
<1> HIDE DEF tx, kind, call
<1>7. Deliveries(txs', lost') = IF kind = "worker" THEN D \cup {hash} ELSE D
  BY <1>1, <1>5, <1>6 DEF Deliveries
<1>8. SentTyped'
  BY <1>0, <1>1, <1>5, <1>7 DEF SentTyped
<1>9. PageKept({})
  BY <1>1 DEF AppInv, PageKept
<1>10. Lengthened
  BY <1>5 DEF Lengthened
<1>11. Alone'
  <2>1. \A u \in Tasks : tasks'[u].kind = tasks[u].kind /\ tasks'[u].holds \subseteq tasks[u].holds
    BY <1>2 DEF Rest, KeptTask, kind
  <2> QED BY <1>0, <2>1 DEF Alone
<1>12. CASE kind # "worker"
  <2>1. Deliveries(txs', lost') = D
    BY <1>7, <1>12
  <2>2. DeliveredOnce'
    <3>1. tasks[t].at # "answered"
      BY <1>1
    <3> QED BY <1>1, <1>2, <1>10, <2>1, <3>1, DeliveredLengthened
  <2>3. ASSUME NEW u \in Tasks PROVE Underway(txs', lost', device'.journal, tasks'[u])
    <3>1. CASE u = t
      BY <1>2, <1>3, <1>5, <1>6, <1>12, <3>1 DEF Underway
    <3>2. CASE u # t
      <4>1. KeptTask(tasks[u], tasks'[u], {})
        BY <1>2, <3>2 DEF Rest
      <4> QED BY <1>0, <1>1, <1>10, <2>1, <4>1, UnderwayLengthened
    <3> QED BY <3>1, <3>2
  <2> QED BY <1>1, <1>2, <1>3, <1>4, <1>8, <1>9, <1>11, <2>2, <2>3, Telling DEF AppInv, GivenAway
<1>13. CASE kind = "worker"
  <2>1. Deliveries(txs', lost') = D \cup {hash}
    BY <1>7, <1>13
  <2>2. /\ hash \notin D /\ \A h \in D : h \in DOMAIN txs /\ txs[h].call # call
        /\ \A entry \in device.journal : entry.hash \in D
    BY <1>0, <1>1, <1>5, <1>13 DEF Underway, Deliveries, SentTyped, kind, call
  <2>3. \A u \in Tasks : u # t => tasks[u].kind # "worker" /\ tasks'[u].kind # "worker"
    BY <1>0, <1>2, <1>13 DEF Alone, Rest, KeptTask, kind
  <2>4. ASSUME NEW u \in Tasks PROVE Underway(txs', lost', device'.journal, tasks'[u])
    <3>1. CASE u = t
      <4>1. /\ hash \in Deliveries(txs', lost') /\ hash \in DOMAIN txs'
            /\ txs'[hash].call = call /\ txs'[hash].via = kind
        BY <1>5, <1>6, <2>1
      <4>2. \A entry \in device'.journal : entry.hash # hash
        BY <1>1, <2>2
      <4>3. tasks'[t].kind = kind /\ tasks'[t].at = "answered"
        BY <1>2 DEF kind
      <4> QED BY <1>3, <3>1, <4>1, <4>2, <4>3 DEF Underway
    <3>2. CASE u # t
      <4>1. KeptTask(tasks[u], tasks'[u], {})
        BY <1>2, <3>2 DEF Rest
      <4>2. Underway(txs, lost, device.journal, tasks[u]) /\ tasks'[u].kind # "worker"
        BY <1>0, <2>3, <3>2
      <4>3. tasks[u].at = "answered" => tasks[u].item.hash \in DOMAIN txs /\ txs[tasks[u].item.hash].via = tasks[u].kind
        BY <4>2 DEF Underway
      <4>4. tasks'[u].at = "answered" =>
               tasks'[u].item.hash \in DOMAIN txs' /\ txs'[tasks'[u].item.hash].via = tasks'[u].kind
        BY <1>5, <4>1, <4>3 DEF KeptTask
      <4> QED BY <4>2, <4>4 DEF Underway
    <3> QED BY <3>1, <3>2
  <2>5. DeliveredOnce'
    <3>1. \A h1, h2 \in D \cup {hash} : txs'[h1].call = txs'[h2].call => h1 = h2
      BY <1>0, <1>5, <1>6, <2>2 DEF DeliveredOnce, Deliveries
    <3>2. Known(hash)'
      BY <1>2, <1>3, <1>13 DEF Known
    <3>3. ASSUME NEW h \in D PROVE Known(h)'
      <4>1. \A u \in Tasks : ~(tasks[u].kind = "worker" /\ tasks[u].at = "answered")
        BY <1>1, <2>3
      <4>2. Known(h)
        BY <1>0 DEF DeliveredOnce, Deliveries
      <4> QED BY <1>1, <1>5, <2>2, <4>1, <4>2 DEF Known
    <3>4. \A entry \in device'.journal :
             /\ entry.call = txs'[entry.hash].call
             /\ entry.state = "confirmed" => txs'[entry.hash].outcome = "ok"
             /\ entry.state = "failed" => txs'[entry.hash].outcome = "failed"
      BY <1>0, <1>1, <1>5, <2>2 DEF DeliveredOnce
    <3>5. {h \in DOMAIN txs' : txs'[h].via = "worker"} \ lost' = D \cup {hash}
      BY <2>1 DEF Deliveries
    <3> HIDE DEF D
    <3> QED BY <3>1, <3>2, <3>3, <3>4, <3>5 DEF DeliveredOnce
  <2> QED BY <1>1, <1>2, <1>3, <1>4, <1>8, <1>9, <1>11, <2>4, <2>5, Telling DEF AppInv, GivenAway
<1> QED BY <1>12, <1>13

-----------------------------------------------------------------------------
(* Deliveries *)

\* A delivery that starts is in the journal under no hash, and in nobody else's hands.
LEMMA SendWorkKeeps ==
  ASSUME AppInv, NEW t \in Tasks, SendWork(t)
  PROVE  AppInv' /\ NothingLeaves
<1> PICK call : call = page.delivery.call
  OBVIOUS
<1>0. /\ SentTyped /\ PageFits(page) /\ DeliveredOnce /\ Alone
      /\ \A u \in Tasks : Underway(txs, lost, device.journal, tasks[u])
  BY DEF AppInv
<1>1. /\ ~Busy("worker") /\ page.delivery # Nothing /\ Journaled(call) = {}
      /\ Start(t, "worker", "checking", {}, {"work"}, Asking(call, Nothing))
      /\ UNCHANGED <<page, device, prompts, txs, lost, node>>
  BY DEF SendWork, walletVars, ledgerVars
<1>2. /\ Rest({t}, {}) /\ tasks[t] = Idle
      /\ tasks'[t] = [kind |-> "worker", at |-> "checking", holds |-> {"work"}, setup |-> page.setup,
                      item |-> Asking(call, Nothing)]
  BY <1>1, Starting
<1>3. DOMAIN Asking(call, Nothing) = {"call", "account", "hash"} /\ Asking(call, Nothing).call = call
  BY DEF Asking
<1>4. TaskTyped(tasks'[t]) /\ Vouched(page', tasks'[t]) /\ Gathered(node', tasks'[t])
  BY <1>0, <1>1, <1>2, <1>3 DEF TaskTyped, Vouched, Gathered, Collectors, PageFits
<1>5. PageKept({})
  BY <1>1 DEF AppInv, PageKept
<1>6. Alone'
  <2>1. \A u \in Tasks : u # t => tasks'[u].kind # "worker"
    BY <1>1, <1>2 DEF Busy, Rest, KeptTask
  <2> QED BY <1>0, <1>2, <2>1 DEF Alone, Rest, KeptTask
<1>7. DeliveredOnce' /\ SentTyped'
  <2>1. ~(tasks[t].kind = "worker" /\ tasks[t].at = "answered")
    BY <1>2, IdleTask
  <2> QED BY <1>0, <1>1, <1>2, <2>1, DeliveredKept DEF SentTyped
<1>8. \A hash \in Deliveries(txs, lost) : txs[hash].call # call
  <2> SUFFICES ASSUME NEW hash \in Deliveries(txs, lost) PROVE txs[hash].call # call
    OBVIOUS
  <2>1. Known(hash) /\ \A u \in Tasks : tasks[u].kind # "worker"
    BY <1>0, <1>1 DEF DeliveredOnce, Deliveries, Busy
  <2> QED BY <1>1, <2>1 DEF Known, Journaled
<1>9. ASSUME NEW u \in Tasks PROVE Underway(txs', lost', device'.journal, tasks'[u])
  <2>1. CASE u = t
    BY <1>1, <1>2, <1>3, <1>8, <2>1 DEF Underway
  <2>2. CASE u # t
    <3>1. KeptTask(tasks[u], tasks'[u], {})
      BY <1>2, <2>2 DEF Rest
    <3> QED BY <1>0, <1>1, <3>1, UnderwayKept
  <2> QED BY <2>1, <2>2
<1>10. DOMAIN device' = DeviceFields /\ ~GivenAway(tasks'[t])
  BY <1>1, <1>2 DEF AppInv, GivenAway
<1> QED BY <1>1, <1>2, <1>4, <1>5, <1>6, <1>7, <1>9, <1>10, Telling

\* Its hash is saved.
LEMMA WorkJournaledKeeps ==
  ASSUME AppInv, NEW t \in Tasks, WorkJournaled(t)
  PROVE  AppInv' /\ NothingLeaves
<1> PICK item : item = tasks[t].item
  OBVIOUS
<1> PICK fresh : fresh = [call |-> item.call, hash |-> item.hash, state |-> "pending"]
  OBVIOUS
<1>0. /\ SentTyped /\ DeliveredOnce /\ Alone /\ DOMAIN device = DeviceFields
      /\ TaskTyped(tasks[t]) /\ Vouched(page, tasks[t])
      /\ \A u \in Tasks : Underway(txs, lost, device.journal, tasks[u])
  BY DEF AppInv
<1>1. /\ tasks[t].kind = "worker" /\ tasks[t].at = "answered" /\ Proceed(t, "receipt", item)
      /\ UNCHANGED <<prompts, txs, lost, node>>
  BY DEF WorkJournaled, At, walletVars, ledgerVars
<1>2. DOMAIN device' = DeviceFields /\ device'.journal = (device.journal \ Journaled(item.call)) \cup {fresh}
  BY <1>0 DEF WorkJournaled, DeviceFields
<1>3. /\ Rest({t}, {}) /\ DOMAIN tasks'[t] = DOMAIN tasks[t]
      /\ tasks'[t].kind = tasks[t].kind /\ tasks'[t].at = "receipt" /\ tasks'[t].setup = tasks[t].setup
      /\ tasks'[t].item = item /\ tasks'[t].holds = tasks[t].holds
  BY <1>1, Proceeding
<1>4. PageKept({})
  BY DEF WorkJournaled, WithoutPrepared, AppInv, PageKept, PageFits, PageFields
<1>5. page'.milestone = page.milestone
  BY <1>4 DEF PageKept
<1>6. TaskTyped(tasks'[t]) /\ Vouched(page', tasks'[t]) /\ Gathered(node', tasks'[t])
  BY <1>0, <1>1, <1>3, <1>5 DEF TaskTyped, Vouched, Gathered, Senders, Collectors
<1>7. Alone'
  <2>1. \A u \in Tasks : tasks'[u].kind = tasks[u].kind /\ tasks'[u].holds \subseteq tasks[u].holds
    BY <1>3 DEF Rest, KeptTask
  <2> QED BY <1>0, <2>1 DEF Alone
<1>8. item.hash \in Deliveries(txs, lost) /\ txs[item.hash].call = item.call
  BY <1>0, <1>1 DEF Underway
<1>9. /\ DOMAIN fresh = {"call", "hash", "state"} /\ fresh.call = item.call
      /\ fresh.hash = item.hash /\ fresh.state = "pending"
  OBVIOUS
<1>10. SentTyped'
  BY <1>0, <1>1, <1>2, <1>8, <1>9 DEF SentTyped
<1>11. DeliveredOnce'
  <2>1. ASSUME NEW hash \in Deliveries(txs, lost) PROVE Known(hash)'
    <3>1. CASE hash = item.hash
      BY <1>1, <1>2, <1>8, <1>9, <3>1 DEF Known
    <3>2. CASE hash # item.hash
      <4>1. Known(hash) /\ txs[hash].call # item.call
        BY <1>0, <1>8, <3>2 DEF DeliveredOnce, Deliveries
      <4>2. \A u \in Tasks : tasks[u].kind = "worker" => u = t
        BY <1>0, <1>1 DEF Alone
      <4>3. PICK entry \in device.journal : entry.hash = hash /\ entry.call = txs[hash].call
        BY <3>2, <4>1, <4>2 DEF Known
      <4>4. entry \in device'.journal
        BY <1>2, <4>1, <4>3 DEF Journaled
      <4> QED BY <1>1, <4>3, <4>4 DEF Known
    <3> QED BY <3>1, <3>2
  <2>2. \A entry \in device'.journal :
           /\ entry.call = txs[entry.hash].call
           /\ entry.state = "confirmed" => txs[entry.hash].outcome = "ok"
           /\ entry.state = "failed" => txs[entry.hash].outcome = "failed"
    BY <1>0, <1>2, <1>8, <1>9 DEF DeliveredOnce
  <2> QED BY <1>0, <1>1, <2>1, <2>2 DEF DeliveredOnce, Deliveries
<1>12. ASSUME NEW u \in Tasks PROVE Underway(txs', lost', device'.journal, tasks'[u])
  <2>1. CASE u = t
    BY <1>1, <1>3, <1>8, <2>1 DEF Underway
  <2>2. CASE u # t
    <3>1. KeptTask(tasks[u], tasks'[u], {}) /\ tasks[u].kind # "worker"
      BY <1>0, <1>1, <1>3, <2>2 DEF Rest, Alone
    <3> QED BY <1>0, <1>1, <3>1 DEF Underway, KeptTask
  <2> QED BY <2>1, <2>2
<1>13. ~GivenAway(tasks'[t])
  BY <1>3 DEF GivenAway
<1> QED BY <1>1, <1>2, <1>3, <1>4, <1>6, <1>7, <1>10, <1>11, <1>12, <1>13, Telling

\* The journal learns the outcome of a delivery: no other entry has its call.
LEMMA UpdatingKeeps ==
  ASSUME AppInv, NEW t \in Tasks, Finish(t, {}), tasks[t].at = "receipt", UNCHANGED <<page, prompts, txs, lost, node>>,
         NEW hash \in Deliveries(txs, lost), NEW call, txs[hash].call = call,
         device' = [device EXCEPT !.journal = Updated(call, hash)]
  PROVE  AppInv' /\ NothingLeaves
<1>0. /\ SentTyped /\ DeliveredOnce /\ Alone /\ DOMAIN device = DeviceFields
      /\ \A u \in Tasks : Underway(txs, lost, device.journal, tasks[u])
  BY DEF AppInv
<1>1. DOMAIN device' = DeviceFields /\ device'.journal = Updated(call, hash)
  BY <1>0 DEF DeviceFields
<1>2. Rest({t}, {}) /\ tasks'[t] = Idle
  BY Ending
<1> DEFINE outcome == IF txs[hash].outcome = "ok" THEN "confirmed" ELSE "failed"
           settled(entry) == IF entry.call = call THEN [entry EXCEPT !.state = outcome] ELSE entry
<1>3. ASSUME NEW entry \in device.journal
      PROVE  /\ DOMAIN settled(entry) = {"call", "hash", "state"}
             /\ settled(entry).call = entry.call /\ settled(entry).hash = entry.hash
             /\ settled(entry).state = IF entry.call = call THEN outcome ELSE entry.state
             /\ entry.hash \in Deliveries(txs, lost) /\ entry.call = txs[entry.hash].call
             /\ entry.call = call => entry.hash = hash
  <2>1. /\ DOMAIN entry = {"call", "hash", "state"} /\ entry.hash \in Deliveries(txs, lost)
        /\ entry.call = txs[entry.hash].call
    BY <1>0 DEF SentTyped, DeliveredOnce
  <2>2. entry.call = call => entry.hash = hash
    BY <1>0, <2>1 DEF DeliveredOnce, Deliveries
  <2> QED BY <2>1, <2>2
<1>4. Updated(call, hash) = IF txs[hash].outcome = "waiting" THEN device.journal
                            ELSE {settled(entry) : entry \in device.journal}
  BY DEF Updated
<1> HIDE DEF settled
<1>5. ASSUME NEW new \in device'.journal
      PROVE  \E entry \in device.journal :
                /\ DOMAIN new = {"call", "hash", "state"}
                /\ new.call = entry.call /\ new.hash = entry.hash
                /\ \/ new.state = entry.state
                   \/ entry.hash = hash /\ txs[hash].outcome # "waiting" /\ new.state = outcome
  <2>1. CASE txs[hash].outcome = "waiting"
    BY <1>0, <1>1, <1>4, <2>1 DEF SentTyped
  <2>2. CASE txs[hash].outcome # "waiting"
    <3>1. PICK entry \in device.journal : new = settled(entry)
      BY <1>1, <1>4, <2>2
    <3> QED BY <1>3, <2>2, <3>1
  <2> QED BY <2>1, <2>2
<1>6. \A entry \in device.journal :
         \E new \in device'.journal : new.call = entry.call /\ new.hash = entry.hash
  BY <1>1, <1>3, <1>4
<1>7. SentTyped'
  BY <1>0, <1>5 DEF SentTyped
<1>8. DeliveredOnce'
  <2>1. ASSUME NEW h \in Deliveries(txs, lost) PROVE Known(h)'
    <3>1. Known(h)
      BY <1>0 DEF DeliveredOnce, Deliveries
    <3> QED BY <1>2, <1>6, <3>1 DEF Known, Rest, KeptTask
  <2>2. txs[hash].outcome \in {"waiting", "ok", "failed"}
    BY <1>0 DEF SentTyped, TxTyped, Deliveries, Range
  <2>3. ASSUME NEW new \in device'.journal
        PROVE  /\ new.call = txs[new.hash].call
               /\ new.state = "confirmed" => txs[new.hash].outcome = "ok"
               /\ new.state = "failed" => txs[new.hash].outcome = "failed"
    <3>1. PICK entry \in device.journal :
             /\ new.call = entry.call /\ new.hash = entry.hash
             /\ \/ new.state = entry.state
                \/ entry.hash = hash /\ txs[hash].outcome # "waiting" /\ new.state = outcome
      BY <1>5
    <3>2. /\ entry.call = txs[entry.hash].call
          /\ entry.state = "confirmed" => txs[entry.hash].outcome = "ok"
          /\ entry.state = "failed" => txs[entry.hash].outcome = "failed"
      BY <1>0 DEF DeliveredOnce
    <3> QED BY <2>2, <3>1, <3>2
  <2> QED BY <1>0, <2>1, <2>3 DEF DeliveredOnce, Deliveries
<1>9. ASSUME NEW u \in Tasks PROVE Underway(txs', lost', device'.journal, tasks'[u])
  <2>1. CASE u = t
    BY <1>2, <2>1, IdleTask DEF Underway
  <2>2. CASE u # t
    <3>1. KeptTask(tasks[u], tasks'[u], {}) /\ Underway(txs, lost, device.journal, tasks[u])
      BY <1>0, <1>2, <2>2 DEF Rest
    <3> QED BY <1>5, <3>1 DEF Underway, KeptTask
  <2> QED BY <2>1, <2>2
<1>10. PageKept({}) /\ Alone'
  <2>1. Alone'
    BY <1>0, <1>2, IdleTask, AloneKept
  <2> QED BY <2>1 DEF AppInv, PageKept
<1> QED BY <1>1, <1>2, <1>7, <1>8, <1>9, <1>10, IdleTask, Telling DEF GivenAway

LEMMA DeliveringKeeps ==
  ASSUME AppInv, Delivering
  PROVE  Keeps
<1>1. CASE \E content \in Contents : TypeDelivery(content)
  <2>1. PICK content \in Contents : TypeDelivery(content)
    BY <1>1
  <2>2. PageKept(PreparedMarks)
    BY <2>1 DEF TypeDelivery, WithoutPrepared, PreparedMarks, AppInv, PageKept, PageFits, PageFields
  <2>3. Aside
    BY <2>1 DEF TypeDelivery, AppInv, Aside, walletVars, ledgerVars
  <2> QED BY <2>1, <2>2, <2>3, RaiseStep, SilentKeeps DEF TypeDelivery
<1>2. CASE PrepareWork
  <2>1. PageKept(PreparedMarks)
    BY <1>2 DEF PrepareWork, PrepareDelivery, DeliverCall, PreparedMarks, AppInv, PageKept, PageFits, PageFields
  <2>2. Aside
    BY <1>2 DEF PrepareWork, AppInv, Aside, walletVars, ledgerVars
  <2> QED BY <1>2, <2>1, <2>2, RaiseStep, SilentKeeps DEF PrepareWork
<1>3. CASE \E t \in Tasks : CheckJob(t)
  <2>1. PICK t \in Tasks : CheckJob(t)
    BY <1>3
  <2> DEFINE item == [packet |-> page.packet, milestone |-> page.milestone]
  <2>2. Start(t, "read", "reading", {"work"}, {"work"}, item) /\ page' = page
    BY <2>1 DEF CheckJob
  <2>3. PageKept({"work"}) /\ Aside
    BY <2>1 DEF CheckJob, AppInv, Aside, walletVars, ledgerVars, PageKept
  <2>4. tasks'[t].kind = "read" /\ tasks'[t].item.milestone = page.milestone
    BY <2>2 DEF Start, Raised, AppInv
  <2>5. Vouched(page', tasks'[t]) /\ Gathered(node', tasks'[t])
    BY <2>2, <2>4 DEF Vouched, Gathered, Collectors
  <2> HIDE DEF item
  <2> QED BY <2>2, <2>3, <2>5, StartStep, SilentKeeps DEF Senders
<1>4. CASE \E t \in Tasks : JobRead(t)
  <2>1. PICK t \in Tasks : JobRead(t)
    BY <1>4
  <2>2. tasks[t].item.milestone = page.milestone
    BY <2>1 DEF JobRead, At, Fresh, AppInv, Vouched
  <2>3. PageKept({})
    BY <2>1, <2>2 DEF JobRead, ReadWork, AppInv, PageKept, PageFits, PageFields
  <2>4. Aside
    BY <2>1 DEF JobRead, AppInv, Aside, walletVars, ledgerVars, DeviceFields
  <2>5. Finish(t, {}) /\ tasks[t].kind # "worker"
    BY <2>1 DEF JobRead, At
  <2> QED BY <2>3, <2>4, <2>5, FinishStep, SilentKeeps
<1>5. CASE \E t \in Tasks : SendWork(t)
  BY <1>5, SendWorkKeeps, SilentKeeps
<1>6. CASE \E t \in Tasks : WorkSession(t)
  <2>1. PICK t \in Tasks : WorkSession(t)
    BY <1>6
  <2> QED BY <2>1, SessionStep, SilentKeeps DEF WorkSession, At, Senders, walletVars, ledgerVars
<1>7. CASE \E t \in Tasks : WorkAsk(t)
  BY <1>7, WorkAskKeeps
<1>8. CASE \E t \in Tasks : WorkJournaled(t)
  BY <1>8, WorkJournaledKeeps, SilentKeeps
<1>9. CASE \E t \in Tasks : WorkReceipt(t)
  <2>1. PICK t \in Tasks : WorkReceipt(t)
    BY <1>9
  <2> PICK hash, call : hash = tasks[t].item.hash /\ call = tasks[t].item.call
    OBVIOUS
  <2>2. /\ tasks[t].kind = "worker" /\ tasks[t].at = "receipt" /\ Finish(t, {})
        /\ device' = [device EXCEPT !.journal = Updated(call, hash)]
        /\ UNCHANGED <<page, prompts, txs, lost, node>>
    BY <2>1 DEF WorkReceipt, At, walletVars, ledgerVars
  <2>3. hash \in Deliveries(txs, lost) /\ txs[hash].call = call
    BY <2>2 DEF AppInv, Underway
  <2> QED BY <2>2, <2>3, UpdatingKeeps, SilentKeeps
<1>10. CASE \E t \in Tasks : \E entry \in device.journal : Recheck(t, entry)
  <2>1. PICK t \in Tasks, entry \in device.journal : Recheck(t, entry)
    BY <1>10
  <2> DEFINE item == [Asking(entry.call, Nothing) EXCEPT !.hash = entry.hash]
  <2>2. Start(t, "recheck", "receipt", {}, {}, item)
    BY <2>1 DEF Recheck
  <2>3. PageKept({}) /\ Aside
    BY <2>1 DEF Recheck, AppInv, Aside, walletVars, ledgerVars, PageKept
  <2> HIDE DEF item
  <2> QED BY <2>2, <2>3, PlainStart, SilentKeeps DEF PlainKinds, Senders
<1>11. CASE \E t \in Tasks : Rechecked(t)
  <2>1. PICK t \in Tasks : Rechecked(t)
    BY <1>11
  <2> PICK hash, call : hash = tasks[t].item.hash /\ call = tasks[t].item.call
    OBVIOUS
  <2>2. /\ tasks[t].at = "receipt" /\ Finish(t, {})
        /\ device' = [device EXCEPT !.journal = Updated(call, hash)]
        /\ UNCHANGED <<page, prompts, txs, lost, node>>
    BY <2>1 DEF Rechecked, At, walletVars, ledgerVars
  <2>3. PICK entry \in device.journal : entry.call = call /\ entry.hash = hash
    BY <2>1 DEF Rechecked, Journaled
  <2>4. hash \in Deliveries(txs, lost) /\ txs[hash].call = call
    BY <2>3 DEF AppInv, SentTyped, DeliveredOnce
  <2> QED BY <2>2, <2>4, UpdatingKeeps, SilentKeeps
<1> QED BY <1>1, <1>2, <1>3, <1>4, <1>5, <1>6, <1>7, <1>8, <1>9, <1>10, <1>11 DEF Delivering

-----------------------------------------------------------------------------
(* The page is reloaded: no task is left, and the hashes on their way are lost *)

LEMMA BootedFits ==
  ASSUME NEW stored
  PROVE  PageFits(Booted(stored)) /\ Booted(stored).report = NoReport /\ Booted(stored).history = NoReport
BY DEF Booted, PageFits, PageFields

LEMMA ReloadKeeps ==
  ASSUME AppInv, Reload
  PROVE  AppInv' /\ NothingLeaves
<1>0. /\ SentTyped /\ DeliveredOnce /\ NodeTyped /\ DOMAIN device = DeviceFields
      /\ \A u \in Tasks : TaskTyped(tasks[u]) /\ Underway(txs, lost, device.journal, tasks[u])
  BY DEF AppInv
<1>1. /\ page' = Booted(device) /\ tasks' = [u \in Tasks |-> Idle]
      /\ lost' = lost \cup {tasks[u].item.hash : u \in Answered}
      /\ UNCHANGED <<device, txs, node>>
  BY DEF Reload, ledgerVars
<1>2. ASSUME NEW u \in Tasks
      PROVE  /\ TaskTyped(tasks'[u]) /\ Vouched(page', tasks'[u]) /\ Gathered(node', tasks'[u])
             /\ Underway(txs', lost', device'.journal, tasks'[u]) /\ ~Leaves(u)
             /\ tasks'[u].kind = "idle"
  BY <1>1, IdleTask DEF Underway, Leaves, GivenAway
<1>3. ASSUME NEW u \in Answered
      PROVE  /\ tasks[u].item.hash \in DOMAIN txs
             /\ \A entry \in device.journal : entry.hash # tasks[u].item.hash
  <2>1. u \in Tasks /\ tasks[u].at = "answered"
    BY DEF Answered
  <2>2. Underway(txs, lost, device.journal, tasks[u])
    BY <1>0, <2>1
  <2>3. tasks[u].item.hash \in DOMAIN txs /\ txs[tasks[u].item.hash].via = tasks[u].kind
    BY <2>1, <2>2 DEF Underway
  <2>4. CASE tasks[u].kind = "worker"
    BY <2>1, <2>2, <2>3, <2>4 DEF Underway
  <2>5. CASE tasks[u].kind # "worker"
    BY <1>0, <2>3, <2>5 DEF SentTyped, Deliveries
  <2> QED BY <2>3, <2>4, <2>5
<1>4. SentTyped'
  <2>1. lost' \subseteq DOMAIN txs
    BY <1>0, <1>1, <1>3 DEF SentTyped
  <2>2. \A entry \in device.journal :
           DOMAIN entry = {"call", "hash", "state"} /\ entry.hash \in Deliveries(txs, lost')
    BY <1>0, <1>1, <1>3 DEF SentTyped, Deliveries
  <2>3. \A tx \in prompts' : TxTyped(tx)
    BY <1>0 DEF Reload, SentTyped, TxTyped
  <2> QED BY <1>0, <1>1, <2>1, <2>2, <2>3 DEF SentTyped
<1>5. DeliveredOnce'
  <2>1. ASSUME NEW hash \in Deliveries(txs, lost') PROVE Known(hash)'
    <3>1. hash \in Deliveries(txs, lost) /\ \A u \in Answered : tasks[u].item.hash # hash
      BY <1>1 DEF Deliveries
    <3>2. Known(hash)
      BY <1>0, <3>1 DEF DeliveredOnce, Deliveries
    <3> QED BY <1>1, <3>1, <3>2 DEF Known, Answered
  <2>2. Deliveries(txs, lost') \subseteq Deliveries(txs, lost)
    BY <1>1 DEF Deliveries
  <2> QED BY <1>0, <1>1, <2>1, <2>2 DEF DeliveredOnce, Deliveries
<1>6. ReportsAreFaithful'
  BY <1>1, BootedFits, FaithfulHalves, NoReportIsFaithful
<1>7. PageFits(page') /\ NodeTyped' /\ DOMAIN tasks' = Tasks /\ DOMAIN device' = DeviceFields
  BY <1>0, <1>1, BootedFits DEF NodeTyped
<1>8. Alone'
  BY <1>2 DEF Alone
<1> QED BY <1>2, <1>4, <1>5, <1>6, <1>7, <1>8 DEF AppInv, NothingLeaves

-----------------------------------------------------------------------------
(* A collection *)

LEMMA HistoryShape ==
  ASSUME NEW history \in {SourceHistory, TargetHistory}, NEW final,
         final \in [fork : {"a", "b"}, height : 0 .. Len(history["a"])]
  PROVE  /\ Pinned(history, final, Pin(history, final))
         /\ history["a"] \in Seq(Range(history["a"])) /\ history["b"] \in Seq(Range(history["b"]))
         /\ Len(history["a"]) = Len(history["b"]) /\ Len(history["a"]) \in Nat
<1>1. /\ history["a"] \in Seq(Range(history["a"])) /\ history["b"] \in Seq(Range(history["b"]))
      /\ Len(history["a"]) = Len(history["b"])
  BY HistoriesAssumption
<1>2. Len(history["a"]) \in Nat
  BY <1>1
<1>3. /\ final.fork \in {"a", "b"} /\ final.height \in 0 .. Len(history[final.fork])
      /\ history[final.fork] \in Seq(Range(history["a"]) \cup Range(history["b"]))
  BY <1>1
<1>4. /\ Pin(history, final) \in Seq(Range(history["a"]) \cup Range(history["b"]))
      /\ Len(Pin(history, final)) = final.height
  BY <1>3 DEF Pin, View
<1>5. final.fork = "a" => SubSeq(history["a"], 1, Len(Pin(history, final))) = Pin(history, final)
  BY <1>4 DEF Pin, View
<1> QED BY <1>1, <1>2, <1>4, <1>5 DEF Pinned

\* One leg of a collection goes on.
LEMMA LegStep ==
  ASSUME AppInv, NEW t \in Tasks, NEW epoch, NEW leg, Collectible(t, epoch), Legs(t, epoch, leg),
         LegFits(node, epoch, leg), UNCHANGED <<page, device, prompts, txs, lost, node>>
  PROVE  AppInv' /\ NothingLeaves
<1> PICK item : item = [tasks[t].item EXCEPT !.legs[epoch] = leg]
  OBVIOUS
<1>0. TaskTyped(tasks[t]) /\ Gathered(node, tasks[t])
  BY DEF AppInv
<1>1. Proceed(t, "collecting", item) /\ tasks[t].kind \in Collectors /\ epoch \in tasks[t].item.epochs
  BY DEF Legs, Collectible, Collects, Collectors
<1>2. /\ Rest({t}, {}) /\ DOMAIN tasks'[t] = DOMAIN tasks[t]
      /\ tasks'[t].kind = tasks[t].kind /\ tasks'[t].at = "collecting" /\ tasks'[t].setup = tasks[t].setup
      /\ tasks'[t].item = item /\ tasks'[t].holds = tasks[t].holds
  BY <1>1, Proceeding
<1>3. /\ DOMAIN tasks[t].item = {"epochs", "legs", "order"}
      /\ DOMAIN tasks[t].item.legs = tasks[t].item.epochs
      /\ \A e \in tasks[t].item.epochs : LegFits(node, e, tasks[t].item.legs[e])
  BY <1>0, <1>1 DEF Gathered
<1>4. /\ DOMAIN item = {"epochs", "legs", "order"} /\ item.epochs = tasks[t].item.epochs
      /\ item.legs = [tasks[t].item.legs EXCEPT ![epoch] = leg]
  BY <1>3
<1>5. DOMAIN item.legs = item.epochs /\ \A e \in item.epochs : LegFits(node, e, item.legs[e])
  BY <1>1, <1>3, <1>4
<1>6. Gathered(node', tasks'[t])
  BY <1>2, <1>4, <1>5 DEF Gathered
<1>7. TaskTyped(tasks'[t]) /\ Calm(tasks[t], tasks'[t]) /\ Vouched(page', tasks'[t]) /\ tasks'[t].kind # "plan"
  BY <1>0, <1>1, <1>2 DEF TaskTyped, Calm, Vouched, Senders, Collectors
<1>8. PageKept({}) /\ Aside
  BY DEF AppInv, PageKept, Aside
<1> QED BY <1>2, <1>6, <1>7, <1>8, Ordinary

LEMMA CollectingKeeps ==
  ASSUME AppInv, NEW t \in Tasks, NEW epoch,
         \/ PinSource(t, epoch) \/ PinTarget(t, epoch) \/ ReadSource(t, epoch) \/ PinsHold(t, epoch)
         \/ \E unread, gaps : ReadTarget(t, epoch, unread, gaps)
  PROVE  AppInv' /\ NothingLeaves
<1> PICK leg : leg = Leg(t, epoch)
  OBVIOUS
<1>0. /\ Collectible(t, epoch) /\ NodeTyped
      /\ UNCHANGED <<page, device, prompts, txs, lost, node>>
  BY DEF PinSource, PinTarget, ReadSource, PinsHold, ReadTarget, AppInv, walletVars, ledgerVars
<1>1. LegFits(node, epoch, leg)
  BY <1>0 DEF AppInv, Gathered, Collectible, Collects, Collectors, Leg
<1>2. CASE PinSource(t, epoch)
  <2>1. Legs(t, epoch, [leg EXCEPT !.source = Pin(SourceHistory, node.source)]) /\ leg.source = Nothing
    BY <1>2 DEF PinSource
  <2>2. Pinned(SourceHistory, node.source, Pin(SourceHistory, node.source))
    BY <1>0, HistoryShape DEF NodeTyped
  <2>3. LegFits(node, epoch, [leg EXCEPT !.source = Pin(SourceHistory, node.source)])
    BY <1>1, <2>1, <2>2 DEF LegFits
  <2> QED BY <1>0, <2>1, <2>3, LegStep
<1>3. CASE PinTarget(t, epoch)
  <2>1. Legs(t, epoch, [leg EXCEPT !.target = Pin(TargetHistory, node.target)]) /\ leg.target = Nothing
    BY <1>3 DEF PinTarget
  <2>2. Pinned(TargetHistory, node.target, Pin(TargetHistory, node.target))
    BY <1>0, HistoryShape DEF NodeTyped
  <2>3. LegFits(node, epoch, [leg EXCEPT !.target = Pin(TargetHistory, node.target)])
    BY <1>1, <2>1, <2>2 DEF LegFits
  <2> QED BY <1>0, <2>1, <2>3, LegStep
<1>4. CASE ReadSource(t, epoch)
  <2> PICK rows : rows = SourceRows(AtNumber(SourceHistory, node.source, leg.source), epoch)
    OBVIOUS
  <2>1. /\ Legs(t, epoch, [leg EXCEPT !.rows = rows]) /\ leg.rows = Nothing
        /\ leg.source # Nothing /\ leg.target # Nothing
    BY <1>4 DEF ReadSource
  <2>2. SourceRead(node.source, leg.source, epoch, rows)
    <3>1. Pinned(SourceHistory, node.source, leg.source) /\ node.source.fork \in {"a", "b"}
      BY <1>0, <1>1, <2>1 DEF LegFits, NodeTyped
    <3> QED BY <3>1 DEF SourceRead, Pinned, AtNumber
  <2>3. LegFits(node, epoch, [leg EXCEPT !.rows = rows])
    BY <1>1, <2>1, <2>2 DEF LegFits
  <2> QED BY <1>0, <2>1, <2>3, LegStep
<1>5. CASE \E unread, gaps : ReadTarget(t, epoch, unread, gaps)
  <2>1. PICK unread, gaps : ReadTarget(t, epoch, unread, gaps)
    BY <1>5
  <2> PICK rows : rows = TargetRows(AtNumber(TargetHistory, node.target, leg.target), epoch)
    OBVIOUS
  <2> PICK observed : observed = [source |-> leg.rows, target |-> rows, unread |-> unread, gaps |-> gaps]
    OBVIOUS
  <2>2. /\ Legs(t, epoch, [leg EXCEPT !.observed = observed])
        /\ leg.rows # Nothing /\ leg.observed = Nothing
    BY <2>1 DEF ReadTarget
  <2>3. TargetRead(node.target, leg.target, epoch, rows)
    <3>1. Pinned(TargetHistory, node.target, leg.target) /\ node.target.fork \in {"a", "b"}
      BY <1>0, <1>1, <2>2 DEF LegFits, NodeTyped
    <3> QED BY <3>1 DEF TargetRead, Pinned, AtNumber
  <2>4. observed.source = leg.rows /\ observed.target = rows
    OBVIOUS
  <2>5. LegFits(node, epoch, [leg EXCEPT !.observed = observed])
    BY <1>1, <2>2, <2>3, <2>4 DEF LegFits
  <2> QED BY <1>0, <2>2, <2>5, LegStep
<1>6. CASE PinsHold(t, epoch)
  <2>1. /\ Legs(t, epoch, [leg EXCEPT !.done = TRUE]) /\ leg.observed # Nothing
        /\ AtNumber(SourceHistory, node.source, leg.source) = leg.source
        /\ AtNumber(TargetHistory, node.target, leg.target) = leg.target
    BY <1>6 DEF PinsHold, Stable
  <2>2. /\ leg.observed.source = SourceRows(leg.source, epoch)
        /\ leg.observed.target = TargetRows(leg.target, epoch)
    BY <1>1, <2>1 DEF LegFits, SourceRead, TargetRead
  <2>3. LegFits(node, epoch, [leg EXCEPT !.done = TRUE])
    BY <1>1, <2>1, <2>2 DEF LegFits
  <2> QED BY <1>0, <2>1, <2>3, LegStep
<1> QED BY <1>2, <1>3, <1>4, <1>5, <1>6

\* The chains go on, or fork once.
LEMMA NodeStep ==
  ASSUME AppInv, NodeTyped', UNCHANGED <<page, device, tasks, prompts, txs, lost>>,
         \A chain \in {"source", "target"} :
            \/ node'[chain].fork = node[chain].fork
            \/ node[chain].fork = "a" /\ node'[chain].fork = "b"
  PROVE  AppInv' /\ NothingLeaves
<1>1. ASSUME NEW epoch, NEW leg, LegFits(node, epoch, leg)
      PROVE  LegFits(node', epoch, leg)
  <2>1. \A history, pin : /\ Pinned(history, node.source, pin) => Pinned(history, node'.source, pin)
                          /\ Pinned(history, node.target, pin) => Pinned(history, node'.target, pin)
    BY DEF Pinned
  <2>2. \A pin, rows :
           /\ SourceRead(node.source, pin, epoch, rows) => SourceRead(node'.source, pin, epoch, rows)
           /\ TargetRead(node.target, pin, epoch, rows) => TargetRead(node'.target, pin, epoch, rows)
    BY DEF SourceRead, TargetRead, AtNumber
  <2> QED BY <1>1, <2>1, <2>2 DEF LegFits
<1>2. \A task : Gathered(node, task) => Gathered(node', task)
  BY <1>1 DEF Gathered
<1>3. ReportsAreFaithful' /\ Alone' /\ DeliveredOnce' /\ SentTyped'
  <2>1. Rest({}, {})
    BY Staying
  <2> QED BY <2>1, ReportsKept, DeliveredKept, AloneKept DEF AppInv, SentTyped
<1> QED BY <1>2, <1>3 DEF AppInv, NothingLeaves, Leaves, GivenAway

-----------------------------------------------------------------------------
(* The verdicts *)

LEMMA SourceEvents ==
  ASSUME NEW final, NEW pin, Pinned(SourceHistory, final, pin), NEW e \in Range(pin)
  PROVE  e = Closed(e.epoch) \/ e = Allocated(e.epoch, e.id, e.kind)
<1>1. e \in Range(SourceHistory["a"]) \cup Range(SourceHistory["b"])
  BY DEF Pinned, Range
<1> QED BY <1>1, HistoriesAssumption

LEMMA TargetEvents ==
  ASSUME NEW final, NEW pin, Pinned(TargetHistory, final, pin), NEW e \in Range(pin)
  PROVE  e = Withdrawn(e.epoch, e.id) \/ e = Recognized(e.epoch, e.id, e.kind)
<1>1. e \in Range(TargetHistory["a"]) \cup Range(TargetHistory["b"])
  BY DEF Pinned, Range
<1> QED BY <1>1, HistoriesAssumption

\* The two pins of a collection that is done, and what was observed of them.
Observing(epoch, pins, observed) ==
    /\ Pinned(SourceHistory, node.source, pins.source) /\ Pinned(TargetHistory, node.target, pins.target)
    /\ observed.source = SourceRows(pins.source, epoch)
    /\ observed.target = TargetRows(pins.target, epoch)

\* What was observed of an allocation is an event of the pinned block.
LEMMA Observations ==
  ASSUME NEW epoch, NEW pins, NEW observed, Observing(epoch, pins, observed)
  PROVE  /\ \A a \in observed.source.allocations :
               \E e \in Rows(pins.source, epoch, "allocated") :
                  a = AllocationOf(e) /\ e = Allocated(epoch, a.id, a.kind)
         /\ \A e \in Rows(pins.source, epoch, "allocated") :
               AllocationOf(e) \in observed.source.allocations /\ e = Allocated(epoch, e.id, e.kind)
         /\ \A a \in observed.target.recognized : Recognized(epoch, a.id, a.kind) \in Range(pins.target)
         /\ \A id \in observed.target.withdrawn : Withdrawn(epoch, id) \in Range(pins.target)
<1>1. /\ observed.source.allocations = {AllocationOf(e) : e \in Rows(pins.source, epoch, "allocated")}
      /\ observed.target.recognized = {AllocationOf(e) : e \in Rows(pins.target, epoch, "recognized")}
      /\ observed.target.withdrawn = {e.id : e \in Rows(pins.target, epoch, "withdrawn")}
  BY DEF Observing, SourceRows, TargetRows
<1>2. ASSUME NEW e \in Rows(pins.source, epoch, "allocated")
      PROVE  e = Allocated(epoch, e.id, e.kind) /\ AllocationOf(e).id = e.id /\ AllocationOf(e).kind = e.kind
  BY SourceEvents DEF Rows, Observing, Closed, Allocated, AllocationOf
<1>3. ASSUME NEW e \in Rows(pins.target, epoch, "recognized")
      PROVE  /\ e = Recognized(epoch, e.id, e.kind) /\ e \in Range(pins.target)
             /\ AllocationOf(e).id = e.id /\ AllocationOf(e).kind = e.kind
  BY TargetEvents DEF Rows, Observing, Withdrawn, Recognized, AllocationOf
<1>4. ASSUME NEW e \in Rows(pins.target, epoch, "withdrawn")
      PROVE  e = Withdrawn(epoch, e.id) /\ e \in Range(pins.target)
  BY TargetEvents DEF Rows, Observing, Withdrawn, Recognized
<1>5. ASSUME NEW a \in observed.source.allocations
      PROVE  \E e \in Rows(pins.source, epoch, "allocated") :
                a = AllocationOf(e) /\ e = Allocated(epoch, a.id, a.kind)
  BY <1>1, <1>2
<1>6. ASSUME NEW a \in observed.target.recognized
      PROVE  Recognized(epoch, a.id, a.kind) \in Range(pins.target)
  <2>1. PICK e \in Rows(pins.target, epoch, "recognized") : a = AllocationOf(e)
    BY <1>1
  <2> QED BY <1>3, <2>1
<1>7. ASSUME NEW id \in observed.target.withdrawn
      PROVE  Withdrawn(epoch, id) \in Range(pins.target)
  BY <1>1, <1>4
<1> QED BY <1>1, <1>2, <1>5, <1>6, <1>7

\* A row of work or fees that was seen recognized and withdrawn is paid in the pinned block.
LEMMA PaidIsPaid ==
  ASSUME NEW epoch, NEW pins, NEW observed, Observing(epoch, pins, observed),
         NEW a \in Claims(observed), a \in Seen(observed), a.id \in observed.target.withdrawn
  PROVE  /\ Allocated(epoch, a.id, a.kind) \in WorkRows(pins, epoch)
         /\ PaidIn(pins, Allocated(epoch, a.id, a.kind))
<1> PICK e : e = Allocated(epoch, a.id, a.kind)
  OBVIOUS
<1>1. e.event = "allocated" /\ e.epoch = epoch /\ e.id = a.id /\ e.kind = a.kind
  BY DEF Allocated
<1>2. a \in observed.source.allocations /\ a.kind # "RETURN" /\ a \in observed.target.recognized
  BY DEF Claims, Seen
<1>3. e \in Range(pins.source)
  BY <1>2, Observations DEF Rows
<1>4. Recognized(epoch, a.id, a.kind) \in Range(pins.target) /\ Withdrawn(epoch, a.id) \in Range(pins.target)
  BY <1>2, Observations
<1> QED BY <1>1, <1>2, <1>3, <1>4 DEF WorkRows, PaidIn

LEMMA CompleteIsComplete ==
  ASSUME NEW epoch, NEW pins, NEW observed, Observing(epoch, pins, observed),
         EvidenceStatus(observed) = "complete"
  PROVE  CompleteAt(epoch, pins)
<1>1. ~Contradictory(observed) /\ Settled(observed)
  BY DEF EvidenceStatus, Accounting
<1>2. Closed(epoch) \in Range(pins.source)
  <2>1. Rows(pins.source, epoch, "closed") # {}
    <3>1. SourceRows(pins.source, epoch).closed
      BY <1>1, Zenon DEF Settled, Observing
    <3> QED BY <3>1, Zenon DEF SourceRows
  <2>2. PICK e \in Range(pins.source) : e.event = "closed" /\ e.epoch = epoch
    BY <2>1 DEF Rows
  <2>3. e = Closed(epoch)
    BY <2>2, SourceEvents DEF Observing, Closed, Allocated
  <2> QED BY <2>2, <2>3
<1>3. ASSUME NEW e \in WorkRows(pins, epoch) PROVE PaidIn(pins, e)
  <2>1. e \in Rows(pins.source, epoch, "allocated") /\ e.kind # "RETURN"
    BY DEF WorkRows, Rows
  <2> PICK a : a = AllocationOf(e)
    OBVIOUS
  <2>2. a \in observed.source.allocations /\ e = Allocated(epoch, e.id, e.kind)
    BY <2>1, Observations
  <2>3. a.id = e.id /\ a.kind = e.kind
    BY DEF AllocationOf
  <2>4. a \in Claims(observed) /\ a \in Seen(observed) /\ a.id \in observed.target.withdrawn
    BY <1>1, <2>1, <2>2, <2>3 DEF Claims, Settled
  <2> QED BY <2>2, <2>3, <2>4, PaidIsPaid
<1>4. observed.target.recognized = observed.source.allocations
  BY <1>1 DEF Contradictory, Settled, Seen
<1> QED BY <1>2, <1>3, <1>4 DEF CompleteAt, Observing, SourceRows, TargetRows

LEMMA HistoryIsFaithful ==
  ASSUME NEW epochs, NEW observed, NEW pins, DOMAIN pins = epochs,
         \A e \in epochs : Observing(e, pins[e], observed[e]),
         NEW history, history.pins = pins,
         history.status = PaymentHistory(epochs, observed).status,
         history.records = PaymentHistory(epochs, observed).records
  PROVE  HistoryFaithful(history)
<1>1. CASE \E e \in epochs : Contradictory(observed[e])
  BY <1>1 DEF PaymentHistory, HistoryFaithful
<1>2. CASE ~(\E e \in epochs : Contradictory(observed[e]))
  <2>1. /\ history.records = PaymentRecords(epochs, observed)
        /\ history.status \in {"partial", "verified"}
        /\ history.status = "verified" => \A e \in epochs : Claims(observed[e]) = Paid(observed[e])
    BY <1>2 DEF PaymentHistory
  <2>2. ASSUME NEW record \in history.records
        PROVE  RecordedAt(record, history.pins[record.epoch])
    <3>1. PICK epoch \in epochs : \E a \in Paid(observed[epoch]) :
             record = [epoch |-> epoch, id |-> a.id, kind |-> a.kind]
      BY <2>1 DEF PaymentRecords
    <3>2. PICK a \in Paid(observed[epoch]) : record = [epoch |-> epoch, id |-> a.id, kind |-> a.kind]
      BY <3>1
    <3>3. record.epoch = epoch /\ record.id = a.id /\ record.kind = a.kind
      BY <3>2
    <3>4. a \in Claims(observed[epoch]) /\ a \in Seen(observed[epoch]) /\ a.id \in observed[epoch].target.withdrawn
      BY DEF Paid
    <3> QED BY <3>3, <3>4, PaidIsPaid DEF RecordedAt
  <2>3. ASSUME history.status = "verified", NEW epoch \in epochs, NEW e \in WorkRows(pins[epoch], epoch)
        PROVE  [epoch |-> epoch, id |-> e.id, kind |-> e.kind] \in history.records
    <3>1. e \in Rows(pins[epoch].source, epoch, "allocated") /\ e.kind # "RETURN"
      BY DEF WorkRows, Rows
    <3>2. AllocationOf(e) \in observed[epoch].source.allocations
      BY <3>1, Observations
    <3>3. AllocationOf(e).id = e.id /\ AllocationOf(e).kind = e.kind
      BY DEF AllocationOf
    <3>4. AllocationOf(e) \in Paid(observed[epoch])
      BY <2>1, <2>3, <3>1, <3>2, <3>3 DEF Claims
    <3>5. [epoch |-> epoch, id |-> AllocationOf(e).id, kind |-> AllocationOf(e).kind]
              \in PaymentRecords(epochs, observed)
      BY <3>4 DEF PaymentRecords
    <3> QED BY <2>1, <3>3, <3>5
  <2> QED BY <2>1, <2>2, <2>3 DEF HistoryFaithful
<1> QED BY <1>1, <1>2

-----------------------------------------------------------------------------
(* Reports, payment records and settlement plans *)

\* A task ends with a result that the page shows; the others may still rely on what they did.
LEMMA Publishing ==
  ASSUME AppInv, NEW t \in Tasks, Finish(t, {}), tasks[t].kind # "worker", PageFits(page'), Aside,
         ReportsAreFaithful', \A u \in Tasks : u # t => Vouched(page', tasks[u])
  PROVE  AppInv' /\ NothingLeaves
<1>1. Rest({t}, {}) /\ tasks'[t] = Idle
  BY Ending
<1>2. ASSUME NEW u \in Tasks
      PROVE  /\ TaskTyped(tasks'[u]) /\ Vouched(page', tasks'[u])
             /\ Underway(txs', lost', device'.journal, tasks'[u]) /\ Gathered(node', tasks'[u])
             /\ ~Leaves(u)
  <2>0. /\ TaskTyped(tasks[u]) /\ Underway(txs, lost, device.journal, tasks[u]) /\ Gathered(node, tasks[u])
    BY DEF AppInv
  <2>1. CASE u = t
    BY <1>1, <2>1, IdleTask DEF Underway, Leaves, GivenAway
  <2>2. CASE u # t
    <3>1. KeptTask(tasks[u], tasks'[u], {}) /\ Vouched(page', tasks[u])
      BY <1>1, <2>2 DEF Rest
    <3>2. TaskTyped(tasks'[u]) /\ ~Leaves(u)
      BY <2>0, <3>1 DEF TaskTyped, KeptTask, Leaves, GivenAway
    <3>3. Vouched(page', tasks'[u])
      BY <3>1 DEF Vouched, KeptTask
    <3> QED BY <2>0, <3>1, <3>2, <3>3, UnderwayKept, GatheredKept DEF Aside
  <2> QED BY <2>1, <2>2
<1>3. Alone' /\ DeliveredOnce'
  BY <1>1, IdleTask, AloneKept, DeliveredKept DEF AppInv, Aside
<1>4. NodeTyped' /\ SentTyped' /\ DOMAIN tasks' = Tasks /\ DOMAIN device' = DeviceFields
  BY <1>1 DEF AppInv, Aside, NodeTyped, SentTyped, Rest
<1> QED BY <1>2, <1>3, <1>4 DEF AppInv, NothingLeaves

\* What a task that has collected everything knows.
LEMMA CollectedKnows ==
  ASSUME AppInv, NEW t \in Tasks, Collected(t)
  PROVE  /\ DOMAIN Pins(t) = tasks[t].item.epochs
         /\ \A e \in tasks[t].item.epochs : Observing(e, Pins(t)[e], Observed(t)[e])
<1>1. \A e \in tasks[t].item.epochs : LegFits(node, e, Leg(t, e)) /\ Leg(t, e).done
  BY DEF Collected, Collects, Collectors, AppInv, Gathered, Leg
<1>2. ASSUME NEW e \in tasks[t].item.epochs
      PROVE  Observing(e, Pins(t)[e], Observed(t)[e])
  <2>1. /\ Pins(t)[e].source = Leg(t, e).source /\ Pins(t)[e].target = Leg(t, e).target
        /\ Observed(t)[e] = Leg(t, e).observed
    BY DEF Pins, Observed
  <2> QED BY <1>1, <2>1 DEF LegFits, Observing
<1> QED BY <1>2 DEF Pins

LEMMA ReportCollectedKeeps ==
  ASSUME AppInv, NEW t \in Tasks, ReportCollected(t)
  PROVE  AppInv' /\ NothingLeaves
<1>1. PICK epoch \in tasks[t].item.epochs :
         page' = [page EXCEPT !.report =
                    [status |-> EvidenceStatus(Observed(t)[epoch]), epoch |-> epoch, pins |-> Pins(t)[epoch]]]
  BY DEF ReportCollected
<1>2. /\ Collected(t) /\ Finish(t, {}) /\ tasks[t].kind # "worker"
      /\ UNCHANGED <<device, prompts, txs, lost, node>>
  BY DEF ReportCollected, walletVars, ledgerVars
<1>3. Observing(epoch, Pins(t)[epoch], Observed(t)[epoch])
  BY <1>2, CollectedKnows
<1> PICK report : report = [status |-> EvidenceStatus(Observed(t)[epoch]), epoch |-> epoch,
                            pins |-> Pins(t)[epoch]]
  OBVIOUS
<1>4. ReportFaithful(report)
  BY <1>3, CompleteIsComplete DEF ReportFaithful
<1>5. PageFits(page) /\ DOMAIN page = PageFields
  BY DEF AppInv, PageFits
<1>6. /\ page'.report = report /\ page'.history = page.history /\ PageFits(page')
      /\ page'.milestone = page.milestone /\ page'.draft = page.draft /\ page'.plan = page.plan
      /\ page'.control = page.control
  BY <1>1, <1>5 DEF PageFits, PageFields
<1>7. ReportsAreFaithful'
  BY <1>4, <1>6, FaithfulHalves DEF AppInv
<1>8. \A u \in Tasks : Vouched(page', tasks[u])
  BY <1>6 DEF AppInv, Vouched, InForm
<1> QED BY <1>2, <1>6, <1>7, <1>8, Publishing DEF Aside, AppInv

LEMMA PaymentsCollectedKeeps ==
  ASSUME AppInv, NEW t \in Tasks, PaymentsCollected(t)
  PROVE  AppInv' /\ NothingLeaves
<1> PICK record : record = PaymentHistory(tasks[t].item.epochs, Observed(t))
  OBVIOUS
<1> PICK history : history = [status |-> record.status, records |-> record.records, pins |-> Pins(t)]
  OBVIOUS
<1>1. page' = [page EXCEPT !.history = history]
  BY DEF PaymentsCollected
<1>2. /\ Collected(t) /\ Finish(t, {}) /\ tasks[t].kind # "worker"
      /\ UNCHANGED <<device, prompts, txs, lost, node>>
  BY DEF PaymentsCollected, walletVars, ledgerVars
<1>3. HistoryFaithful(history)
  <2>1. history.pins = Pins(t) /\ history.status = record.status /\ history.records = record.records
    OBVIOUS
  <2>2. /\ DOMAIN Pins(t) = tasks[t].item.epochs
        /\ \A e \in tasks[t].item.epochs : Observing(e, Pins(t)[e], Observed(t)[e])
    BY <1>2, CollectedKnows
  <2> QED BY <2>1, <2>2, HistoryIsFaithful
<1>5. PageFits(page) /\ DOMAIN page = PageFields
  BY DEF AppInv, PageFits
<1>6. /\ page'.report = page.report /\ page'.history = history /\ PageFits(page')
      /\ page'.milestone = page.milestone /\ page'.draft = page.draft /\ page'.plan = page.plan
      /\ page'.control = page.control
  BY <1>1, <1>5 DEF PageFits, PageFields
<1>7. ReportsAreFaithful'
  BY <1>3, <1>6, FaithfulHalves DEF AppInv
<1>8. \A u \in Tasks : Vouched(page', tasks[u])
  BY <1>6 DEF AppInv, Vouched, InForm
<1> QED BY <1>2, <1>6, <1>7, <1>8, Publishing DEF Aside, AppInv

\* A new plan: no other plan is under way, and no settlement goes on without one.
LEMMA PlanBuiltKeeps ==
  ASSUME AppInv, NEW t \in Tasks, PlanBuilt(t)
  PROVE  AppInv' /\ NothingLeaves
<1>1. PICK plan : page' = [page EXCEPT !.plan = plan]
  BY DEF PlanBuilt
<1>2. /\ tasks[t].kind = "plan" /\ "settlement" \in tasks[t].holds /\ Finish(t, {})
      /\ UNCHANGED <<device, prompts, txs, lost, node>>
  BY DEF PlanBuilt, At, Fresh, walletVars, ledgerVars
<1>3. PageFits(page) /\ DOMAIN page = PageFields /\ page.plan = Nothing
  BY <1>2 DEF AppInv, PageFits, Vouched
<1>4. /\ page'.report = page.report /\ page'.history = page.history /\ PageFits(page')
      /\ page'.milestone = page.milestone /\ page'.draft = page.draft /\ page'.control = page.control
  BY <1>1, <1>3 DEF PageFits, PageFields
<1>5. ASSUME NEW u \in Tasks, u # t PROVE Vouched(page', tasks[u])
  <2>1. Vouched(page, tasks[u]) /\ ~(tasks[u].kind = "plan" /\ "settlement" \in tasks[u].holds)
    BY <1>2, <1>5 DEF AppInv, Alone
  <2> QED BY <1>3, <1>4, <2>1 DEF Vouched, InForm
<1>6. ReportsAreFaithful'
  BY <1>4, ReportsKept DEF AppInv
<1> QED BY <1>2, <1>4, <1>5, <1>6, Publishing DEF Aside, AppInv

\* A collection starts.
LEMMA CollectingStarts ==
  ASSUME AppInv, NEW t \in Tasks, NEW kind, kind \in Collectors, NEW marks, NEW epochs, NEW order, NEW holds,
         Start(t, kind, "collecting", marks, holds, Collecting(epochs, order)), PageKept(marks), Aside
  PROVE  AppInv' /\ NothingLeaves
<1> PICK item : item = Collecting(epochs, order)
  OBVIOUS
<1>1. tasks'[t].kind = kind /\ tasks'[t].item = item
  BY DEF Start, Raised, AppInv
<1>2. /\ DOMAIN item = {"epochs", "legs", "order"} /\ item.epochs = epochs
      /\ item.legs = [e \in epochs |-> Unread]
  BY DEF Collecting
<1>3. \A e \in epochs : LegFits(node', e, Unread)
  BY DEF LegFits, Unread
<1>4. Vouched(page', tasks'[t]) /\ Gathered(node', tasks'[t])
  BY <1>1, <1>2, <1>3 DEF Vouched, Gathered, Collectors
<1> QED BY <1>4, StartStep DEF Collectors, Senders

LEMMA ReportingKeeps ==
  ASSUME AppInv, Reporting
  PROVE  AppInv' /\ NothingLeaves
<1>1. CASE \E epoch \in Epochs : EpochInput(epoch)
  <2>1. PICK epoch \in Epochs : EpochInput(epoch)
    BY <1>1
  <2>2. PageKept({"closeout"})
    BY <2>1 DEF EpochInput, WithoutReport, AppInv, PageKept, PageFits, PageFields
  <2>3. Aside
    BY <2>1 DEF EpochInput, AppInv, Aside, walletVars, ledgerVars
  <2> QED BY <2>1, <2>2, <2>3, RaiseStep DEF EpochInput
<1>2. CASE PaymentsInput
  <2>1. PageKept({"paid"}) /\ Aside
    BY <1>2 DEF PaymentsInput, AppInv, Aside, walletVars, ledgerVars, PageKept
  <2> QED BY <1>2, <2>1, RaiseStep DEF PaymentsInput
<1>3. CASE \E t \in Tasks : Collect(t)
  <2>1. PICK t \in Tasks : Collect(t)
    BY <1>3
  <2>2. PageKept({"closeout"})
    BY <2>1 DEF Collect, WithoutReport, AppInv, PageKept, PageFits, PageFields
  <2>3. Aside
    BY <2>1 DEF Collect, AppInv, Aside, walletVars, ledgerVars
  <2> QED BY <2>1, <2>2, <2>3, CollectingStarts DEF Collect, Collectors
<1>4. CASE \E t \in Tasks, epoch \in Epochs : Inspect(t, epoch)
  <2>1. PICK t \in Tasks, epoch \in Epochs : Inspect(t, epoch)
    BY <1>4
  <2>2. PageKept({"closeout"})
    BY <2>1 DEF Inspect, WithoutReport, AppInv, PageKept, PageFits, PageFields
  <2>3. Aside
    BY <2>1 DEF Inspect, AppInv, Aside, walletVars, ledgerVars
  <2> QED BY <2>1, <2>2, <2>3, CollectingStarts DEF Inspect, Collectors
<1>5. CASE \E t \in Tasks : TrackPayment(t)
  <2>1. PICK t \in Tasks : TrackPayment(t)
    BY <1>5
  <2> PICK epoch : epoch = Terms[page.packet.order].epoch
    OBVIOUS
  <2>2. page' = [WithoutReport(page) EXCEPT !.epoch = epoch]
    BY <2>1 DEF TrackPayment
  <2>3. PageKept({"closeout"})
    BY <2>2 DEF WithoutReport, AppInv, PageKept, PageFits, PageFields
  <2>4. Aside
    BY <2>1 DEF TrackPayment, AppInv, Aside, walletVars, ledgerVars
  <2>5. CASE Verified
    <3>1. Start(t, "track", "collecting", {"closeout"}, {"closeout"} \cup {"work"},
                Collecting({epoch}, page.packet.order))
      BY <2>1, <2>5 DEF TrackPayment
    <3> QED BY <2>3, <2>4, <3>1, CollectingStarts DEF Collectors
  <2>6. CASE ~Verified
    <3>1. Raise({"closeout"})
      BY <2>1, <2>6 DEF TrackPayment
    <3> QED BY <2>3, <2>4, <3>1, RaiseStep
  <2> QED BY <2>5, <2>6
<1>6. CASE \E t \in Tasks, epochs \in SUBSET Epochs \ {{}} : CollectPayments(t, epochs)
  <2>1. PICK t \in Tasks, epochs \in SUBSET Epochs \ {{}} : CollectPayments(t, epochs)
    BY <1>6
  <2>2. PageKept({"paid"})
    BY <2>1 DEF CollectPayments, AppInv, PageKept, PageFits, PageFields
  <2>3. Aside
    BY <2>1 DEF CollectPayments, AppInv, Aside, walletVars, ledgerVars
  <2> QED BY <2>1, <2>2, <2>3, CollectingStarts DEF CollectPayments, Collectors
<1>7. CASE \E t \in Tasks : ReportCollected(t) \/ PaymentsCollected(t)
  BY <1>7, ReportCollectedKeeps, PaymentsCollectedKeeps
<1>8. CASE \E t \in Tasks, epoch \in Epochs :
              PinSource(t, epoch) \/ PinTarget(t, epoch) \/ ReadSource(t, epoch) \/ PinsHold(t, epoch)
  BY <1>8, CollectingKeeps
<1>9. CASE \E t \in Tasks, epoch \in Epochs, unread, gaps \in SUBSET AllocationIds :
              ReadTarget(t, epoch, unread, gaps)
  BY <1>9, CollectingKeeps
<1> QED BY <1>1, <1>2, <1>3, <1>4, <1>5, <1>6, <1>7, <1>8, <1>9 DEF Reporting

LEMMA SettlingKeeps ==
  ASSUME AppInv, Settling
  PROVE  Keeps
<1>1. CASE \E claims \in PaymentClaims : ClaimsInput(claims)
  <2>1. PICK claims \in PaymentClaims : ClaimsInput(claims)
    BY <1>1
  <2>2. PageKept({"settlement"})
    BY <2>1 DEF ClaimsInput, WithoutPlan, AppInv, PageKept, PageFits, PageFields
  <2>3. Aside
    BY <2>1 DEF ClaimsInput, AppInv, Aside, walletVars, ledgerVars
  <2> QED BY <2>1, <2>2, <2>3, RaiseStep, SilentKeeps DEF ClaimsInput
<1>2. CASE \E t \in Tasks : BuildPlan(t)
  <2>1. PICK t \in Tasks : BuildPlan(t)
    BY <1>2
  <2> PICK item : item = [claims |-> page.claims, source |-> Pin(SourceHistory, node.source),
                          target |-> Pin(TargetHistory, node.target)]
    OBVIOUS
  <2>2. Start(t, "plan", "planning", {"settlement"}, {"settlement"}, item) /\ page' = WithoutPlan(page)
    BY <2>1 DEF BuildPlan
  <2>3. PageKept({"settlement"}) /\ page'.plan = Nothing
    BY <2>2 DEF WithoutPlan, AppInv, PageKept, PageFits, PageFields
  <2>4. Aside
    BY <2>1 DEF BuildPlan, AppInv, Aside, walletVars, ledgerVars
  <2>5. tasks'[t].kind = "plan"
    BY <2>2 DEF Start, Raised, AppInv
  <2>6. Vouched(page', tasks'[t]) /\ Gathered(node', tasks'[t])
    BY <2>3, <2>5 DEF Vouched, Gathered, Collectors
  <2> QED BY <2>2, <2>3, <2>4, <2>6, StartStep, SilentKeeps DEF Senders
<1>3. CASE \E t \in Tasks : PlanBuilt(t)
  BY <1>3, PlanBuiltKeeps, SilentKeeps
<1>4. CASE \E t \in Tasks : Settle(t)
  <2>1. PICK t \in Tasks : Settle(t)
    BY <1>4
  <2> PICK item : item = Asking(Settlement(page.plan), Nothing)
    OBVIOUS
  <2>2. /\ Start(t, "settle", "checking", {}, {"settlement", "wallet"}, item) /\ page.plan # Nothing
        /\ UNCHANGED page
    BY <2>1 DEF Settle
  <2>3. PageKept({}) /\ Aside
    BY <2>1 DEF Settle, AppInv, Aside, walletVars, ledgerVars, PageKept
  <2>4. DOMAIN item = {"call", "account", "hash"} /\ item.call = Settlement(page.plan)
    BY DEF Asking
  <2>5. tasks'[t].kind = "settle" /\ tasks'[t].item = item
    BY <2>2 DEF Start, Raised, AppInv
  <2>6. Vouched(page', tasks'[t]) /\ Gathered(node', tasks'[t])
    BY <2>2, <2>4, <2>5 DEF Vouched, Gathered, Collectors
  <2> QED BY <2>2, <2>3, <2>4, <2>6, StartStep, SilentKeeps
<1>5. CASE \E t \in Tasks : SettleSession(t)
  <2>1. PICK t \in Tasks : SettleSession(t)
    BY <1>5
  <2> QED BY <2>1, SessionStep, SilentKeeps DEF SettleSession, At, Senders, walletVars, ledgerVars
<1>6. CASE \E t \in Tasks : SettleAsk(t)
  BY <1>6, SettleAskKeeps
<1>7. CASE \E t \in Tasks : SettleJournaled(t)
  <2>1. PICK t \in Tasks : SettleJournaled(t)
    BY <1>7
  <2>2. Proceed(t, "receipt", tasks[t].item) /\ tasks[t].kind = "settle"
    BY <2>1 DEF SettleJournaled, At
  <2>3. /\ Rest({t}, {}) /\ DOMAIN tasks'[t] = DOMAIN tasks[t]
        /\ tasks'[t].kind = tasks[t].kind /\ tasks'[t].at = "receipt" /\ tasks'[t].setup = tasks[t].setup
        /\ tasks'[t].item = tasks[t].item /\ tasks'[t].holds = tasks[t].holds
    BY <2>2, Proceeding
  <2>4. PageKept({}) /\ page' = page
    BY <2>1 DEF SettleJournaled, AppInv, PageKept
  <2>5. Aside
    BY <2>1 DEF SettleJournaled, AppInv, Aside, walletVars, ledgerVars, DeviceFields
  <2>6. TaskTyped(tasks[t]) /\ Vouched(page, tasks[t])
    BY DEF AppInv
  <2>7. TaskTyped(tasks'[t]) /\ Calm(tasks[t], tasks'[t]) /\ Gathered(node', tasks'[t])
    BY <2>2, <2>3, <2>6 DEF TaskTyped, Calm, Gathered, Collectors
  <2>8. Vouched(page', tasks'[t])
    BY <2>2, <2>3, <2>4, <2>6 DEF Vouched
  <2> QED BY <2>2, <2>3, <2>4, <2>5, <2>7, <2>8, Ordinary, SilentKeeps
<1>8. CASE \E t \in Tasks : SettleReceipt(t)
  <2>1. PICK t \in Tasks : SettleReceipt(t)
    BY <1>8
  <2>2. PageKept({})
    BY <2>1 DEF SettleReceipt, AppInv, PageKept
  <2>3. Aside
    BY <2>1 DEF SettleReceipt, AppInv, Aside, walletVars, ledgerVars, DeviceFields
  <2>4. Finish(t, {}) /\ tasks[t].kind # "worker"
    BY <2>1 DEF SettleReceipt, At
  <2> QED BY <2>2, <2>3, <2>4, FinishStep, SilentKeeps
<1> QED BY <1>1, <1>2, <1>3, <1>4, <1>5, <1>6, <1>7, <1>8 DEF Settling

-----------------------------------------------------------------------------
(* The ledgers *)

LEMMA LedgersKeep ==
  ASSUME AppInv, Ledgers
  PROVE  AppInv' /\ NothingLeaves
<1>1. CASE \/ Advance \/ RoomLost
           \/ \E order \in Orders : PolicyChanges(order)
           \/ \E order \in Orders : \E m \in Milestones(order), before, after \in Statuses :
                 SafeActs(order, m, before, after)
  <2>1. UNCHANGED <<page, device, tasks, prompts, txs, lost, node>>
    BY <1>1 DEF Advance, RoomLost, PolicyChanges, SafeActs, walletVars
  <2>2. PageKept({}) /\ Aside
    BY <2>1 DEF AppInv, PageKept, Aside
  <2> QED BY <2>1, <2>2, QuietStep
<1>2. CASE \E hash \in DOMAIN txs : Mine(hash)
  BY <1>2, MiningKeeps
<1>3. CASE FinalizeSource
  <2>1. /\ node' = [node EXCEPT !["source"].height = @ + 1]
        /\ node["source"].height < Len(SourceHistory[node["source"].fork])
        /\ UNCHANGED <<page, device, tasks, prompts, txs, lost>>
    BY <1>3 DEF FinalizeSource, Finalize, walletVars
  <2>2. NodeTyped /\ Len(SourceHistory["a"]) = Len(SourceHistory["b"]) /\ Len(SourceHistory["a"]) \in Nat
    BY HistoryShape DEF AppInv, NodeTyped
  <2>3. NodeTyped' /\ \A chain \in {"source", "target"} : node'[chain].fork = node[chain].fork
    BY <2>1, <2>2 DEF NodeTyped
  <2> QED BY <2>1, <2>3, NodeStep
<1>4. CASE FinalizeTarget
  <2>1. /\ node' = [node EXCEPT !["target"].height = @ + 1]
        /\ node["target"].height < Len(TargetHistory[node["target"].fork])
        /\ UNCHANGED <<page, device, tasks, prompts, txs, lost>>
    BY <1>4 DEF FinalizeTarget, Finalize, walletVars
  <2>2. NodeTyped /\ Len(TargetHistory["a"]) = Len(TargetHistory["b"]) /\ Len(TargetHistory["a"]) \in Nat
    BY HistoryShape DEF AppInv, NodeTyped
  <2>3. NodeTyped' /\ \A chain \in {"source", "target"} : node'[chain].fork = node[chain].fork
    BY <2>1, <2>2 DEF NodeTyped
  <2> QED BY <2>1, <2>3, NodeStep
<1>5. CASE \E chain \in {"source", "target"} : Fork(chain)
  <2>1. PICK chain \in {"source", "target"} : Fork(chain)
    BY <1>5
  <2>2. /\ node' = [node EXCEPT ![chain].fork = "b"] /\ node[chain].fork = "a"
        /\ UNCHANGED <<page, device, tasks, prompts, txs, lost>>
    BY <2>1 DEF Fork, walletVars
  <2>3. NodeTyped
    BY DEF AppInv
  <2>4. NodeTyped'
    BY <2>2, <2>3 DEF NodeTyped
  <2>5. \A c \in {"source", "target"} :
           \/ node'[c].fork = node[c].fork
           \/ /\ node[c].fork = "a"
              /\ node'[c].fork = "b"
    BY <2>2, <2>3 DEF NodeTyped
  <2> QED BY <2>2, <2>4, <2>5, NodeStep
<1> QED BY <1>1, <1>2, <1>3, <1>4, <1>5 DEF Ledgers

-----------------------------------------------------------------------------
(* The theorems *)

LEMMA AppStarts ==
  ASSUME Init
  PROVE  AppInv
<1>1. PICK start \in Starts : device = start.device /\ node = start.node
  BY DEF Init
<1>2. /\ page = Booted(device) /\ tasks = [t \in Tasks |-> Idle] /\ prompts = {}
      /\ txs = << >> /\ lost = {} /\ DOMAIN device = DeviceFields /\ device.journal = {}
  BY <1>1, StartsAssumption DEF Init, DeviceFields
<1>3. NodeTyped
  <2>1. /\ DOMAIN SourceHistory = {"a", "b"} /\ DOMAIN TargetHistory = {"a", "b"}
    BY HistoriesAssumption
  <2> QED BY <1>1, <2>1, StartsAssumption DEF NodeTyped
<1>4. SentTyped
  <2>1. txs \in Seq(Range(txs)) /\ Range(txs) = {}
    BY <1>2 DEF Range
  <2> QED BY <1>2, <2>1 DEF SentTyped
<1>5. \A t \in Tasks :
         /\ TaskTyped(tasks[t]) /\ Vouched(page, tasks[t])
         /\ Underway(txs, lost, device.journal, tasks[t]) /\ Gathered(node, tasks[t])
         /\ tasks[t].kind = "idle"
  BY <1>2, IdleTask DEF Underway
<1>6. DeliveredOnce
  BY <1>2 DEF DeliveredOnce
<1>7. ReportsAreFaithful /\ PageFits(page)
  BY <1>2, BootedFits, FaithfulHalves, NoReportIsFaithful
<1> QED BY <1>2, <1>3, <1>4, <1>5, <1>6, <1>7 DEF AppInv, Alone

LEMMA NextKeeps ==
  ASSUME AppInv, Next
  PROVE  Keeps
<1>1. CASE Settings
  BY <1>1, SettingsKeep, SilentKeeps
<1>2. CASE WalletSteps
  BY <1>2, SessionKeeps, PromptSendsKeeps, WalletSendsKeeps, WalletLosesKeeps, SilentKeeps DEF WalletSteps
<1>3. CASE WorkFiles
  BY <1>3, WorkFilesKeep, SilentKeeps
<1>4. CASE Signing
  BY <1>4, SigningKeeps
<1>5. CASE Delivering
  BY <1>5, DeliveringKeeps
<1>6. CASE Executing
  BY <1>6, ExecutingKeeps
<1>7. CASE Reporting
  BY <1>7, ReportingKeeps, SilentKeeps
<1>8. CASE Settling
  BY <1>8, SettlingKeeps
<1>9. CASE Ledgers
  BY <1>9, LedgersKeep, SilentKeeps
<1>10. CASE Reload
  BY <1>10, ReloadKeeps, SilentKeeps
<1>11. CASE \E t \in Tasks : Fail(t)
  BY <1>11, FailureKeeps, SilentKeeps
<1> QED BY <1>1, <1>2, <1>3, <1>4, <1>5, <1>6, <1>7, <1>8, <1>9, <1>10, <1>11 DEF Next

LEMMA StutterKeeps ==
  ASSUME AppInv, UNCHANGED vars
  PROVE  Keeps
<1>1. UNCHANGED <<page, device, tasks, prompts, txs, lost, node>>
  BY DEF vars
<1>2. PageKept({}) /\ Aside
  BY <1>1 DEF AppInv, PageKept, Aside
<1> QED BY <1>1, <1>2, QuietStep, SilentKeeps

\* The inductive invariant of the web app: a task that still holds its marks works on what
\* the page shows, the deliveries sent, those under way and the journal agree, and every
\* collection knows what its pinned blocks say.
THEOREM AppInvariant == Spec => []AppInv
<1>1. Init => AppInv
  BY AppStarts
<1>2. AppInv /\ [Next]_vars => AppInv'
  BY NextKeeps, StutterKeeps DEF Keeps
<1> QED BY <1>1, <1>2, PTL DEF Spec

\* A delivery, a signature or a settlement that the page sends to the wallet is the one it
\* shows at that moment, for the account it takes.  A prepared call is of the workspace and
\* the form when the page gives it to the signer, a payment of the workspace; of the time
\* that the signer takes before it asks the wallet nothing is said.
THEOREM SentAsShown == Spec => LeavesAsShown
<1>1. Init => AppInv
  BY AppStarts
<1>2. AppInv /\ [Next]_vars => AppInv' /\ [\A t \in Tasks : Leaves(t) => Shows(tasks'[t])]_vars
  BY NextKeeps, StutterKeeps DEF Keeps
<1> QED BY <1>1, <1>2, PTL DEF Spec, LeavesAsShown

\* No delivery whose hash the page has seen is sent again, and the journal says what became of it.
THEOREM NoSecondDelivery == Spec => []DeliveredOnce
<1>1. AppInv => DeliveredOnce
  BY DEF AppInv
<1> QED BY <1>1, AppInvariant, PTL

\* A complete report and a payment record say what the blocks they name say.
THEOREM ReportsTrue == Spec => []ReportsAreFaithful
<1>1. AppInv => ReportsAreFaithful
  BY DEF AppInv
<1> QED BY <1>1, AppInvariant, PTL
=============================================================================
