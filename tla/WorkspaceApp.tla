---------------------------- MODULE WorkspaceApp ----------------------------
(***************************************************************************)
(* The web app's page (ui/app.ts): what it shows, what it keeps on the     *)
(* device, the wallet session, and the asynchronous work its clicks start. *)
(*                                                                         *)
(* JavaScript runs one callback at a time, so an action is what happens    *)
(* between two awaits.  A pending call is a task.  The code notes          *)
(* generation counters when it starts (draftRevision, writeRevision, ...)  *)
(* and compares them after each await; a counter never comes back to an    *)
(* old value, so noting it is holding a mark, and raising it takes the     *)
(* mark from every task that holds it.  Awaits that only read and are      *)
(* followed by another check of the same marks before anything changes are *)
(* one await here.  Any pending call may fail.                             *)
(*                                                                         *)
(* The execution tab is one: the docs ask for it.  A build trusts one      *)
(* deployment; a setup names it with an RPC and a Safe of its own, or      *)
(* names another deployment, which stays inspect-only.                     *)
(***************************************************************************)
EXTENDS ParticipantWork, ProgramEvidence, FiniteSets

CONSTANTS
    Tasks,        \* bound: the calls that can be pending at once
    Setups,       \* the setups of the settings form
    Trusted,      \* those that name the pinned deployment
    Local,        \* the fixture that "load local demo" loads
    Demo,         \* the public demo's setup
    SafeOf,       \* the Safe each setup names
    Accounts,     \* what the wallet extension can have selected
    Epochs,       \* the programs whose evidence can be asked for
    PaymentClaims,\* what the settlement form can hold
    Starts        \* what the device, the source ledger and the RPCs can have when the page is
                  \* first opened, and the bounds: how often each click, answer and outside
                  \* step happens then

\* A device, and the two RPCs with one of the histories each; no delivery is under way.
ASSUME StartsAssumption ==
    \A start \in Starts :
        /\ DOMAIN start.device = {"setup", "draft", "works", "journal", "settlements"}
        /\ start.device.journal = {}
        /\ DOMAIN start.node = {"source", "target"}
        /\ start.node.source \in [fork : DOMAIN SourceHistory, height : 0 .. Len(SourceHistory["a"])]
        /\ start.node.target \in [fork : DOMAIN TargetHistory, height : 0 .. Len(TargetHistory["a"])]
ASSUME SetupsAssumption == Trusted \subseteq Setups /\ Local \in Setups \ Trusted /\ Demo \in Trusted

VARIABLES
    page,      \* the page's variables and form fields
    device,    \* localStorage
    tasks,     \* the pending calls
    prompts,   \* wallet requests whose page was closed or reloaded
    wallet,    \* the account selected in the extension, and the one the page was last told
    source,    \* the source ledger the participant reads
    txs,       \* transactions the wallet sent; a hash is the place
    lost,      \* history: hashes that never reached the page
    cleared,   \* history: the saved setup was cleared and none was chosen since
    node,      \* what the two RPCs have finalized
    budget

vars == <<page, device, tasks, prompts, wallet, source, txs, lost, cleared, node, budget>>
ledgerVars == <<source, txs, node>>
walletVars == <<wallet, prompts, lost>>

-----------------------------------------------------------------------------
(* The page *)

NoReport == [status |-> "none"]

\* boot(): the stored draft, else the newest stored work file, is shown; nothing is verified.
Booted(stored) ==
    LET newest == IF stored.works = << >> THEN Nothing ELSE Head(stored.works)
        restored == stored.draft = Nothing /\ newest # Nothing
    IN  [setup |-> stored.setup, form |-> stored.setup, verified |-> Nothing,
         session |-> Nothing, bound |-> FALSE,
         draft |-> stored.draft,
         packet |-> IF restored THEN newest.packet ELSE stored.draft,
         milestone |-> IF restored THEN newest.milestone ELSE 1,
         acked |-> Nothing, content |-> "",
         read |-> Nothing, delivery |-> Nothing, control |-> Nothing, prepared |-> Nothing,
         epoch |-> Nothing, report |-> NoReport, history |-> NoReport,
         claims |-> Nothing, plan |-> Nothing]

Idle == [kind |-> "idle", at |-> "idle", holds |-> {}, setup |-> Nothing, item |-> Nothing]

Init ==
    /\ \E start \in Starts :
          /\ device = start.device /\ source = start.source
          /\ node = start.node /\ budget = start.budget
    /\ page = Booted(device)
    /\ tasks = [t \in Tasks |-> Idle]
    /\ prompts = {}
    /\ \E account \in Accounts : wallet = [account |-> account, told |-> account]
    /\ txs = << >> /\ lost = {} /\ cleared = FALSE

Spend(what) == budget[what] > 0 /\ budget' = [budget EXCEPT ![what] = @ - 1]

\* requireVerifiedWorkspace
Verified == page.setup # Nothing /\ page.verified = page.setup

\* invalidatePreparedSource, clearParticipantReadState, changeDraft, invalidateWriteState
WithoutPrepared(p) == [p EXCEPT !.prepared = Nothing, !.delivery = Nothing]
WithoutRead(p) == [p EXCEPT !.read = Nothing, !.delivery = Nothing]
WithDraft(p, draft) == [WithoutPrepared(p) EXCEPT !.draft = draft]
WithoutWrites(p) ==
    [WithoutPrepared(p) EXCEPT !.verified = Nothing, !.plan = Nothing, !.report = NoReport]

PreparedMarks == {"write"}
ReadMarks == {"work"}
DraftMarks == {"draft", "write"}
WriteMarks == {"write", "settlement", "closeout"}

-----------------------------------------------------------------------------
(* Tasks *)

Raised(marks) == [t \in Tasks |-> [tasks[t] EXCEPT !.holds = @ \ marks]]
Raise(marks) == tasks' = Raised(marks)

\* A call starts: it raises some counters, notes the marks it holds and the setup.
Start(t, kind, at, raised, holds, item) ==
    /\ tasks[t] = Idle
    /\ tasks' = [Raised(raised) EXCEPT ![t] =
                    [kind |-> kind, at |-> at, holds |-> holds, setup |-> page.setup, item |-> item]]

At(t, kind, at) == tasks[t].kind = kind /\ tasks[t].at = at
Fresh(t, marks) == marks \subseteq tasks[t].holds /\ page.setup = tasks[t].setup

Proceed(t, at, item) == tasks' = [tasks EXCEPT ![t].at = at, ![t].item = item]
Finish(t, raised) == tasks' = [Raised(raised) EXCEPT ![t] = Idle]
Busy(kind) == \E t \in Tasks : tasks[t].kind = kind

\* A transaction is out once the wallet has answered; until then a call may fail,
\* refuse to go on after a change, or be rejected in the wallet.
Fail(t) ==
    /\ tasks[t] # Idle /\ tasks[t].at # "answered"
    /\ tasks[t].kind # "verify"
    /\ Finish(t, {})
    /\ UNCHANGED <<page, device, walletVars, ledgerVars, cleared, budget>>

-----------------------------------------------------------------------------
(* Settings *)

SettingsInput(setup) ==
    /\ Spend("form")
    /\ page' = [WithoutWrites(page) EXCEPT !.form = setup]
    /\ Raise(WriteMarks)
    /\ UNCHANGED <<device, walletVars, ledgerVars, cleared>>

\* The setup in the form is verified and, if that succeeds, saved.
SubmitSettings(t) ==
    /\ page.form # Nothing /\ Spend("submit")
    /\ page' = WithoutWrites(page)
    /\ Start(t, "verify", "checking", WriteMarks, {}, [setup |-> page.form, saves |-> TRUE])
    /\ cleared' = FALSE
    /\ UNCHANGED <<device, walletVars, ledgerVars>>

\* The setup in the form is verified and not saved.
CheckSettings(t) ==
    /\ page.form # Nothing /\ Spend("check")
    /\ Start(t, "verify", "checking", {}, {}, [setup |-> page.form, saves |-> FALSE])
    /\ UNCHANGED <<page, device, walletVars, ledgerVars, cleared>>

\* The public demo's setup is saved at once and then verified.
LoadDemo(t) ==
    /\ Spend("demo")
    /\ page' = [WithoutWrites(page) EXCEPT !.setup = Demo, !.form = Demo]
    /\ device' = [device EXCEPT !.setup = Demo]
    /\ Start(t, "verify", "checking", WriteMarks, {}, [setup |-> Demo, saves |-> FALSE])
    /\ cleared' = FALSE
    /\ UNCHANGED <<walletVars, ledgerVars>>

LoadLocal ==
    /\ Spend("local")
    /\ page' = [WithoutWrites(page) EXCEPT !.setup = Local, !.form = Local]
    /\ device' = [device EXCEPT !.setup = Local]
    /\ Raise(WriteMarks)
    /\ cleared' = FALSE
    /\ UNCHANGED <<walletVars, ledgerVars>>

ClearSettings ==
    /\ Spend("clear")
    /\ page' = [WithoutWrites(page) EXCEPT !.setup = Nothing, !.form = Nothing]
    /\ device' = [device EXCEPT !.setup = Nothing]
    /\ Raise(WriteMarks)
    /\ cleared' = TRUE
    /\ UNCHANGED <<walletVars, ledgerVars>>

\* The setup that was checked becomes the verified one, whatever the page has now.
VerificationSucceeds(t) ==
    LET checked == tasks[t].item
        verified == [page EXCEPT !.verified = IF checked.setup \in Trusted THEN checked.setup
                                              ELSE Nothing]
    IN  /\ At(t, "verify", "checking")
        /\ page' = IF checked.saves
                   THEN [verified EXCEPT !.setup = checked.setup, !.form = checked.setup]
                   ELSE verified
        /\ device' = IF checked.saves THEN [device EXCEPT !.setup = checked.setup] ELSE device
        /\ Finish(t, {})
        /\ UNCHANGED <<walletVars, ledgerVars, cleared, budget>>

VerificationFails(t) ==
    /\ At(t, "verify", "checking")
    /\ page' = [page EXCEPT !.verified = Nothing]
    /\ Finish(t, {})
    /\ UNCHANGED <<device, walletVars, ledgerVars, cleared, budget>>

-----------------------------------------------------------------------------
(* The wallet *)

\* The user selects another account; the page is told by an event.
SelectAccount(account) ==
    /\ account # wallet.account /\ Spend("account")
    /\ wallet' = [wallet EXCEPT !.account = account]
    /\ UNCHANGED <<page, device, tasks, prompts, ledgerVars, lost, cleared>>

\* clearWalletSession, which the first connection binds to the wallet's events
WalletEvent ==
    /\ wallet.told # wallet.account
    /\ wallet' = [wallet EXCEPT !.told = wallet.account]
    /\ IF ~page.bound THEN UNCHANGED <<page, tasks>>
       ELSE /\ page' = [WithoutPrepared(page) EXCEPT !.session = Nothing]
            /\ Raise({"wallet", "write"})
    /\ UNCHANGED <<device, prompts, ledgerVars, lost, cleared, budget>>

WithSession(p) == [p EXCEPT !.session = wallet.account, !.bound = TRUE]

Connect ==
    /\ Spend("connect")
    /\ page' = WithSession(page)
    /\ Raise({"wallet"})
    /\ UNCHANGED <<device, walletVars, ledgerVars, cleared>>

\* connectWallet, when there is no session; the task holds the session it finds.
\* getSigner() asks the extension, so the signer is the account selected now.
Connected(t, at, item) ==
    LET joined == IF page.session = Nothing THEN Raised({"wallet"}) ELSE tasks
    IN  /\ page' = IF page.session = Nothing THEN WithSession(page) ELSE page
        /\ tasks' = [joined EXCEPT ![t].at = at, ![t].item = item,
                                   ![t].holds = @ \cup {"wallet"}]

\* The wallet sends what it was asked for; the answer is on its way to the page.
WalletSends(t) ==
    /\ tasks[t].at = "asked" /\ tasks[t].kind # "sign"
    /\ txs' = Append(txs, [via |-> tasks[t].kind, call |-> tasks[t].item.call,
                           from |-> tasks[t].item.account, outcome |-> "waiting"])
    /\ Proceed(t, "answered", [tasks[t].item EXCEPT !.hash = Len(txs) + 1])
    /\ UNCHANGED <<page, device, wallet, prompts, lost, source, node, cleared, budget>>

\* The wallet sends it and then answers with an error that names no hash.
WalletLoses(t) ==
    /\ tasks[t].at = "asked" /\ tasks[t].kind # "sign" /\ Spend("lose")
    /\ txs' = Append(txs, [via |-> tasks[t].kind, call |-> tasks[t].item.call,
                           from |-> tasks[t].item.account, outcome |-> "waiting"])
    /\ lost' = lost \cup {Len(txs) + 1}
    /\ Finish(t, {})
    /\ UNCHANGED <<page, device, wallet, prompts, source, node, cleared>>

-----------------------------------------------------------------------------
(* The page is closed or reloaded: the tasks are gone, the device is not.  A   *)
(* request that was in the wallet can still be approved there.                 *)

Answered == {t \in Tasks : tasks[t].at = "answered" /\ tasks[t].kind # "sign"}
Asked == {t \in Tasks : tasks[t].at = "asked" /\ tasks[t].kind # "sign"}

Reload ==
    /\ Spend("reload")
    /\ page' = Booted(device)
    /\ tasks' = [t \in Tasks |-> Idle]
    /\ prompts' = prompts \cup
            {[via |-> tasks[t].kind, call |-> tasks[t].item.call, from |-> tasks[t].item.account,
              outcome |-> "waiting"] : t \in Asked}
    /\ lost' = lost \cup {tasks[t].item.hash : t \in Answered}
    /\ wallet' = [wallet EXCEPT !.told = wallet.account]
    /\ UNCHANGED <<device, ledgerVars, cleared>>

PromptSends ==
    \E prompt \in prompts :
        /\ prompts' = prompts \ {prompt}
        /\ txs' = Append(txs, prompt)
        /\ lost' = lost \cup {Len(txs) + 1}
        /\ UNCHANGED <<page, device, tasks, wallet, source, node, cleared, budget>>
=============================================================================
