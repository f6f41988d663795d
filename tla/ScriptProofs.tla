----------------------------- MODULE ScriptProofs -----------------------------
(***************************************************************************)
(* The operator scripts keep track of the budget they have offered, of the *)
(* transactions they have sent and of what they may claim, for every       *)
(* program, every bound on the faults and every interleaving with the      *)
(* chains: whatever holds a part of the epoch's budget is the newest       *)
(* generation of its order, or was hidden by a failed lookup; a call is    *)
(* sent again only after the first has failed, or when its hash was lost;  *)
(* and what a stage of the report says is so on the chains.                *)
(***************************************************************************)
EXTENDS ScriptStages, SumTheorems

\* One order of TermsTracked.
Tracked(id) ==
    /\ id = <<id[1], id[2]>> /\ id[2] \in Nat
    /\ \E top \in Generations(id[1]) : \A other \in Generations(id[1]) : other[2] <= top[2]
    /\ DOMAIN orders[id] = DOMAIN Drafted
    /\ orders[id].status \in {"drafted", "offered", "agreed", "delivered", "challenged", "final"}
    /\ orders[id].passed \in Nat
    /\ orders[id].status \in {"agreed", "delivered", "challenged"} => orders[id].agreed
    /\ id = Current(id[1]) \/ id \in misread \/ Lapsed(orders[id])

LEMMA EachTracked == TermsTracked <=> \A id \in DOMAIN orders : Tracked(id)
BY Zenon DEF TermsTracked, Tracked

\* The newest generation is unique (Current).
LEMMA CurrentIsNewest ==
  ASSUME TermsTracked, NEW id \in DOMAIN orders
  PROVE  /\ Current(id[1]) \in Generations(id[1])
         /\ \A other \in Generations(id[1]) : other[2] <= Current(id[1])[2]
BY EachTracked DEF Tracked, Current

\* What a call may do to an order (the contract's functions).
Follows(old, new) ==
    /\ DOMAIN new = DOMAIN Drafted
    /\ new.status \in {"drafted", "offered", "agreed", "delivered", "challenged", "final"}
    /\ new.passed \in Nat
    /\ new.status \in {"agreed", "delivered", "challenged"} => new.agreed
    /\ Lapsed(old) => Lapsed(new)

\* An order that changes in place stays tracked.
LEMMA InPlace ==
  ASSUME TermsTracked, DOMAIN orders' = DOMAIN orders, misread \subseteq misread',
         \A id \in DOMAIN orders : Follows(orders[id], orders'[id])
  PROVE  TermsTracked'
<1>1. ASSUME NEW key PROVE Generations(key)' = Generations(key) /\ Current(key)' = Current(key)
  BY DEF Generations, Current
<1>2. ASSUME NEW id \in DOMAIN orders PROVE Tracked(id)'
  <2>1. Tracked(id) /\ Follows(orders[id], orders'[id])
    BY EachTracked
  <2>2. Lapsed(orders[id]) => Lapsed(orders'[id])
    BY <2>1 DEF Follows
  <2>3. id = Current(id[1])' \/ id \in misread' \/ Lapsed(orders'[id])
    BY <1>1, <2>1, <2>2 DEF Tracked
  <2> QED BY <1>1, <2>1, <2>3 DEF Tracked, Follows
<1> QED BY <1>2, EachTracked DEF TermsTracked, Tracked

LEMMA Unchanging ==
  ASSUME TermsTracked, NEW id \in DOMAIN orders
  PROVE  Follows(orders[id], orders[id])
BY EachTracked DEF Tracked, Follows

LEMMA SameOrders ==
  ASSUME TermsTracked, UNCHANGED <<orders, misread>>
  PROVE  TermsTracked'
BY InPlace, Unchanging

\* An accepted call (Accepts, OrderAfter).
LEMMA CallFollows ==
  ASSUME TermsTracked, NEW call, call.id \in DOMAIN orders, Accepts(call)
  PROVE  Follows(orders[call.id], OrderAfter(call, orders[call.id]))
<1> DEFINE old == orders[call.id]
           new == OrderAfter(call, old)
<1>1. /\ DOMAIN old = {"status", "agreed", "pay", "passed", "outcome"}
      /\ old.status \in {"drafted", "offered", "agreed", "delivered", "challenged", "final"}
      /\ old.passed \in Nat
      /\ old.status \in {"agreed", "delivered", "challenged"} => old.agreed
  BY EachTracked DEF Tracked, Drafted
<1>2. CASE new = old
  BY <1>2, Unchanging
<1>3. CASE call.fn = "createOffer"
  <2>1. new = [old EXCEPT !.status = "offered"] /\ ~ Lapsed(old)
    BY <1>1, <1>3 DEF OrderAfter, Accepts, Lapsed, AcceptBefore
  <2> QED BY <1>1, <2>1 DEF Follows, Drafted
<1>4. CASE call.fn = "acceptOffer"
  <2>1. new = [old EXCEPT !.status = "agreed", !.agreed = TRUE] /\ ~ Lapsed(old)
    BY <1>1, <1>4 DEF OrderAfter, Accepts, Lapsed
  <2> QED BY <1>1, <2>1 DEF Follows, Drafted
<1>5. CASE call.fn = "deliver"
  <2>1. new = [old EXCEPT !.status = "delivered"] /\ ~ Lapsed(old) /\ old.agreed
    BY <1>1, <1>5 DEF OrderAfter, Accepts, Lapsed
  <2> QED BY <1>1, <2>1 DEF Follows, Drafted
<1>6. CASE call.fn = "challenge"
  <2>1. new = [old EXCEPT !.status = "challenged"] /\ ~ Lapsed(old) /\ old.agreed
    BY <1>1, <1>6 DEF OrderAfter, Accepts, Lapsed
  <2> QED BY <1>1, <2>1 DEF Follows, Drafted
<1>7. CASE \E pay, how : new = Final(old, pay, how)
  <2>1. PICK pay, how : new = [old EXCEPT !.status = "final", !.pay = pay, !.outcome = how]
    BY <1>7 DEF Final
  <2>2. DOMAIN new = DOMAIN old /\ new.status = "final" /\ new.passed = old.passed
    BY <1>1, <2>1
  <2> QED BY <1>1, <2>2 DEF Follows, Drafted, Lapsed
<1>8. \/ call.fn \in {"createOffer", "acceptOffer", "deliver", "challenge"}
      \/ \E pay, how : new = Final(old, pay, how)
      \/ new = old
  BY DEF OrderAfter
<1> QED BY <1>2, <1>3, <1>4, <1>5, <1>6, <1>7, <1>8

LEMMA AppliedTracks ==
  ASSUME TermsTracked, NEW call, Accepts(call), Applied(call), misread' = misread
  PROVE  TermsTracked'
<1>1. CASE call.id \in DOMAIN orders
  <2>1. orders' = [orders EXCEPT ![call.id] = OrderAfter(call, orders[call.id])]
    BY <1>1 DEF Applied, OrdersAfter
  <2>2. \A id \in DOMAIN orders : Follows(orders[id], orders'[id])
    BY <1>1, <2>1, CallFollows, Unchanging
  <2> QED BY <2>1, <2>2, InPlace
<1>2. CASE call.id \notin DOMAIN orders
  BY <1>2, SameOrders DEF Applied, OrdersAfter
<1> QED BY <1>1, <1>2

\* Deadlines pass for one order (Pass).
LEMMA PassTracks ==
  ASSUME TermsTracked, NEW id \in DOMAIN orders, Pass(id)
  PROVE  TermsTracked'
<1>1. PICK passed \in orders[id].passed + 1 .. RuleBefore :
         orders' = [orders EXCEPT ![id].passed = passed] /\ misread' = misread
  BY DEF Pass
<1>2. Follows(orders[id], orders'[id])
  <2>1. orders'[id] = [orders[id] EXCEPT !.passed = passed]
    BY <1>1
  <2>2. /\ DOMAIN orders[id] = {"status", "agreed", "pay", "passed", "outcome"}
        /\ orders[id].status \in {"drafted", "offered", "agreed", "delivered", "challenged", "final"}
        /\ orders[id].passed \in Nat
        /\ orders[id].status \in {"agreed", "delivered", "challenged"} => orders[id].agreed
    BY EachTracked DEF Tracked, Drafted
  <2>3. /\ orders'[id].status = orders[id].status /\ orders'[id].agreed = orders[id].agreed
        /\ DOMAIN orders'[id] = DOMAIN orders[id]
        /\ orders'[id].passed \in Nat /\ orders'[id].passed > orders[id].passed
    BY <2>1, <2>2 DEF RuleBefore
  <2> QED BY <2>2, <2>3 DEF Follows, Lapsed, Drafted, AcceptBefore
<1>3. \A other \in DOMAIN orders : Follows(orders[other], orders'[other])
  BY <1>1, <1>2, Unchanging
<1> QED BY <1>1, <1>3, InPlace

\* A new generation of an order whose newest one is past acceptance or hidden.
LEMMA DraftTracks ==
  ASSUME TermsTracked, NEW key, NEW generation \in Nat, NewDraft(key, generation),
         misread \subseteq misread',
         \A id \in Generations(key) :
            id[2] < generation /\ (id = Current(key) => id \in misread' \/ Lapsed(orders[id]))
  PROVE  TermsTracked'
<1> DEFINE new == <<key, generation>>
<1>1. /\ DOMAIN orders' = DOMAIN orders \cup {new}
      /\ orders'[new] = Drafted
      /\ \A id \in DOMAIN orders : id # new => orders'[id] = orders[id]
  BY DEF NewDraft
<1>2. new \notin DOMAIN orders
  BY DEF Generations
<1>3. \A id \in DOMAIN orders : id = <<id[1], id[2]>> /\ id[2] \in Nat /\ Tracked(id)
  BY EachTracked DEF Tracked
<1>4. Generations(key)' = Generations(key) \cup {new}
  BY <1>1 DEF Generations
<1>5. \A other : other # key => Generations(other)' = Generations(other)
  BY <1>1 DEF Generations
<1>6. Current(key)' = new
  <2>1. new \in Generations(key)' /\ \A id \in Generations(key)' : id[2] <= new[2]
    BY <1>4, <1>3 DEF Generations
  <2>2. ASSUME NEW top \in Generations(key)', \A id \in Generations(key)' : id[2] <= top[2]
        PROVE  top = new
    BY <2>1, <2>2, <1>3, <1>4 DEF Generations
  <2> QED BY <2>1, <2>2 DEF Current
<1>7. \A other : other # key => Current(other)' = Current(other)
  BY <1>1, <1>5 DEF Current
<1>8. ASSUME NEW id \in DOMAIN orders PROVE Tracked(id)'
  <2>1. Tracked(id) /\ orders'[id] = orders[id]
    BY <1>1, <1>2, <1>3
  <2>2. \E top \in Generations(id[1])' : \A other \in Generations(id[1])' : other[2] <= top[2]
    <3>1. CASE id[1] # key
      BY <3>1, <2>1, <1>5 DEF Tracked
    <3>2. CASE id[1] = key
      <4>1. \A other \in Generations(key)' : other[2] <= new[2]
        BY <1>3, <1>4 DEF Generations
      <4> QED BY <3>2, <4>1, <1>4
    <3> QED BY <3>1, <3>2
  <2>3. id = Current(id[1])' \/ id \in misread' \/ Lapsed(orders'[id])
    <3>1. CASE id[1] # key
      BY <3>1, <2>1, <1>7 DEF Tracked
    <3>2. CASE id[1] = key
      <4>1. id \in Generations(key)
        BY <3>2 DEF Generations
      <4>2. id = Current(key) \/ id \in misread \/ Lapsed(orders[id])
        BY <2>1, <3>2 DEF Tracked
      <4> QED BY <4>1, <4>2, <2>1
    <3> QED BY <3>1, <3>2
  <2> QED BY <2>1, <2>2, <2>3 DEF Tracked
<1>9. Tracked(new)'
  <2>1. \E top \in Generations(new[1])' : \A other \in Generations(new[1])' : other[2] <= top[2]
    <3>1. new \in Generations(key)' /\ \A other \in Generations(key)' : other[2] <= new[2]
      BY <1>3, <1>4 DEF Generations
    <3> QED BY <3>1
  <2>2. new = Current(new[1])'
    BY <1>6
  <2>3. /\ Drafted.status = "drafted" /\ Drafted.passed = 0
    BY DEF Drafted
  <2> QED BY <2>1, <2>2, <2>3, <1>1 DEF Tracked
<1> QED BY <1>1, <1>8, <1>9, EachTracked DEF TermsTracked, Tracked

-----------------------------------------------------------------------------
(* Where the process is in its program. *)

LEMMA ProgramLength ==
  ASSUME script \in Scripts
  PROVE  Len(Program) \in Nat
BY RefreshAssumption DEF Program

\* The step that a process goes on to (report.stages).
LEMMA FollowingStep ==
  ASSUME NEW steps \in Nat, steps = Len(Program), NEW pc \in 0 .. steps, NEW stages
  PROVE  LET next == Following(pc, stages)
         IN  /\ next \in pc + 1 .. steps + 1
             /\ next <= steps => Program[next].stage \notin stages
             /\ \A i \in pc + 1 .. next - 1 : i <= steps /\ Program[i].stage \in stages
<1> DEFINE Unmarked(i) == i > steps \/ Program[i].stage \notin stages
           Candidates == {i \in pc + 1 .. steps + 1 : Unmarked(i)}
           next == Following(pc, stages)
<1>1. next = CHOOSE n \in Candidates : \A m \in Candidates : n =< m
  BY DEF Following, Min
<1>2. Candidates \subseteq Nat /\ steps + 1 \in Candidates
  OBVIOUS
<1>3. \E n \in Candidates : \A m \in Candidates : n <= m
  BY <1>2, LeastNatural
<1>4. next \in Candidates /\ \A m \in Candidates : next <= m
  BY <1>1, <1>3
<1>5. ASSUME NEW i \in pc + 1 .. next - 1
      PROVE  i <= steps /\ Program[i].stage \in stages
  <2>1. i \in pc + 1 .. steps + 1 /\ i < next
    BY <1>4
  <2>2. i \notin Candidates
    BY <1>2, <1>4, <2>1
  <2> QED BY <2>1, <2>2
<1> QED BY <1>4, <1>5

\* Terms once drafted are there for ever.
Grows == DOMAIN orders \subseteq DOMAIN orders'

\* The process goes on from pc, having drafted what its steps up to pc draft.
LEMMA GoesOn ==
  ASSUME script \in Scripts, Drafting, Grows, UNCHANGED script,
         NEW pc \in 0 .. Len(Program),
         process' = [at |-> "step", pc |-> Following(pc, report'.stages), hash |-> 0],
         report.stages \subseteq report'.stages, "always" \notin report'.stages,
         "stages" \in DOMAIN report',
         pc > 0 => process.at # "stopped" /\ pc = process.pc,
         pc > 0 /\ This.do = "draft" => \E id \in DOMAIN orders' : id[1] = This.key
  PROVE  Drafting'
<1> DEFINE next == Following(pc, report'.stages)
<1>1. Len(Program) \in Nat /\ Program' = Program
  BY ProgramLength DEF Program
<1>2. /\ next \in pc + 1 .. Len(Program) + 1
      /\ next <= Len(Program) => Program[next].stage \notin report'.stages
      /\ \A i \in pc + 1 .. next - 1 : i <= Len(Program) /\ Program[i].stage \in report'.stages
  BY <1>1, FollowingStep
<1>3. process'.at = "step" /\ process'.pc = next
  OBVIOUS
<1>4. ASSUME NEW i \in 1 .. next - 1,
             Program[i].do = "draft", Program[i].stage \notin report'.stages
      PROVE  Generations(Program[i].key)' # {}
  <2>1. i <= pc
    BY <1>1, <1>2, <1>4
  <2>2. pc > 0 /\ process.at # "stopped" /\ pc = process.pc
    BY <2>1
  <2>3. CASE i = pc
    BY <1>1, <1>4, <2>2, <2>3 DEF This, Generations
  <2>4. CASE i # pc
    <3>1. i \in 1 .. process.pc - 1
      BY <2>1, <2>2, <2>4
    <3>2. Generations(Program[i].key) # {}
      BY <3>1, <2>2, <1>4 DEF Drafting
    <3> QED BY <1>1, <3>2 DEF Grows, Generations
  <2> QED BY <2>3, <2>4
<1> HIDE DEF next
<1>5. next \in 1 .. Len(Program) + 1
  BY <1>1, <1>2
<1>6. process'.pc <= Len(Program)' => This'.stage \notin report'.stages
  BY <1>1, <1>2, <1>3 DEF This
<1> QED BY <1>1, <1>3, <1>4, <1>5, <1>6 DEF Drafting

\* The process stays where it is, or ends.
LEMMA StaysPut ==
  ASSUME script \in Scripts, Drafting, Grows, UNCHANGED script,
         report'.stages = report.stages,
         DOMAIN process' = {"at", "pc", "hash"}, "stages" \in DOMAIN report',
         process'.at \in {"stopped", "step", "journal", "wait"},
         \/ process'.pc = process.pc /\ (process.at = "stopped" => process'.at = "stopped")
         \/ process' = Stopped,
         process'.at \in {"journal", "wait"} =>
            process.pc <= Len(Program) /\ This.do \in {"safe", "direct", "target", "refresh"}
  PROVE  Drafting'
<1>1. Len(Program) \in Nat /\ Program' = Program
  BY ProgramLength DEF Program
<1>2. CASE process' = Stopped
  BY <1>1, <1>2 DEF Stopped, Drafting
<1>3. CASE process'.pc = process.pc /\ (process.at = "stopped" => process'.at = "stopped")
  <2>1. This' = This
    BY <1>1, <1>3 DEF This
  <2>2. process'.at # "stopped" =>
          \A i \in 1 .. process.pc - 1 :
              Program[i].do = "draft" /\ Program[i].stage \notin report.stages
                  => Generations(Program[i].key)' # {}
    BY <1>1, <1>3 DEF Drafting, Grows, Generations
  <2> QED BY <1>1, <1>3, <2>1, <2>2 DEF Drafting
<1> QED BY <1>2, <1>3

-----------------------------------------------------------------------------
(* Every step *)

\* A refresh looks at terms that were drafted before it.
LEMMA RefreshHasTerms ==
  ASSUME OffersInv, At("refresh")
  PROVE  Current(This.key) \in DOMAIN orders /\ Current(This.key)[1] = This.key
<1>1. process.at = "step" /\ process.pc \in 1 .. Len(Program) /\ This.do = "refresh"
  <2>1. Len(Program) \in Nat
    BY ProgramLength DEF OffersInv
  <2> QED BY <2>1 DEF At, AtStep, OffersInv, Drafting, This
<1>2. PICK j \in 1 .. process.pc - 1 :
         /\ Program[j].do = "draft" /\ Program[j].key = This.key
         /\ Program[j].stage \in {"always", This.stage}
  BY <1>1, RefreshAssumption DEF Program, This, OffersInv
<1>3. Program[j].stage \notin report.stages
  <2>1. This.stage \notin report.stages /\ "always" \notin report.stages
    BY <1>1 DEF OffersInv, Drafting
  <2> QED BY <1>2, <2>1
<1>4. Generations(This.key) # {}
  BY <1>1, <1>2, <1>3 DEF OffersInv, Drafting
<1>5. PICK id \in DOMAIN orders : id[1] = This.key
  BY <1>4 DEF Generations
<1>6. Current(This.key) \in Generations(This.key)
  BY <1>5, CurrentIsNewest DEF OffersInv
<1> QED BY <1>6 DEF Generations

\* The process continues behind its step, which drafted what it drafts.
LEMMA ProceedDrafts ==
  ASSUME OffersInv, Grows, UNCHANGED script,
         "stages" \in DOMAIN report', report'.stages = report.stages,
         process.at # "stopped", process.pc <= Len(Program), Proceed,
         This.do = "draft" => \E id \in DOMAIN orders' : id[1] = This.key
  PROVE  Drafting'
<1>1. Len(Program) \in Nat
  BY ProgramLength DEF OffersInv
<1>2. process.pc \in 0 .. Len(Program)
  BY <1>1 DEF OffersInv, Drafting
<1>3. process' = [at |-> "step", pc |-> Following(process.pc, report'.stages), hash |-> 0]
  BY DEF Proceed, Goto
<1>4. "always" \notin report'.stages
  BY DEF OffersInv, Drafting
<1>5. script \in Scripts /\ Drafting
  BY DEF OffersInv
<1> QED BY <1>2, <1>3, <1>4, <1>5, GoesOn

\* The process starts from the top.
LEMMA RestartDrafts ==
  ASSUME OffersInv, Grows, UNCHANGED script,
         "stages" \in DOMAIN report', report'.stages = report.stages,
         Goto(Following(0, report.stages))
  PROVE  Drafting'
<1>1. Len(Program) \in Nat /\ 0 \in 0 .. Len(Program)
  BY ProgramLength DEF OffersInv
<1>2. process' = [at |-> "step", pc |-> Following(0, report'.stages), hash |-> 0]
  BY DEF Goto
<1>3. script \in Scripts /\ Drafting /\ "always" \notin report'.stages
  BY DEF OffersInv, Drafting
<1> QED BY <1>1, <1>2, <1>3, GoesOn

\* Nothing about the terms changes, nor where the process is.
LEMMA ChainsMove ==
  ASSUME OffersInv, DOMAIN orders' = DOMAIN orders,
         UNCHANGED <<script, process>>,
         "stages" \in DOMAIN report', report'.stages = report.stages
  PROVE  Drafting'
<1>1. /\ script \in Scripts /\ Drafting /\ Grows
      /\ process'.at \in {"stopped", "step", "journal", "wait"}
      /\ process'.at \in {"journal", "wait"} =>
            process.pc <= Len(Program) /\ This.do \in {"safe", "direct", "target", "refresh"}
  BY DEF OffersInv, Drafting, Grows
<1>2. DOMAIN process' = {"at", "pc", "hash"}
  BY DEF OffersInv, Drafting
<1> QED BY <1>1, <1>2, StaysPut

\* The process ends (End, Dies).
LEMMA Stops ==
  ASSUME OffersInv, DOMAIN orders' = DOMAIN orders, UNCHANGED script,
         "stages" \in DOMAIN report', report'.stages = report.stages, process' = Stopped
  PROVE  Drafting'
<1>1. script \in Scripts /\ Drafting /\ Grows
  BY DEF OffersInv, Grows
<1>2. DOMAIN process' = {"at", "pc", "hash"} /\ process'.at = "stopped"
  BY DEF Stopped
<1> QED BY <1>1, <1>2, StaysPut

\* A transaction is sent, journaled or waited for.
LEMMA Waits ==
  ASSUME OffersInv, UNCHANGED <<orders, script>>,
         "stages" \in DOMAIN report', report'.stages = report.stages,
         process.at # "stopped", process.pc <= Len(Program),
         This.do \in {"safe", "direct", "target", "refresh"},
         NEW at \in {"journal", "wait"}, NEW hash,
         process' = [process EXCEPT !.at = at, !.hash = hash]
  PROVE  Drafting'
<1>1. script \in Scripts /\ Drafting /\ Grows /\ DOMAIN process = {"at", "pc", "hash"}
  BY DEF OffersInv, Drafting, Grows
<1>2. DOMAIN process' = {"at", "pc", "hash"} /\ process'.at = at /\ process'.pc = process.pc
  BY <1>1
<1> QED BY <1>1, <1>2, StaysPut

LEMMA StepsOnly ==
  ASSUME OffersInv
  PROVE  /\ script \in Scripts /\ Drafting /\ TermsTracked
         /\ "stages" \in DOMAIN report
         /\ \A do : AtStep(do) => process.at = "step" /\ process.pc <= Len(Program) /\ This.do = do
BY DEF OffersInv, Drafting, AtStep, This

LEMMA ContinueKeeps ==
  ASSUME OffersInv, NEW do, do # "draft", AtStep(do), Continue \/ End
  PROVE  OffersInv'
<1>1. UNCHANGED <<orders, script, report, misread>>
  BY DEF Continue, End, chainVars, historyVars
<1>2. TermsTracked' /\ script' \in Scripts /\ Grows
  BY <1>1, SameOrders, StepsOnly DEF Grows
<1>3. CASE Continue
  <2>1. Proceed
    BY <1>3 DEF Continue
  <2>2. process.at # "stopped" /\ process.pc <= Len(Program) /\ This.do # "draft"
    BY StepsOnly
  <2>3. Drafting'
    BY <1>1, <1>2, <2>1, <2>2, StepsOnly, ProceedDrafts
  <2> QED BY <1>2, <2>3 DEF OffersInv
<1>4. CASE End
  BY <1>1, <1>2, <1>4, Stops, StepsOnly DEF OffersInv, End
<1> QED BY <1>3, <1>4

LEMMA SubmitKeeps ==
  ASSUME OffersInv, process.at = "step", process.pc <= Len(Program),
         This.do \in {"safe", "direct", "target", "refresh"},
         NEW at \in {"journal", "wait"}, Submit(This, at)
  PROVE  OffersInv'
<1>1. /\ UNCHANGED <<orders, script, report, misread>>
      /\ process' = [process EXCEPT !.at = at, !.hash = Len(sent')]
  BY DEF Submit, historyVars
<1>2. Drafting'
  BY <1>1, StepsOnly, Waits
<1> QED BY <1>1, <1>2, SameOrders, StepsOnly DEF OffersInv

LEMMA StartKeeps == OffersInv /\ StartFresh => OffersInv'
<1> SUFFICES ASSUME OffersInv, StartFresh PROVE OffersInv'
  OBVIOUS
<1>1. UNCHANGED <<orders, script, report, misread>> /\ Goto(Following(0, report.stages))
  BY DEF StartFresh, chainVars, historyVars
<1>2. Drafting'
  BY <1>1, StepsOnly, RestartDrafts DEF Grows
<1> QED BY <1>1, <1>2, SameOrders, StepsOnly DEF OffersInv

LEMMA RecoverKeeps == OffersInv /\ Recover => OffersInv'
<1> SUFFICES ASSUME OffersInv, Recover PROVE OffersInv'
  OBVIOUS
<1>1. UNCHANGED <<orders, script, misread>>
  BY DEF Recover, Recovered, FoundFailed, chainVars, historyVars
<1>2. report' \in {RecordedNow(report.pending), FailedNow(report.pending)}
  BY DEF Recover, Recovered, FoundFailed
<1>3. "stages" \in DOMAIN report' /\ report'.stages = report.stages
  BY <1>2, StepsOnly DEF RecordedNow, FailedNow
<1>4. Goto(Following(0, report.stages)) \/ UNCHANGED process
  BY DEF Recover, Recovered, FoundFailed
<1>5. Drafting'
  BY <1>1, <1>3, <1>4, RestartDrafts, ChainsMove DEF Grows
<1> QED BY <1>1, <1>5, SameOrders, StepsOnly DEF OffersInv

LEMMA CallKeeps == OffersInv /\ Call => OffersInv'
<1> SUFFICES ASSUME OffersInv, Call PROVE OffersInv'
  OBVIOUS
<1>1. /\ process.at = "step" /\ process.pc <= Len(Program)
      /\ This.do \in {"safe", "direct", "target"} /\ AtStep(This.do)
  BY DEF Call, AtStep, This
<1>2. Continue \/ End \/ \E at \in {"journal", "wait"} : Submit(This, at)
  BY DEF Call
<1> QED BY <1>1, <1>2, ContinueKeeps, SubmitKeeps

LEMMA JournalKeeps == OffersInv /\ Journal => OffersInv'
<1> SUFFICES ASSUME OffersInv, Journal PROVE OffersInv'
  OBVIOUS
<1>1. UNCHANGED <<orders, script, misread>>
  BY DEF Journal, chainVars, historyVars
<1>2. "stages" \in DOMAIN report' /\ report'.stages = report.stages
  BY StepsOnly DEF Journal
<1>3. /\ process.at = "journal" /\ process.pc <= Len(Program)
      /\ This.do \in {"safe", "direct", "target", "refresh"}
      /\ DOMAIN process = {"at", "pc", "hash"}
  BY DEF Journal, OffersInv, Drafting
<1>4. process' = [process EXCEPT !.at = "wait"]
  BY DEF Journal
<1>5. /\ DOMAIN process' = {"at", "pc", "hash"}
      /\ process'.at = "wait" /\ process'.pc = process.pc
  BY <1>3, <1>4
<1>6. Drafting'
  BY <1>1, <1>2, <1>3, <1>5, StepsOnly, StaysPut DEF Grows
<1> QED BY <1>1, <1>6, SameOrders, StepsOnly DEF OffersInv

LEMMA ReceiveKeeps == OffersInv /\ Receive => OffersInv'
<1> SUFFICES ASSUME OffersInv, Receive PROVE OffersInv'
  OBVIOUS
<1>1. UNCHANGED <<orders, script, misread>> /\ Grows
  BY DEF Receive, chainVars, historyVars, Grows
<1>2. "stages" \in DOMAIN report' /\ report'.stages = report.stages
  <2>1. \/ report' = RecordedNow(process.hash) \/ report' = FailedNow(process.hash)
        \/ report' = report
    BY DEF Receive
  <2> QED BY <2>1, StepsOnly DEF RecordedNow, FailedNow
<1>3. /\ process.at = "wait" /\ process.pc <= Len(Program) /\ process.pc \in 1 .. Len(Program) + 1
      /\ This.do \in {"safe", "direct", "target", "refresh"}
  BY DEF Receive, OffersInv, Drafting
<1>4. CASE Proceed
  BY <1>1, <1>2, <1>3, <1>4, ProceedDrafts, SameOrders, StepsOnly DEF OffersInv
<1>5. CASE process' = Stopped
  BY <1>1, <1>2, <1>5, Stops, SameOrders, StepsOnly DEF OffersInv
<1>6. CASE Goto(process.pc)
  <2>1. process' = [at |-> "step", pc |-> process.pc, hash |-> 0]
    BY <1>6 DEF Goto
  <2>2. Drafting'
    BY <1>1, <1>2, <1>3, <2>1, StepsOnly, StaysPut
  <2> QED BY <1>1, <2>2, SameOrders, StepsOnly DEF OffersInv
<1> QED BY <1>4, <1>5, <1>6 DEF Receive

\* A process that dies leaves the report as it is.
LEMMA DyingKeeps == OffersInv /\ Dies => OffersInv'
<1> SUFFICES ASSUME OffersInv, Dies PROVE OffersInv'
  OBVIOUS
<1>1. UNCHANGED <<orders, script, report, misread>> /\ process' = Stopped
  BY DEF Dies, chainVars
<1> QED BY <1>1, Stops, SameOrders, StepsOnly DEF OffersInv

LEMMA SaveDraftKeeps == OffersInv /\ SaveDraft => OffersInv'
<1> SUFFICES ASSUME OffersInv, SaveDraft PROVE OffersInv'
  OBVIOUS
<1>1. process.at = "step" /\ process.pc <= Len(Program)
  BY StepsOnly DEF SaveDraft, At
<1>2. Proceed /\ UNCHANGED <<script, report, misread>>
  BY DEF SaveDraft, Continue, historyVars
<1>3. CASE Generations(This.key) # {}
  <2>1. UNCHANGED orders /\ Grows
    BY <1>3 DEF SaveDraft, Continue, chainVars, Grows
  <2>2. \E id \in DOMAIN orders' : id[1] = This.key
    BY <1>3, <2>1 DEF Generations
  <2>3. Drafting'
    BY <1>1, <1>2, <2>1, <2>2, StepsOnly, ProceedDrafts
  <2> QED BY <1>2, <2>1, <2>3, SameOrders, StepsOnly DEF OffersInv
<1>4. CASE Generations(This.key) = {}
  <2>1. NewDraft(This.key, 1)
    BY <1>4 DEF SaveDraft
  <2>2. DOMAIN orders' = {<<This.key, 1>>} \cup DOMAIN orders
    BY <2>1 DEF NewDraft
  <2>3. Grows /\ \E id \in DOMAIN orders' : id[1] = This.key
    <3>1. <<This.key, 1>> \in DOMAIN orders' /\ <<This.key, 1>>[1] = This.key
      BY <2>2
    <3>2. Grows
      BY <2>2 DEF Grows
    <3> QED BY <3>1, <3>2
  <2>4. Drafting'
    BY <1>1, <1>2, <2>3, StepsOnly, ProceedDrafts
  <2>5. TermsTracked'
    BY <1>2, <1>4, <2>1, StepsOnly, DraftTracks
  <2> QED BY <1>2, <2>4, <2>5, StepsOnly DEF OffersInv
<1> QED BY <1>3, <1>4

\* The newest generation is replaced by the next.
LEMMA ReplacingKeeps ==
  ASSUME OffersInv, At("refresh"), NEW id, id = Current(This.key),
         NewDraft(id[1], id[2] + 1), Proceed, UNCHANGED <<script, report>>,
         misread \subseteq misread', id \in misread' \/ Lapsed(orders[id])
  PROVE  OffersInv'
<1>1. id \in DOMAIN orders /\ id[1] = This.key
  BY RefreshHasTerms
<1>2. id = <<id[1], id[2]>> /\ id[2] \in Nat
  BY <1>1, StepsOnly, EachTracked DEF Tracked
<1>3. \A other \in Generations(id[1]) : other[2] <= id[2] /\ other[2] \in Nat
  <2>1. \A other \in Generations(id[1]) : other[2] <= id[2]
    BY <1>1, StepsOnly, CurrentIsNewest
  <2>2. \A other \in DOMAIN orders : other[2] \in Nat
    BY StepsOnly, EachTracked DEF Tracked
  <2> QED BY <2>1, <2>2 DEF Generations
<1>4. TermsTracked'
  <2>1. id = Current(id[1]) /\ id[2] + 1 \in Nat
    BY <1>1, <1>2
  <2>2. \A other \in Generations(id[1]) : other[2] < id[2] + 1
    BY <1>2, <1>3
  <2> QED BY <2>1, <2>2, StepsOnly, DraftTracks
<1>5. DOMAIN orders' = {<<id[1], id[2] + 1>>} \cup DOMAIN orders
  BY DEF NewDraft
<1>6. Drafting'
  <2>1. Grows /\ process.at # "stopped" /\ process.pc <= Len(Program) /\ This.do # "draft"
    BY <1>5, StepsOnly DEF Grows, At
  <2> QED BY <2>1, StepsOnly, ProceedDrafts
<1> QED BY <1>4, <1>6, StepsOnly DEF OffersInv

LEMMA RefreshKeeps == OffersInv /\ RefreshExpiredOffer => OffersInv'
<1> SUFFICES ASSUME OffersInv, RefreshExpiredOffer PROVE OffersInv'
  OBVIOUS
<1> DEFINE id == Current(This.key)
           order == orders[id]
<1>1. /\ process.at = "step" /\ process.pc <= Len(Program)
      /\ This.do = "refresh" /\ AtStep("refresh")
  BY StepsOnly DEF RefreshExpiredOffer, At
<1>2. CASE Continue
  BY <1>1, <1>2, ContinueKeeps
<1>3. CASE Submit(This, "journal")
  BY <1>1, <1>3, SubmitKeeps
<1>4. CASE /\ ~ (order.agreed \/ (order.status # "final" /\ order.passed < AcceptBefore))
           /\ order.status # "offered"
           /\ Replace(id) /\ misread' = misread
  <2>1. id \in DOMAIN orders
    BY <1>1, RefreshHasTerms DEF At
  <2>2. Tracked(id)
    BY <2>1, StepsOnly, EachTracked
  <2>3. Lapsed(order)
    BY <1>4, <2>2 DEF Tracked, Lapsed, AcceptBefore
  <2>4. NewDraft(id[1], id[2] + 1) /\ Proceed /\ UNCHANGED <<script, report>>
    BY <1>4 DEF Replace
  <2> QED BY <1>1, <1>4, <2>3, <2>4, ReplacingKeeps DEF At
<1> QED BY <1>2, <1>3, <1>4 DEF RefreshExpiredOffer

LEMMA MisreadingKeeps == OffersInv /\ RefreshMisreading => OffersInv'
<1> SUFFICES ASSUME OffersInv, RefreshMisreading PROVE OffersInv'
  OBVIOUS
<1> DEFINE id == Current(This.key)
<1>1. /\ At("refresh") /\ NewDraft(id[1], id[2] + 1) /\ Proceed
      /\ misread' = misread \cup {id} /\ UNCHANGED <<script, report>>
  BY DEF RefreshMisreading
<1> QED BY <1>1, ReplacingKeeps

LEMMA WaitingKeeps ==
  OffersInv /\ (WaitForBlock \/ PauseUntil \/ Check \/ NeedReceipt) => OffersInv'
<1>1. WaitForBlock => AtStep("await") /\ Continue
  BY DEF WaitForBlock, At
<1>2. PauseUntil => AtStep("pause") /\ (Continue \/ End)
  BY DEF PauseUntil, At
<1>3. Check => AtStep("check") /\ (Continue \/ End)
  BY DEF Check, At
<1>4. NeedReceipt => AtStep("receipt") /\ (Continue \/ End)
  BY DEF NeedReceipt, At
<1> QED BY <1>1, <1>2, <1>3, <1>4, ContinueKeeps

\* The report is written and the process goes on.
LEMMA NotedKeeps ==
  ASSUME OffersInv, NEW do, do # "draft", AtStep(do), Proceed,
         UNCHANGED <<orders, script, misread>>,
         "stages" \in DOMAIN report', report'.stages = report.stages
  PROVE  OffersInv'
<1>1. Drafting'
  BY StepsOnly, ProceedDrafts DEF Grows
<1> QED BY <1>1, SameOrders, StepsOnly DEF OffersInv

LEMMA QueueKeeps == OffersInv /\ (QueueApproval \/ SeeRefusal \/ SignSettlement) => OffersInv'
<1>1. ASSUME OffersInv, QueueApproval PROVE OffersInv'
  <2>1. "stages" \in DOMAIN report' /\ report'.stages = report.stages
    BY <1>1, StepsOnly DEF QueueApproval
  <2>2. AtStep("queue") /\ Proceed /\ UNCHANGED <<orders, script, misread>>
    BY <1>1 DEF QueueApproval, At, chainVars, historyVars
  <2> QED BY <1>1, <2>1, <2>2, NotedKeeps
<1>2. ASSUME OffersInv, SeeRefusal PROVE OffersInv'
  <2>1. AtStep("refused")
    BY <1>2 DEF SeeRefusal, At
  <2>2. CASE Continue \/ End
    BY <1>2, <2>1, <2>2, ContinueKeeps
  <2>3. CASE report' = [report EXCEPT !.refused = TRUE] /\ Proceed /\ UNCHANGED <<chainVars, historyVars>>
    <3>1. "stages" \in DOMAIN report' /\ report'.stages = report.stages
      BY <1>2, <2>3, StepsOnly
    <3>2. UNCHANGED <<orders, script, misread>>
      BY <2>3 DEF chainVars, historyVars
    <3> QED BY <1>2, <2>1, <2>3, <3>1, <3>2, NotedKeeps
  <2> QED BY <1>2, <2>2, <2>3 DEF SeeRefusal
<1>3. ASSUME OffersInv, SignSettlement PROVE OffersInv'
  <2>1. AtStep("sign")
    BY <1>3 DEF SignSettlement, At
  <2>2. CASE Continue \/ End
    BY <1>3, <2>1, <2>2, ContinueKeeps
  <2>3. CASE report' = [report EXCEPT !.signed = TRUE] /\ Proceed /\ UNCHANGED <<chainVars, historyVars>>
    <3>1. "stages" \in DOMAIN report' /\ report'.stages = report.stages
      BY <1>3, <2>3, StepsOnly
    <3>2. UNCHANGED <<orders, script, misread>>
      BY <2>3 DEF chainVars, historyVars
    <3> QED BY <1>3, <2>1, <2>3, <3>1, <3>2, NotedKeeps
  <2> QED BY <1>3, <2>2, <2>3 DEF SignSettlement
<1> QED BY <1>1, <1>2, <1>3

LEMMA MarkKeeps == OffersInv /\ MarkStage => OffersInv'
<1> SUFFICES ASSUME OffersInv, MarkStage PROVE OffersInv'
  OBVIOUS
<1>1. /\ process.at = "step" /\ process.pc <= Len(Program) /\ This.do = "mark"
      /\ UNCHANGED <<orders, script, misread>> /\ Grows
  BY StepsOnly DEF MarkStage, At, chainVars, historyVars, Grows
<1>2. Len(Program) \in Nat /\ process.pc \in 1 .. Len(Program)
  BY <1>1, ProgramLength DEF OffersInv, Drafting
<1>3. "stages" \in DOMAIN report' /\ report'.stages = report.stages \cup {This.stage}
  BY StepsOnly DEF MarkStage
<1>4. This.stage # "always"
  BY <1>1, <1>2, RefreshAssumption DEF OffersInv, Program, This
<1>5. "always" \notin report'.stages
  BY <1>3, <1>4 DEF OffersInv, Drafting
<1>6. process' = [at |-> "step", pc |-> Following(process.pc, report'.stages), hash |-> 0]
  BY DEF MarkStage, Goto
<1>7. Drafting'
  <2>1. /\ script \in Scripts /\ Drafting /\ Grows /\ UNCHANGED script
        /\ process.pc \in 0 .. Len(Program) /\ process.at # "stopped" /\ This.do # "draft"
        /\ report.stages \subseteq report'.stages
    BY <1>1, <1>2, <1>3, StepsOnly
  <2> QED BY <2>1, <1>3, <1>5, <1>6, GoesOn
<1> QED BY <1>1, <1>7, SameOrders, StepsOnly DEF OffersInv

LEMMA ExitKeeps == OffersInv /\ Exit => OffersInv'
<1> SUFFICES ASSUME OffersInv, Exit PROVE OffersInv'
  OBVIOUS
<1>1. UNCHANGED <<orders, script, report, misread>> /\ process' = Stopped
  BY DEF Exit, End, chainVars, historyVars
<1> QED BY <1>1, Stops, SameOrders, StepsOnly DEF OffersInv

\* The chains, and what others do on them.
LEMMA OutsideKeeps ==
  ASSUME OffersInv, UNCHANGED <<report, process, script, misread>>,
         \/ UNCHANGED orders
         \/ \E call : Accepts(call) /\ Applied(call)
         \/ \E id \in DOMAIN orders : Pass(id)
  PROVE  OffersInv'
<1>1. DOMAIN orders' = DOMAIN orders
  BY DEF Applied, OrdersAfter, Pass
<1>2. Drafting'
  BY <1>1, StepsOnly, ChainsMove
<1>3. TermsTracked'
  BY StepsOnly, SameOrders, AppliedTracks, PassTracks
<1> QED BY <1>2, <1>3, StepsOnly DEF OffersInv

LEMMA IncludeKeeps ==
  ASSUME OffersInv, NEW h, Include(h)
  PROVE  OffersInv'
<1>1. UNCHANGED <<report, process, script, misread>>
  BY DEF Include, historyVars
<1>2. UNCHANGED orders \/ (Accepts(sent[h]) /\ Applied(sent[h]))
  BY DEF Include
<1> QED BY <1>1, <1>2, OutsideKeeps

LEMMA OffersStart == Init => OffersInv
<1> SUFFICES ASSUME Init PROVE OffersInv
  OBVIOUS
<1>1. script \in Scripts /\ orders = << >> /\ process = Stopped
  BY DEF Init
<1>2. "stages" \in DOMAIN report /\ report.stages = {}
  BY DEF Init
<1>3. Len(Program) \in Nat
  BY <1>1, ProgramLength
<1>4. TermsTracked
  BY <1>1 DEF TermsTracked
<1>5. Drafting
  <2>1. DOMAIN process = {"at", "pc", "hash"} /\ process.at = "stopped" /\ process.pc = 1
    BY <1>1 DEF Stopped
  <2>2. "always" \notin report.stages /\ process.pc \in 1 .. Len(Program) + 1
    BY <1>2, <1>3, <2>1
  <2> QED BY <1>2, <2>1, <2>2 DEF Drafting
<1> QED BY <1>1, <1>4, <1>5 DEF OffersInv

LEMMA StepTracks == OffersInv /\ [Next]_vars => OffersInv'
<1> SUFFICES ASSUME OffersInv, [Next]_vars PROVE OffersInv'
  OBVIOUS
<1>1. CASE Works
  <2>1. Interrupt => Dies
    BY DEF Interrupt
  <2> QED BY <1>1, <2>1, StartKeeps, RecoverKeeps, CallKeeps, JournalKeeps, ReceiveKeeps, DyingKeeps,
             SaveDraftKeeps, RefreshKeeps, WaitingKeeps, QueueKeeps, MarkKeeps, ExitKeeps DEF Works
<1>2. CASE Includes
  BY <1>2, IncludeKeeps DEF Includes
<1>3. CASE Advance
  BY <1>3, OutsideKeeps DEF Advance, historyVars
<1>4. CASE Faults
  <2>1. CASE Crash
    BY <2>1, DyingKeeps DEF Crash
  <2>2. CASE RefreshMisreading
    BY <2>2, MisreadingKeeps
  <2>3. CASE \E h \in DOMAIN sent : Drop(h)
    BY <2>3, OutsideKeeps DEF Drop
  <2>4. CASE \E call \in OthersCalls : OtherActs(call)
    BY <2>4, OutsideKeeps DEF OtherActs
  <2>5. CASE \E id \in DOMAIN orders : Pass(id)
    BY <2>5, OutsideKeeps DEF Pass
  <2>6. CASE PassCutoff
    BY <2>6, OutsideKeeps DEF PassCutoff
  <2> QED BY <1>4, <2>1, <2>2, <2>3, <2>4, <2>5, <2>6 DEF Faults
<1>5. CASE UNCHANGED vars
  BY <1>5, OutsideKeeps DEF vars
<1> QED BY <1>1, <1>2, <1>3, <1>4, <1>5 DEF Next

\* Where the process is and what became of every order's terms, in every state.
THEOREM OffersInvariant == Spec => []OffersInv
<1> QED BY OffersStart, StepTracks, PTL DEF Spec

\* Terms that hold a part of the epoch's budget are the newest of their order,
\* unless a failed lookup hid them (source-demo.ts, refreshExpiredOffer).
THEOREM BudgetIsTracked == Spec => []OffersTracked
<1>1. OffersInv => OffersTracked
  <2> SUFFICES ASSUME OffersInv, NEW id \in DOMAIN orders, Live(orders[id])
               PROVE  id = Current(id[1]) \/ id \in misread
    BY DEF OffersTracked
  <2>1. Tracked(id)
    BY EachTracked, StepsOnly
  <2> QED BY <2>1 DEF Tracked, Lapsed, Live
<1> QED BY <1>1, OffersInvariant, PTL

-----------------------------------------------------------------------------
(* What a call and a process leave behind: the invariant that SentOnce rests on. *)

\* What an accepted call leaves for ever.
Effected(call) ==
    CASE call.fn = "createOffer" -> orders[call.id].status # "drafted"
      [] call.fn = "acceptOffer" -> orders[call.id].agreed
      [] call.fn = "deliver" -> orders[call.id].status \in {"delivered", "challenged", "final"}
      [] call.fn = "challenge" -> orders[call.id].status \in {"challenged", "final"}
      [] call.fn \in {"vote", "voteOther"} -> call.fn \in source.votes
      [] call.fn \in Settling -> orders[call.id].status = "final"
      [] call.fn = "initialize" -> source.phase # "none"
      [] call.fn = "release" -> source.phase # "none" /\ (source.phase = "active" => source.returned > 0)
      [] call.fn = "drain" -> source.phase \in {"draining", "closed"}
      [] call.fn = "sweep" -> source.phase = "closed"
      [] call.fn = "swapOwner" -> "rotated" \in source.facts
      [] call.fn = "fund" -> target.funding # "none"
      [] call.fn = "fundFree" -> "successor" \in target.facts
      [] call.fn \in {"recognize", "recognizeBare"} -> call.key \in target.recognized
      [] call.fn = "withdraw" -> call.key \in target.paid
      [] call.fn = "record" -> "invoice" \in target.facts
      [] call.fn = "refuse" -> FALSE
      [] OTHER -> TRUE

\* A transaction is a call of the program, and what it was accepted for lasts.
FromStep(call, step) ==
    /\ step.do \in Sending
    /\ call = [label |-> step.label, via |-> step.do, fn |-> step.fn, key |-> step.key,
               id |-> call.id, arg |-> step.arg, nonce |-> call.nonce]
    /\ step.key \in Keys => call.id \in DOMAIN orders /\ call.id[1] = step.key
    /\ step.key \notin Keys => call.id = << >>
    /\ call.nonce \in Nat /\ call.nonce <= source.nonce
InHands == process.at \in {"journal", "wait"}
SendsRemembered ==
    /\ sent \in Seq(Range(sent)) /\ outcome \in Seq({"waiting", "ok", "failed", "dropped"})
    /\ Len(outcome) = Len(sent)
    /\ \A g \in DOMAIN sent :
          /\ \E i \in 1 .. Len(Program) : FromStep(sent[g], Program[i])
          /\ outcome[g] = "ok" => Effected(sent[g])
          /\ \/ g \in lost \cup report.recorded \cup {report.pending} \/ outcome[g] = "failed"
             \/ InHands /\ g = process.hash
    /\ \A g \in report.recorded : g \in DOMAIN sent /\ Mined(g)
    /\ report.pending \in {0} \cup DOMAIN sent
    /\ process.at \in {"step", "journal"} => report.pending = 0
    /\ process.at = "wait" => report.pending \in {0, process.hash}
    /\ InHands => /\ process.hash \in DOMAIN sent
                  /\ FromStep(sent[process.hash], This)
                  /\ sent[process.hash].id = IdOf(This)

NoneLive == \A id \in DOMAIN orders : ~ Live(orders[id])

\* The step was gone through, by this process or by one that marked its stage.
Passed(i) ==
    \/ Program[i].stage \in report.stages
    \/ process.at # "stopped" /\ i < process.pc

\* Stages are marked in order, and what the steps behind the process drafted, settled or
\* saw cleared stays so.
StepsPassed ==
    /\ \A stage \in report.stages :
          \E m \in 1 .. Len(Program) : Program[m].do = "mark" /\ Program[m].stage = stage
    /\ \A i, m \in 1 .. Len(Program) :
          Passed(i) /\ m <= i /\ Program[m].do = "mark" => Program[m].stage \in report.stages
    /\ \A i \in 1 .. Len(Program) :
          Passed(i) =>
             /\ Program[i].do = "draft" => Generations(Program[i].key) # {}
             /\ SettlesOrder(Program, i) =>
                   /\ Generations(Program[i].key) # {}
                   /\ OrderOf(Program[i].key).status = "final"
             /\ SeesNoReserve(Program, i) => \A id \in misread : orders[id].status = "final"

\* The script sweeps an epoch that has no live order and takes none any more.
SweepsEmpty ==
    \A g \in DOMAIN sent :
        sent[g].fn = "sweep" => source.phase \in {"draining", "closed"} /\ NoneLive

ChainsTyped ==
    /\ DOMAIN source = {"phase", "returned", "votes", "facts", "nonce", "attested"}
    /\ source.phase \in {"none", "active", "draining", "closed"}
    /\ source.returned \in Int
    /\ source.phase \in {"none", "active"} => source.returned \in Nat
    /\ source.nonce \in Nat
    /\ DOMAIN target = {"funding", "evidence", "recognized", "paid", "free", "refunded", "facts"}
    /\ DOMAIN report = {"stages", "recorded", "failed", "pending", "queued", "refused", "signed"}
    /\ IsFiniteSet(DOMAIN orders)
    /\ \A id \in DOMAIN orders :
          /\ \E i \in 1 .. Len(Program) : Program[i].do = "draft" /\ Program[i].key = id[1]
          /\ orders[id].pay \in Nat
    /\ \A id \in misread : id \in DOMAIN orders /\ orders[id].status # "drafted"
    /\ misread # {} => \E i \in 1 .. Len(Program) : Program[i].do = "refresh"

\* What SentOnce rests on.
SentInv ==
    OffersInv /\ ChainsTyped /\ SendsRemembered /\ StepsPassed /\ SweepsEmpty /\ SentOnce

-----------------------------------------------------------------------------
(* The effects of calls last. *)

\* An order goes on (the contract's functions).
OrderOnward(old, new) ==
    /\ old.status # "drafted" => new.status # "drafted"
    /\ old.agreed => new.agreed
    /\ old.status \in {"delivered", "challenged", "final"}
          => new.status \in {"delivered", "challenged", "final"}
    /\ old.status \in {"challenged", "final"} => new.status \in {"challenged", "final"}
    /\ old.status = "final" => new.status = "final"

OrdersOnward ==
    \A id \in DOMAIN orders : id \in DOMAIN orders' /\ OrderOnward(orders[id], orders'[id])

\* The rest of the source, and the target.
LedgersOnward ==
    /\ source.votes \subseteq source'.votes /\ source.facts \subseteq source'.facts
    /\ source.phase # "none" => source'.phase # "none"
    /\ source.phase \in {"draining", "closed"} => source'.phase \in {"draining", "closed"}
    /\ source.phase = "closed" => source'.phase = "closed"
    /\ source.phase = "active" /\ source'.phase = "active" /\ source.returned > 0
          => source'.returned > 0
    /\ source.nonce <= source'.nonce
    /\ target.funding # "none" => target'.funding # "none"
    /\ target.recognized \subseteq target'.recognized
    /\ target.paid \subseteq target'.paid /\ target.facts \subseteq target'.facts

\* What a call has brought about stays.
LEMMA EffectsLast ==
  ASSUME OrdersOnward, LedgersOnward, ChainsTyped, ChainsTyped',
         NEW call, call.fn \in OrderFns => call.id \in DOMAIN orders, Effected(call)
  PROVE  Effected(call)'
<1>1. CASE call.fn \in OrderFns
  <2>1. OrderOnward(orders[call.id], orders'[call.id])
    BY <1>1 DEF OrdersOnward
  <2> QED BY <1>1, <2>1 DEF Effected, OrderOnward, OrderFns, Settling, LedgersOnward
<1>2. CASE call.fn \in {"initialize", "release", "drain", "sweep"}
  BY <1>2 DEF Effected, LedgersOnward, Settling, ChainsTyped
<1>3. CASE call.fn \notin OrderFns \cup {"initialize", "release", "drain", "sweep"}
  BY <1>3 DEF Effected, LedgersOnward, Settling, OrderFns
<1> QED BY <1>1, <1>2, <1>3

LEMMA OrderTyped ==
  ASSUME TermsTracked, NEW id \in DOMAIN orders
  PROVE  /\ DOMAIN orders[id] = {"status", "agreed", "pay", "passed", "outcome"}
         /\ orders[id].status \in {"drafted", "offered", "agreed", "delivered", "challenged", "final"}
         /\ orders[id].status \in {"agreed", "delivered", "challenged"} => orders[id].agreed
BY EachTracked DEF Tracked, Drafted

\* An accepted call moves its order on; none but createOffer makes one live.
LEMMA CallOrderOnward ==
  ASSUME TermsTracked, NEW call, call.id \in DOMAIN orders, Accepts(call)
  PROVE  LET old == orders[call.id]
             new == OrderAfter(call, old)
         IN  /\ OrderOnward(old, new)
             /\ call.fn # "createOffer" /\ ~ Live(old) => ~ Live(new)
<1> DEFINE old == orders[call.id]
           new == OrderAfter(call, old)
<1>1. /\ DOMAIN old = {"status", "agreed", "pay", "passed", "outcome"}
      /\ old.status \in {"drafted", "offered", "agreed", "delivered", "challenged", "final"}
      /\ old.status \in {"agreed", "delivered", "challenged"} => old.agreed
  BY OrderTyped
<1>2. CASE new = old
  BY <1>2 DEF OrderOnward
<1>3. CASE call.fn = "createOffer"
  <2>1. new = [old EXCEPT !.status = "offered"] /\ old.status = "drafted"
    BY <1>1, <1>3 DEF OrderAfter, Accepts
  <2> QED BY <1>1, <1>3, <2>1 DEF OrderOnward
<1>4. CASE call.fn = "acceptOffer"
  <2>1. new = [old EXCEPT !.status = "agreed", !.agreed = TRUE] /\ old.status = "offered"
    BY <1>1, <1>4 DEF OrderAfter, Accepts
  <2> QED BY <1>1, <2>1 DEF OrderOnward, Live
<1>5. CASE call.fn = "deliver"
  <2>1. new = [old EXCEPT !.status = "delivered"] /\ old.status = "agreed"
    BY <1>1, <1>5 DEF OrderAfter, Accepts
  <2> QED BY <1>1, <2>1 DEF OrderOnward, Live
<1>6. CASE call.fn = "challenge"
  <2>1. new = [old EXCEPT !.status = "challenged"] /\ old.status = "delivered"
    BY <1>1, <1>6 DEF OrderAfter, Accepts
  <2> QED BY <1>1, <2>1 DEF OrderOnward, Live
<1>7. CASE \E pay, how : new = Final(old, pay, how)
  <2>1. PICK pay, how : new = [old EXCEPT !.status = "final", !.pay = pay, !.outcome = how]
    BY <1>7 DEF Final
  <2>2. new.status = "final" /\ new.agreed = old.agreed
    BY <1>1, <2>1
  <2> QED BY <1>1, <2>2 DEF OrderOnward, Live
<1>8. \/ call.fn \in {"createOffer", "acceptOffer", "deliver", "challenge"}
      \/ \E pay, how : new = Final(old, pay, how)
      \/ new = old
  BY DEF OrderAfter
<1> QED BY <1>2, <1>3, <1>4, <1>5, <1>6, <1>7, <1>8

\* The effect on the epoch of an accepted call.
LEMMA CallOnSource ==
  ASSUME ChainsTyped, NEW call, Accepts(call), Applied(call)
  PROVE  LET after == SourceAfter(call)
         IN  /\ DOMAIN after = DOMAIN source /\ DOMAIN source' = DOMAIN source
             /\ source'.phase = IF Closes(after) THEN "closed" ELSE after.phase
             /\ source'.returned = after.returned
             /\ source'.votes = after.votes /\ source'.facts = after.facts
             /\ source'.nonce = IF call.via = "safe" THEN source.nonce + 1 ELSE source.nonce
<1> DEFINE after == SourceAfter(call)
<1>1. DOMAIN source = {"phase", "returned", "votes", "facts", "nonce", "attested"}
  BY DEF ChainsTyped
<1>2. DOMAIN after = DOMAIN source /\ after.nonce = source.nonce
  <2>1. CASE call.fn \in {"initialize", "vote", "voteOther", "release"}
    BY <1>1, <2>1 DEF SourceAfter
  <2>2. CASE call.fn \in {"drain", "sweep", "swapOwner"}
    BY <1>1, <2>2 DEF SourceAfter
  <2>3. CASE call.fn = "expireEpoch"
    <3>1. \/ after = [source EXCEPT !.facts = @ \cup {"expired"}]
          \/ after = [source EXCEPT !.phase = "closed", !.returned = Cap[script]]
      BY <2>3 DEF SourceAfter
    <3> QED BY <1>1, <3>1
  <2>4. after = source \/ call.fn \in {"initialize", "vote", "voteOther", "release", "drain",
                                        "sweep", "expireEpoch", "swapOwner"}
    BY DEF SourceAfter
  <2> QED BY <1>1, <2>1, <2>2, <2>3, <2>4
<1>3. PICK phase : phase = IF Closes(after) THEN "closed" ELSE after.phase
  OBVIOUS
<1>4. source' = [after EXCEPT !.phase = phase, !.nonce = IF call.via = "safe" THEN @ + 1 ELSE @,
                              !.attested = call.via = "target" /\ @]
  BY <1>3 DEF Applied
<1>5. /\ source'.phase = phase /\ source'.returned = after.returned
      /\ source'.votes = after.votes /\ source'.facts = after.facts
      /\ source'.nonce = IF call.via = "safe" THEN source.nonce + 1 ELSE source.nonce
      /\ DOMAIN source' = DOMAIN source
  BY <1>1, <1>2, <1>4
<1> QED BY <1>2, <1>3, <1>5

-----------------------------------------------------------------------------
(* The reserve is a sum over the live orders. *)

LEMMA BudgetIsPositive == \A key \in Keys : Budget[key] \in Nat /\ Budget[key] > 0
BY DEF Keys, Budget

LEMMA NothingReserved == NoneLive => Unresolved = 0
<1> SUFFICES ASSUME NoneLive PROVE Unresolved = 0
  OBVIOUS
<1> DEFINE ids == {id \in DOMAIN orders : Live(orders[id])}
           f == [id \in ids |-> Budget[id[1]]]
<1>1. ids = {}
  BY DEF NoneLive
<1>2. Unresolved = SumFunction(f)
  BY DEF Unresolved, SumOver
<1>3. DOMAIN f = {}
  BY <1>1
<1> QED BY <1>2, <1>3, SumFunctionIsSum, SumEmpty

LEMMA NothingLive ==
  ASSUME IsFiniteSet(DOMAIN orders), \A id \in DOMAIN orders : id[1] \in Keys, Unresolved = 0
  PROVE  NoneLive
<1> DEFINE ids == {id \in DOMAIN orders : Live(orders[id])}
           f == [id \in ids |-> Budget[id[1]]]
<1> SUFFICES ASSUME NEW y \in ids PROVE FALSE
  BY DEF NoneLive
<1>1. IsFiniteSet(ids) /\ DOMAIN f = ids
  BY FS_Subset
<1>2. Unresolved = SumFunctionOnSet(f, ids)
  BY <1>1, SumFunctionIsSum DEF Unresolved, SumOver
<1>3. \A x \in ids : f[x] \in Nat /\ f[x] > 0
  BY BudgetIsPositive
<1>4. f[y] <= SumFunctionOnSet(f, ids)
  BY <1>1, <1>3, SumAtLeast
<1> QED BY <1>2, <1>3, <1>4

-----------------------------------------------------------------------------
(* What an accepted call does. *)

\* What the effect of a call rests on.
WellMade(call) ==
    /\ call.fn \in OrderFns => call.id \in DOMAIN orders
    /\ call.fn = "release" => call.arg \in Nat \ {0}
    /\ call.fn \in {"settle", "voteLast"} => call.arg \in Nat
    /\ call.fn = "createOffer" => call.via = "safe"

LEMMA PricesBounded ==
  \A key \in Keys : /\ Budget[key] \in Nat
                    /\ FullWork[key] \in 0 .. Budget[key] /\ TimeoutWork[key] \in 0 .. Budget[key]
<1>1. Keys = {"a", "b", "c", "declined", "expired", "default", "quorum", "timeout", "mutual",
               "late", "p", "q"}
  BY DEF Keys, Budget
<1>2. \A key \in Keys : Budget[key] \in Nat
  BY BudgetIsPositive
<1>3. \A key \in Keys : FullWork[key] = IF key = "quorum" THEN 3 ELSE IF key = "timeout" THEN 2
                                                                  ELSE Budget[key]
  BY DEF Keys, FullWork
<1>4. \A key \in Keys : TimeoutWork[key] = IF key \in {"quorum", "timeout"} THEN 1 ELSE 0
  BY DEF TimeoutWork
<1>5. Budget["quorum"] = 4 /\ Budget["timeout"] = 3
  BY DEF Budget
<1> QED BY <1>2, <1>3, <1>4, <1>5

\* An order is paid a number of units.
LEMMA CallPays ==
  ASSUME TermsTracked, NEW call, WellMade(call), call.id \in DOMAIN orders, call.id[1] \in Keys,
         orders[call.id].pay \in Nat
  PROVE  OrderAfter(call, orders[call.id]).pay \in Nat
<1> DEFINE old == orders[call.id]
           new == OrderAfter(call, old)
<1>1. DOMAIN old = {"status", "agreed", "pay", "passed", "outcome"}
  BY OrderTyped
<1>2. FullWork[call.id[1]] \in Nat /\ TimeoutWork[call.id[1]] \in Nat
  BY PricesBounded
<1>3. CASE new = old
  BY <1>3
<1>4. CASE call.fn \in {"createOffer", "acceptOffer", "deliver", "challenge"}
  BY <1>1, <1>4 DEF OrderAfter
<1>5. CASE \E pay \in Nat : \E how : new = Final(old, pay, how)
  <2>1. PICK pay \in Nat : \E how : new = Final(old, pay, how)
    BY <1>5
  <2>2. PICK how : new = [old EXCEPT !.status = "final", !.pay = pay, !.outcome = how]
    BY <2>1 DEF Final
  <2> QED BY <1>1, <2>2
<1>6. CASE call.fn \in {"decline", "expire", "approve", "voteLast", "settle"}
  <2>1. CASE call.fn \in {"decline", "expire", "approve"}
    <3>1. \/ new = Final(old, 0, "declined") \/ new = Final(old, 0, "expired")
          \/ new = Final(old, FullWork[call.id[1]], "approved")
      BY <2>1 DEF OrderAfter
    <3> QED BY <1>2, <1>5, <3>1
  <2>2. CASE call.fn \in {"voteLast", "settle"}
    <3>1. new = Final(old, call.arg, "ruled") \/ new = Final(old, call.arg, "settled")
      BY <2>2 DEF OrderAfter
    <3> QED BY <1>5, <2>2, <3>1 DEF WellMade
  <2> QED BY <1>6, <2>1, <2>2
<1>7. CASE call.fn = "finalize"
  <2>1. new = Final(old, Default(call.id)[1], Default(call.id)[2])
    BY <1>7 DEF OrderAfter
  <2>2. Default(call.id)[1] \in {0, FullWork[call.id[1]], TimeoutWork[call.id[1]]}
    BY DEF Default
  <2>3. Default(call.id)[1] \in Nat
    BY <1>2, <2>2
  <2> QED BY <1>5, <2>1, <2>3
<1>8. \/ new = old
      \/ call.fn \in {"createOffer", "acceptOffer", "deliver", "challenge", "decline", "expire",
                       "approve", "voteLast", "settle", "finalize"}
  BY DEF OrderAfter
<1> QED BY <1>3, <1>4, <1>6, <1>7, <1>8

LEMMA CallOrders ==
  ASSUME TermsTracked, NEW call, Accepts(call), Applied(call)
  PROVE  /\ DOMAIN orders' = DOMAIN orders
         /\ OrdersOnward
         /\ call.fn # "createOffer" /\ NoneLive => NoneLive'
         /\ call.id \in DOMAIN orders => orders'[call.id] = OrderAfter(call, orders[call.id])
<1>1. CASE call.id \in DOMAIN orders
  <2>1. orders' = [orders EXCEPT ![call.id] = OrderAfter(call, orders[call.id])]
    BY <1>1 DEF Applied, OrdersAfter
  <2>2. /\ OrderOnward(orders[call.id], orders'[call.id])
        /\ call.fn # "createOffer" /\ ~ Live(orders[call.id]) => ~ Live(orders'[call.id])
    BY <1>1, <2>1, CallOrderOnward
  <2>3. \A id \in DOMAIN orders : id # call.id => orders'[id] = orders[id]
    BY <2>1
  <2>4. \A id \in DOMAIN orders : OrderOnward(orders[id], orders[id])
    BY DEF OrderOnward
  <2> QED BY <1>1, <2>1, <2>2, <2>3, <2>4 DEF OrdersOnward, NoneLive
<1>2. CASE call.id \notin DOMAIN orders
  BY <1>2 DEF Applied, OrdersAfter, OrdersOnward, OrderOnward, NoneLive
<1> QED BY <1>1, <1>2

LEMMA LedgerTyped ==
  ASSUME script \in Scripts, ChainsTyped
  PROVE  /\ Unresolved \in Nat /\ EarnedNow \in Nat /\ Cap[script] \in Nat /\ Available \in Int
         /\ \A id \in DOMAIN orders : id[1] \in Keys
<1>1. \A id \in DOMAIN orders : id[1] \in Keys
  BY CallsAssumption DEF ChainsTyped, Program
<1>2. Unresolved \in Nat
  <2> DEFINE ids == {id \in DOMAIN orders : Live(orders[id])}
             f == [id \in ids |-> Budget[id[1]]]
  <2>1. IsFiniteSet(ids) /\ DOMAIN f = ids
    BY FS_Subset DEF ChainsTyped
  <2>2. Unresolved = SumFunctionOnSet(f, ids)
    BY <2>1, SumFunctionIsSum DEF Unresolved, SumOver
  <2>3. \A x \in ids : f[x] \in Nat
    BY <1>1, BudgetIsPositive
  <2> HIDE DEF ids, f
  <2> QED BY <2>1, <2>2, <2>3, SumIsNatural
<1>3. EarnedNow \in Nat
  <2> DEFINE f == [id \in DOMAIN orders |-> orders[id].pay]
  <2>1. EarnedNow = SumFunctionOnSet(f, DOMAIN orders)
    BY SumFunctionIsSum DEF EarnedNow, SumOver
  <2>2. IsFiniteSet(DOMAIN orders) /\ \A x \in DOMAIN orders : f[x] \in Nat
    BY DEF ChainsTyped
  <2> HIDE DEF f
  <2> QED BY <2>1, <2>2, SumIsNatural
<1>4. Cap[script] \in Nat
  <2>1. script \in {"demo", "branches", "rotation"}
    BY ScriptsAssumption DEF Programs
  <2> QED BY <2>1 DEF Cap
<1>5. Available \in Int
  BY <1>2, <1>3, <1>4 DEF Available, ChainsTyped
<1> QED BY <1>1, <1>2, <1>3, <1>4, <1>5

LEMMA CallLedgers ==
  ASSUME script \in Scripts, ChainsTyped, NEW call, WellMade(call), Accepts(call), Applied(call)
  PROVE  /\ LedgersOnward
         /\ source'.phase \in {"none", "active", "draining", "closed"}
         /\ source'.returned \in Int
         /\ source'.phase \in {"none", "active"} => source'.returned \in Nat
         /\ source'.nonce \in Nat
         /\ call.fn = "createOffer" => source.phase = "active"
         /\ DOMAIN target' = DOMAIN target
<1>1. /\ source.phase \in {"none", "active", "draining", "closed"}
      /\ source.returned \in Int
      /\ source.phase \in {"none", "active"} => source.returned \in Nat
      /\ source.nonce \in Nat
      /\ DOMAIN source = {"phase", "returned", "votes", "facts", "nonce", "attested"}
      /\ DOMAIN target = {"funding", "evidence", "recognized", "paid", "free", "refunded", "facts"}
  BY DEF ChainsTyped
<1> DEFINE after == SourceAfter(call)
<1>2. /\ source'.phase \in {after.phase, "closed"} /\ source'.returned = after.returned
      /\ after.phase = "none" => source'.phase = "none"
      /\ source'.votes = after.votes /\ source'.facts = after.facts
      /\ source'.nonce = IF call.via = "safe" THEN source.nonce + 1 ELSE source.nonce
  BY CallOnSource DEF Closes
<1>3. /\ source.votes \subseteq after.votes /\ source.facts \subseteq after.facts
      /\ after.phase \in {"none", "active", "draining", "closed"}
      /\ after.returned \in Int
      /\ after.phase \in {"none", "active"} => after.returned \in Nat
      /\ source.phase # "none" => after.phase # "none"
      /\ source.phase \in {"draining", "closed"} => after.phase \in {"draining", "closed"}
      /\ source.phase = "closed" => after.phase = "closed"
      /\ source.phase = "active" /\ after.phase = "active" /\ source.returned > 0 => after.returned > 0
  <2>1. CASE call.fn = "initialize"
    BY <1>1, <2>1 DEF SourceAfter, Accepts
  <2>2. CASE call.fn = "release"
    BY <1>1, <2>2 DEF SourceAfter, Accepts, Admitting, WellMade
  <2>3. CASE call.fn = "drain"
    BY <1>1, <2>3 DEF SourceAfter, Accepts
  <2>4. CASE call.fn = "sweep"
    <3>1. source.phase = "draining" /\ Available \in Int
      BY <2>4, LedgerTyped DEF Accepts
    <3>2. after = [source EXCEPT !.returned = @ + Available]
      BY <2>4 DEF SourceAfter
    <3>3. /\ after.phase = "draining" /\ after.returned = source.returned + Available
          /\ after.votes = source.votes /\ after.facts = source.facts
      BY <1>1, <3>1, <3>2
    <3> QED BY <1>1, <3>1, <3>3
  <2>5. CASE call.fn = "expireEpoch"
    <3>1. \/ after = [source EXCEPT !.facts = @ \cup {"expired"}]
          \/ source.phase = "none" /\ after = [source EXCEPT !.phase = "closed", !.returned = Cap[script]]
      BY <2>5 DEF SourceAfter, Accepts
    <3>2. \/ /\ after.phase = source.phase /\ after.returned = source.returned
             /\ after.votes = source.votes /\ source.facts \subseteq after.facts
          \/ /\ source.phase = "none" /\ after.phase = "closed" /\ after.returned = Cap[script]
             /\ after.votes = source.votes /\ source.facts \subseteq after.facts
      BY <1>1, <3>1
    <3> QED BY <1>1, <3>2, LedgerTyped
  <2>8. CASE call.fn \in {"vote", "voteOther", "swapOwner"}
    BY <1>1, <2>8 DEF SourceAfter
  <2>6. CASE after = source
    BY <1>1, <2>6
  <2>7. after = source \/ call.fn \in {"initialize", "vote", "voteOther", "release", "drain",
                                       "sweep", "expireEpoch", "swapOwner"}
    BY DEF SourceAfter
  <2> QED BY <2>1, <2>2, <2>3, <2>4, <2>5, <2>6, <2>7, <2>8
<1>4. call.fn = "createOffer" => source.phase = "active"
  BY DEF Accepts, Admitting
<1>5. /\ DOMAIN target' = DOMAIN target
      /\ target.funding # "none" => target'.funding # "none"
      /\ target.recognized \subseteq target'.recognized
      /\ target.paid \subseteq target'.paid /\ target.facts \subseteq target'.facts
  <2>1. target' = TargetAfter(call)
    BY DEF Applied
  <2>2. CASE call.fn \in {"fund", "authenticate", "import", "withdraw", "record"}
    BY <1>1, <2>1, <2>2 DEF TargetAfter
  <2>3. CASE call.fn \in {"recognize", "recognizeBare"}
    BY <1>1, <2>1, <2>3 DEF TargetAfter
  <2>4. CASE call.fn = "fundFree"
    BY <1>1, <2>1, <2>4 DEF TargetAfter
  <2>5. CASE call.fn = "refund"
    BY <1>1, <2>1, <2>5 DEF TargetAfter
  <2>6. \/ target' = target
        \/ call.fn \in {"fund", "authenticate", "import", "withdraw", "record",
                        "recognize", "recognizeBare", "fundFree", "refund"}
    BY <2>1 DEF TargetAfter
  <2> QED BY <2>2, <2>3, <2>4, <2>5, <2>6
<1> HIDE DEF after
<1>6. source'.nonce \in Nat /\ source.nonce <= source'.nonce
  BY <1>1, <1>2
<1> QED BY <1>2, <1>3, <1>4, <1>5, <1>6 DEF LedgersOnward

\* A sweep of an epoch without live orders returns the rest of the cap, which closes it.
LEMMA SweepCloses ==
  ASSUME script \in Scripts, ChainsTyped, NoneLive,
         NEW call, call.fn = "sweep", Accepts(call), Applied(call)
  PROVE  source'.phase = "closed"
<1> DEFINE after == SourceAfter(call)
           all == orders'
<1>1. \A id \in DOMAIN orders : all[id] = orders[id]
  BY DEF Applied, OrdersAfter, OrderAfter
<1>2. DOMAIN all = DOMAIN orders
  BY DEF Applied, OrdersAfter
<1>3. EarnedNow' = EarnedNow
  <2>1. [id \in DOMAIN all |-> all[id].pay] = [id \in DOMAIN orders |-> orders[id].pay]
    BY <1>1, <1>2
  <2> QED BY <2>1 DEF EarnedNow, SumOver
<1>4. Unresolved' = Unresolved /\ Unresolved = 0
  <2>1. {id \in DOMAIN all : Live(all[id])} = {id \in DOMAIN orders : Live(orders[id])}
    BY <1>1, <1>2
  <2> QED BY <2>1, NothingReserved DEF Unresolved, SumOver
<1>5. source.phase = "draining" /\ after = [source EXCEPT !.returned = @ + Available]
  BY DEF Accepts, SourceAfter
<1>6. after.phase = "draining" /\ after.returned = source.returned + Available
  BY <1>5 DEF ChainsTyped
<1>7. Available = Cap[script] - Unresolved - EarnedNow - source.returned
  BY <1>5 DEF Available
<1>8. EarnedNow' + after.returned = Cap[script]
  <2>1. PICK e, r, c : e = EarnedNow /\ r = source.returned /\ c = Cap[script]
    OBVIOUS
  <2>2. e \in Nat /\ r \in Int /\ c \in Nat
    BY <2>1, LedgerTyped DEF ChainsTyped
  <2>3. Available = c - 0 - e - r
    BY <1>4, <1>7, <2>1
  <2>4. e + (r + Available) = c
    BY <2>2, <2>3
  <2> QED BY <1>3, <1>6, <2>1, <2>4
<1>9. Closes(after)
  BY <1>4, <1>6, <1>8 DEF Closes
<1> QED BY <1>9, CallOnSource

LEMMA CallEffected ==
  ASSUME script \in Scripts, ChainsTyped, TermsTracked,
         NEW call, call.fn = "sweep" => NoneLive, call.fn \in CallFns, WellMade(call), Accepts(call), Applied(call)
  PROVE  Effected(call)'
<1>1. CASE call.fn \in OrderFns \ {"vote", "voteOther"}
  <2> DEFINE old == orders[call.id]
  <2>1. call.id \in DOMAIN orders
    BY <1>1 DEF WellMade
  <2>2. orders'[call.id] = OrderAfter(call, old)
    BY <2>1, CallOrders
  <2>3. DOMAIN old = {"status", "agreed", "pay", "passed", "outcome"}
    BY <2>1, OrderTyped
  <2>4. CASE call.fn \in Settling
    <3>1. \E pay, how : orders'[call.id] = [old EXCEPT !.status = "final", !.pay = pay, !.outcome = how]
      BY <2>2, <2>4 DEF OrderAfter, Settling, Final
    <3>2. orders'[call.id].status = "final"
      BY <2>3, <3>1
    <3> QED BY <2>4, <3>2 DEF Effected, Settling
  <2>5. CASE call.fn \in {"createOffer", "acceptOffer", "deliver", "challenge"}
    <3>1. CASE call.fn = "createOffer"
      <4>1. orders'[call.id] = [old EXCEPT !.status = "offered"]
        BY <2>2, <3>1 DEF OrderAfter
      <4>2. orders'[call.id].status = "offered"
        BY <2>3, <4>1
      <4> QED BY <3>1, <4>2 DEF Effected, Settling
    <3>2. CASE call.fn = "acceptOffer"
      <4>1. orders'[call.id] = [old EXCEPT !.status = "agreed", !.agreed = TRUE]
        BY <2>2, <3>2 DEF OrderAfter
      <4>2. orders'[call.id].agreed
        BY <2>3, <4>1
      <4> QED BY <3>2, <4>2 DEF Effected, Settling
    <3>3. CASE call.fn = "deliver"
      <4>1. orders'[call.id] = [old EXCEPT !.status = "delivered"]
        BY <2>2, <3>3 DEF OrderAfter
      <4>2. orders'[call.id].status = "delivered"
        BY <2>3, <4>1
      <4> QED BY <3>3, <4>2 DEF Effected, Settling
    <3>4. CASE call.fn = "challenge"
      <4>1. orders'[call.id] = [old EXCEPT !.status = "challenged"]
        BY <2>2, <3>4 DEF OrderAfter
      <4>2. orders'[call.id].status = "challenged"
        BY <2>3, <4>1
      <4> QED BY <3>4, <4>2 DEF Effected, Settling
    <3> QED BY <2>5, <3>1, <3>2, <3>3, <3>4
  <2> QED BY <1>1, <2>4, <2>5 DEF OrderFns
<1>2. CASE call.fn \in {"vote", "voteOther", "initialize", "release", "drain", "sweep", "swapOwner"}
  <2>1. /\ source'.phase \in {SourceAfter(call).phase, "closed"}
        /\ source'.returned = SourceAfter(call).returned
        /\ source'.votes = SourceAfter(call).votes /\ source'.facts = SourceAfter(call).facts
    BY CallOnSource
  <2>2. /\ DOMAIN source = {"phase", "returned", "votes", "facts", "nonce", "attested"}
        /\ source.phase \in {"none", "active"} => source.returned \in Nat
    BY DEF ChainsTyped
  <2>3. CASE call.fn = "release"
    BY <2>1, <2>2, <2>3 DEF SourceAfter, Effected, Accepts, Admitting, WellMade, Settling
  <2>4. CASE call.fn = "sweep"
    BY <2>4, SweepCloses DEF Effected, Settling
  <2>5. CASE call.fn \in {"vote", "voteOther", "initialize", "drain", "swapOwner"}
    BY <2>1, <2>2, <2>5 DEF SourceAfter, Effected, Settling
  <2> QED BY <1>2, <2>3, <2>4, <2>5
<1>3. CASE call.fn \in {"fund", "fundFree", "recognize", "recognizeBare", "withdraw", "record"}
  <2>1. target' = TargetAfter(call)
    BY DEF Applied
  <2>2. DOMAIN target = {"funding", "evidence", "recognized", "paid", "free", "refunded", "facts"}
    BY DEF ChainsTyped
  <2> QED BY <1>3, <2>1, <2>2 DEF TargetAfter, Effected, Settling
<1>4. CASE call.fn = "refuse"
  BY <1>4 DEF Accepts
<1>5. CASE call.fn \in {"republish", "expireEpoch", "deploy", "authenticate", "import", "refund"}
  BY <1>5 DEF Effected, Settling
<1> QED BY <1>1, <1>2, <1>3, <1>4, <1>5 DEF CallFns, OrderFns

-----------------------------------------------------------------------------
(* The chains move, and the process does not. *)

\* What happens on the chains outside the process.
ChainsOnward ==
    /\ DOMAIN orders' = DOMAIN orders
    /\ OrdersOnward /\ LedgersOnward /\ ChainsTyped'
    /\ NoneLive /\ source.phase \in {"draining", "closed"} => NoneLive'

\* Any step by which no transaction gets sent and an executed one stays executed.
OutcomesOnward ==
    /\ sent' = sent /\ DOMAIN outcome' = DOMAIN outcome
    /\ outcome' \in Seq({"waiting", "ok", "failed", "dropped"}) /\ Len(outcome') = Len(outcome)
    /\ \A g \in DOMAIN sent :
          \/ outcome'[g] = outcome[g]
          \/ outcome[g] = "waiting" /\ outcome'[g] \in {"ok", "failed", "dropped"}
    /\ \A g \in DOMAIN sent : outcome'[g] = "ok" => outcome[g] = "ok" \/ Effected(sent[g])'

\* A transaction of the program stays one.
LEMMA FromStepLasts ==
  ASSUME OrdersOnward, LedgersOnward, ChainsTyped, ChainsTyped',
         NEW call, NEW step, FromStep(call, step)
  PROVE  FromStep(call, step)'
BY DEF FromStep, OrdersOnward, LedgersOnward, ChainsTyped

LEMMA ProgramCalls ==
  ASSUME script \in Scripts, NEW i \in 1 .. Len(Program)
  PROVE  /\ Program[i].do = "draft" => Program[i].key \in Keys
         /\ Program[i].do \in Sending =>
              /\ Program[i].fn \in CallFns
              /\ Program[i].fn \in OrderFns => Program[i].key \in Keys
              /\ Program[i].key \in Keys =>
                    \E j \in 1 .. i - 1 : Program[j].do = "draft" /\ Program[j].key = Program[i].key
              /\ Program[i].fn = "createOffer" => Program[i].do = "safe"
              /\ Program[i].do = "refresh" => Program[i].fn = "expire"
              /\ Program[i].fn = "release" => Program[i].arg \in Nat \ {0}
              /\ Program[i].fn \in {"settle", "voteLast"} => Program[i].arg \in Nat
              /\ \A j \in 1 .. Len(Program) :
                    Program[j].do \in Sending /\ Program[j].label = Program[i].label
                            /\ Program[j].key = Program[i].key
                        => Kind(Program[j].fn) = Kind(Program[i].fn)
BY CallsAssumption DEF Program

LEMMA CallsWellMade ==
  ASSUME script \in Scripts, NEW i \in 1 .. Len(Program), NEW call, FromStep(call, Program[i])
  PROVE  WellMade(call) /\ call.fn \in CallFns
<1>1. call.fn = Program[i].fn /\ call.via = Program[i].do /\ call.arg = Program[i].arg
  BY DEF FromStep
<1>2. Program[i].do \in Sending
  BY DEF FromStep
<1>3. call.fn \in OrderFns => call.id \in DOMAIN orders
  BY <1>1, <1>2, ProgramCalls DEF FromStep
<1> QED BY <1>1, <1>2, <1>3, ProgramCalls DEF WellMade

LEMMA SendsOutlast ==
  ASSUME script \in Scripts, ChainsTyped, SendsRemembered,
         UNCHANGED <<script, report, process, lost>>, ChainsOnward, OutcomesOnward
  PROVE  SendsRemembered'
<1>1. Program' = Program /\ This' = This /\ IdOf(This)' = IdOf(This)
  <2>1. Program' = Program /\ This' = This
    BY DEF Program, This
  <2>2. \A key : Generations(key)' = Generations(key) /\ Current(key)' = Current(key)
    BY DEF ChainsOnward, Generations, Current
  <2> QED BY <2>1, <2>2 DEF IdOf
<1>2. \A call, step : FromStep(call, step) => FromStep(call, step)'
  BY FromStepLasts DEF ChainsOnward
<1>3. sent' = sent /\ sent' \in Seq(Range(sent')) /\ DOMAIN outcome' = DOMAIN sent
  <2>1. sent' = sent /\ sent \in Seq(Range(sent)) /\ DOMAIN outcome = 1 .. Len(outcome)
    BY DEF SendsRemembered, OutcomesOnward
  <2> QED BY <2>1 DEF SendsRemembered, OutcomesOnward
<1>4. ASSUME NEW g \in DOMAIN sent
      PROVE  /\ \E i \in 1 .. Len(Program) : FromStep(sent[g], Program[i])'
             /\ outcome'[g] = "ok" => Effected(sent[g])'
             /\ outcome[g] = "failed" => outcome'[g] = "failed"
             /\ Mined(g) => Mined(g)'
  <2>1. PICK i \in 1 .. Len(Program) : FromStep(sent[g], Program[i])
    BY DEF SendsRemembered
  <2>2. PICK call : call = sent[g]
    OBVIOUS
  <2>3. FromStep(call, Program[i])'
    BY <2>1, <2>2, <1>1, <1>2
  <2>4. Effected(call) => Effected(call)'
    <3>1. WellMade(call)
      BY <2>1, <2>2, CallsWellMade
    <3> QED BY <3>1, EffectsLast DEF WellMade, ChainsOnward
  <2>5. sent'[g] = call
    BY <2>2, <1>3
  <2>6. outcome'[g] = "ok" => Effected(sent[g])'
    BY <2>2, <2>4, <2>5 DEF SendsRemembered, OutcomesOnward
  <2> QED BY <2>1, <2>2, <2>3, <2>5, <2>6, <1>1 DEF OutcomesOnward, Mined
<1>5. ASSUME NEW g \in DOMAIN sent'
      PROVE  (/\ \E i \in 1 .. Len(Program) : FromStep(sent[g], Program[i])
              /\ outcome[g] = "ok" => Effected(sent[g])
              /\ \/ g \in lost \cup report.recorded \cup {report.pending} \/ outcome[g] = "failed"
                 \/ InHands /\ g = process.hash)'
  <2>1. \/ g \in lost \cup report.recorded \cup {report.pending} \/ outcome[g] = "failed"
        \/ InHands /\ g = process.hash
    BY <1>3 DEF SendsRemembered
  <2>2. InHands' <=> InHands
    BY DEF InHands
  <2> QED BY <1>1, <1>3, <1>4, <2>1, <2>2
<1>6. (/\ \A g \in report.recorded : g \in DOMAIN sent /\ Mined(g)
       /\ report.pending \in {0} \cup DOMAIN sent
       /\ process.at \in {"step", "journal"} => report.pending = 0
       /\ process.at = "wait" => report.pending \in {0, process.hash})'
  BY <1>3, <1>4 DEF SendsRemembered
<1>7. (InHands => /\ process.hash \in DOMAIN sent
                  /\ FromStep(sent[process.hash], This)
                  /\ sent[process.hash].id = IdOf(This))'
  <2> SUFFICES ASSUME InHands'
               PROVE  (/\ process.hash \in DOMAIN sent
                       /\ FromStep(sent[process.hash], This)
                       /\ sent[process.hash].id = IdOf(This))'
    OBVIOUS
  <2>1. /\ process.hash \in DOMAIN sent
        /\ FromStep(sent[process.hash], This)
        /\ sent[process.hash].id = IdOf(This)
    BY DEF SendsRemembered, InHands
  <2>2. PICK call : call = sent[process.hash]
    OBVIOUS
  <2>3. PICK step : step = This
    OBVIOUS
  <2>4. FromStep(call, step)'
    BY <2>1, <2>2, <2>3, <1>2
  <2>5. sent'[process'.hash] = call /\ This' = step
    BY <2>2, <2>3, <1>1, <1>3
  <2> QED BY <2>1, <2>4, <2>5, <1>1, <1>3
<1>8. (/\ sent \in Seq(Range(sent)) /\ outcome \in Seq({"waiting", "ok", "failed", "dropped"})
       /\ Len(outcome) = Len(sent))'
  BY <1>3 DEF SendsRemembered, OutcomesOnward
<1> QED BY <1>5, <1>6, <1>7, <1>8 DEF SendsRemembered

\* One step of StepsPassed.
StepFacts(i) ==
    /\ Program[i].do = "draft" => Generations(Program[i].key) # {}
    /\ SettlesOrder(Program, i) =>
          /\ Generations(Program[i].key) # {}
          /\ OrderOf(Program[i].key).status = "final"
    /\ SeesNoReserve(Program, i) => \A id \in misread : orders[id].status = "final"

\* What a step established, the chains do not undo.
LEMMA FactsOutlast ==
  ASSUME TermsTracked, UNCHANGED <<script, misread>>, OrdersOnward, DOMAIN orders' = DOMAIN orders,
         misread \subseteq DOMAIN orders, NEW i, StepFacts(i)
  PROVE  StepFacts(i)'
<1>1. Program' = Program
  BY DEF Program
<1>2. \A key : Generations(key)' = Generations(key) /\ Current(key)' = Current(key)
  BY DEF Generations, Current
<1>3. \A id \in DOMAIN orders : orders[id].status = "final" => orders'[id].status = "final"
  BY DEF OrdersOnward, OrderOnward
<1>4. Generations(Program[i].key) # {} => Current(Program[i].key) \in DOMAIN orders
  BY CurrentIsNewest DEF Generations
<1>5. (SettlesOrder(Program, i) =>
          /\ Generations(Program[i].key) # {}
          /\ OrderOf(Program[i].key).status = "final")'
  BY <1>1, <1>2, <1>3, <1>4 DEF StepFacts, OrderOf, SettlesOrder, MarkedBefore
<1>6. (SeesNoReserve(Program, i) => \A id \in misread : orders[id].status = "final")'
  BY <1>1, <1>3 DEF StepFacts, SeesNoReserve, MarkedBefore
<1> QED BY <1>1, <1>2, <1>5, <1>6 DEF StepFacts

LEMMA StepsOutlast ==
  ASSUME StepsPassed, TermsTracked, UNCHANGED <<script, misread>>, ChainsTyped,
         OrdersOnward, DOMAIN orders' = DOMAIN orders, report'.stages = report.stages,
         \A i \in 1 .. Len(Program) : Passed(i)' => Passed(i)
  PROVE  StepsPassed'
<1>1. Program' = Program
  BY DEF Program
<1>2. \A i \in 1 .. Len(Program) : Passed(i) => StepFacts(i)
  BY Zenon DEF StepsPassed, StepFacts
<1>3. \A i \in 1 .. Len(Program) : Passed(i)' => StepFacts(i)'
  BY <1>2, FactsOutlast DEF ChainsTyped
<1>4. \A i \in 1 .. Len(Program)' : Passed(i)' => StepFacts(i)'
  BY <1>1, <1>3
<1>5. (\A stage \in report.stages :
          \E m \in 1 .. Len(Program) : Program[m].do = "mark" /\ Program[m].stage = stage)'
  BY <1>1 DEF StepsPassed
<1>6. (\A i, m \in 1 .. Len(Program) :
          Passed(i) /\ m <= i /\ Program[m].do = "mark" => Program[m].stage \in report.stages)'
  BY <1>1 DEF StepsPassed
<1> QED BY <1>4, <1>5, <1>6, Zenon DEF StepsPassed, StepFacts

LEMMA SweepsOutlast ==
  ASSUME SweepsEmpty, ChainsOnward, sent' = sent
  PROVE  SweepsEmpty'
BY DEF SweepsEmpty, ChainsOnward, LedgersOnward

LEMMA OnceOutlasts ==
  ASSUME SentOnce, SendsRemembered, OutcomesOnward, lost \subseteq lost'
  PROVE  SentOnce'
<1>1. sent' = sent /\ \A g \in DOMAIN sent : outcome[g] = "failed" => outcome'[g] = "failed"
  BY DEF OutcomesOnward
<1> QED BY <1>1 DEF SentOnce

\* All of it.
Remembers == ChainsTyped /\ SendsRemembered /\ StepsPassed /\ SweepsEmpty /\ SentOnce

LEMMA OutsideRemembers ==
  ASSUME SentInv, UNCHANGED <<script, report, process, misread, lost>>,
         ChainsOnward, OutcomesOnward
  PROVE  Remembers'
<1>1. /\ script \in Scripts /\ TermsTracked /\ ChainsTyped /\ SendsRemembered /\ StepsPassed
      /\ SweepsEmpty /\ SentOnce /\ OrdersOnward /\ DOMAIN orders' = DOMAIN orders /\ ChainsTyped'
  BY DEF SentInv, OffersInv, ChainsOnward
<1>2. SendsRemembered' /\ SweepsEmpty' /\ SentOnce'
  BY <1>1, SendsOutlast, SweepsOutlast, OnceOutlasts DEF OutcomesOnward
<1>3. \A i \in 1 .. Len(Program) : Passed(i)' => Passed(i)
  BY DEF Passed, Program
<1>4. StepsPassed'
  BY <1>1, <1>3, StepsOutlast
<1> QED BY <1>1, <1>2, <1>4 DEF Remembers

\* The types of what the chains hold, when no order is drafted.
LEMMA TypesOutlast ==
  ASSUME ChainsTyped, UNCHANGED <<script, misread>>, DOMAIN report' = DOMAIN report,
         DOMAIN orders' = DOMAIN orders, OrdersOnward, \A id \in DOMAIN orders : orders'[id].pay \in Nat,
         DOMAIN source' = DOMAIN source, DOMAIN target' = DOMAIN target,
         source'.phase \in {"none", "active", "draining", "closed"}, source'.returned \in Int,
         source'.phase \in {"none", "active"} => source'.returned \in Nat,
         source'.nonce \in Nat
  PROVE  ChainsTyped'
<1>1. Program' = Program
  BY DEF Program
<1>2. \A id \in misread' : id \in DOMAIN orders' /\ orders'[id].status # "drafted"
  BY DEF ChainsTyped, OrdersOnward, OrderOnward
<1>3. \A id \in DOMAIN orders' :
          /\ \E i \in 1 .. Len(Program) : Program[i].do = "draft" /\ Program[i].key = id[1]
          /\ orders'[id].pay \in Nat
  BY DEF ChainsTyped
<1> QED BY <1>1, <1>2, <1>3 DEF ChainsTyped

LEMMA AppliedOnward ==
  ASSUME SentInv, NEW call, WellMade(call), Accepts(call), Applied(call),
         UNCHANGED <<script, misread, report>>
  PROVE  ChainsOnward
<1>1. script \in Scripts /\ TermsTracked /\ ChainsTyped
  BY DEF SentInv, OffersInv
<1>2. /\ DOMAIN orders' = DOMAIN orders /\ OrdersOnward
      /\ call.fn # "createOffer" /\ NoneLive => NoneLive'
      /\ call.id \in DOMAIN orders => orders'[call.id] = OrderAfter(call, orders[call.id])
  BY <1>1, CallOrders
<1>3. /\ LedgersOnward
      /\ source'.phase \in {"none", "active", "draining", "closed"} /\ source'.returned \in Int
      /\ source'.phase \in {"none", "active"} => source'.returned \in Nat
      /\ source'.nonce \in Nat
      /\ call.fn = "createOffer" => source.phase = "active"
      /\ DOMAIN target' = DOMAIN target
  BY <1>1, CallLedgers
<1>4. DOMAIN source' = DOMAIN source
  BY <1>1, CallOnSource
<1>5. ASSUME NEW id \in DOMAIN orders PROVE orders'[id].pay \in Nat
  <2>1. orders[id].pay \in Nat /\ id[1] \in Keys
    BY <1>1, LedgerTyped DEF ChainsTyped
  <2>2. CASE id = call.id
    BY <1>1, <1>2, <2>1, <2>2, CallPays
  <2>3. CASE id # call.id
    BY <2>1, <2>3 DEF Applied, OrdersAfter
  <2> QED BY <2>2, <2>3
<1>6. ChainsTyped'
  BY <1>1, <1>2, <1>3, <1>4, <1>5, TypesOutlast
<1> QED BY <1>2, <1>3, <1>6 DEF ChainsOnward

LEMMA OutcomeSettles ==
  ASSUME SendsRemembered, NEW h \in DOMAIN sent, outcome[h] = "waiting",
         NEW what \in {"ok", "failed", "dropped"}, outcome' = [outcome EXCEPT ![h] = what],
         UNCHANGED sent, what = "ok" => Effected(sent[h])'
  PROVE  OutcomesOnward
<1>1. outcome \in Seq({"waiting", "ok", "failed", "dropped"}) /\ DOMAIN outcome = DOMAIN sent
  <2>1. sent \in Seq(Range(sent)) /\ Len(outcome) = Len(sent)
    BY DEF SendsRemembered
  <2>2. outcome \in Seq({"waiting", "ok", "failed", "dropped"})
    BY DEF SendsRemembered
  <2>3. DOMAIN outcome = 1 .. Len(outcome) /\ DOMAIN sent = 1 .. Len(sent)
    BY <2>1, <2>2
  <2> QED BY <2>1, <2>2, <2>3
<1>2. /\ outcome' \in Seq({"waiting", "ok", "failed", "dropped"})
      /\ Len(outcome') = Len(outcome) /\ DOMAIN outcome' = DOMAIN outcome
  BY <1>1
<1>3. outcome'[h] = what /\ \A g \in DOMAIN sent : g # h => outcome'[g] = outcome[g]
  BY <1>1
<1> QED BY <1>2, <1>3 DEF OutcomesOnward

LEMMA OutcomesStay ==
  ASSUME SendsRemembered, UNCHANGED <<sent, outcome>>
  PROVE  OutcomesOnward
BY DEF OutcomesOnward, SendsRemembered

LEMMA ChainsStay ==
  ASSUME SentInv, UNCHANGED <<script, misread, report, orders, source, target>>
  PROVE  ChainsOnward
<1>1. OrdersOnward
  BY DEF OrdersOnward, OrderOnward
<1>2. LedgersOnward
  BY DEF LedgersOnward, SentInv, ChainsTyped
<1>3. ChainsTyped'
  BY <1>1, TypesOutlast DEF SentInv, ChainsTyped
<1>4. NoneLive' <=> NoneLive
  BY DEF NoneLive
<1> QED BY <1>1, <1>2, <1>3, <1>4 DEF ChainsOnward

LEMMA IncludeRemembers ==
  ASSUME SentInv, NEW h \in DOMAIN sent, Include(h)
  PROVE  Remembers'
<1>1. /\ UNCHANGED <<sent, script, report, process, misread, lost>> /\ outcome[h] = "waiting"
      /\ script \in Scripts /\ SendsRemembered /\ ChainsTyped /\ TermsTracked /\ SweepsEmpty
  BY DEF Include, historyVars, SentInv, OffersInv
<1>2. PICK i \in 1 .. Len(Program) : FromStep(sent[h], Program[i])
  BY <1>1 DEF SendsRemembered
<1>3. PICK call : call = sent[h]
  OBVIOUS
<1>4. WellMade(call) /\ call.fn \in CallFns
  BY <1>1, <1>2, <1>3, CallsWellMade
<1>5. CASE Accepts(sent[h]) /\ (sent[h].via = "safe" => sent[h].nonce = source.nonce)
  <2>1. Accepts(call) /\ Applied(call) /\ outcome' = [outcome EXCEPT ![h] = "ok"]
    BY <1>3, <1>5 DEF Include
  <2>2. call.fn = "sweep" => NoneLive
    BY <1>1, <1>3 DEF SweepsEmpty
  <2>3. Effected(call)' /\ call' = sent'[h]
    BY <1>1, <1>3, <1>4, <2>1, <2>2, CallEffected
  <2>4. OutcomesOnward
    BY <1>1, <2>1, <2>3, OutcomeSettles
  <2>5. ChainsOnward
    BY <1>1, <1>4, <2>1, AppliedOnward
  <2> QED BY <1>1, <2>4, <2>5, OutsideRemembers
<1>6. CASE ~ (Accepts(sent[h]) /\ (sent[h].via = "safe" => sent[h].nonce = source.nonce))
  <2>1. UNCHANGED <<orders, source, target>> /\ outcome' = [outcome EXCEPT ![h] = "failed"]
    BY <1>6 DEF Include
  <2>2. OutcomesOnward
    BY <1>1, <2>1, OutcomeSettles
  <2> QED BY <1>1, <2>1, <2>2, ChainsStay, OutsideRemembers
<1> QED BY <1>5, <1>6

LEMMA DropRemembers ==
  ASSUME SentInv, NEW h \in DOMAIN sent, Drop(h)
  PROVE  Remembers'
<1>1. /\ UNCHANGED <<orders, source, target, sent, script, report, process, misread, lost>>
      /\ outcome[h] = "waiting" /\ outcome' = [outcome EXCEPT ![h] = "dropped"]
      /\ SendsRemembered
  BY DEF Drop, SentInv
<1>2. OutcomesOnward
  BY <1>1, OutcomeSettles
<1> QED BY <1>1, <1>2, ChainsStay, OutsideRemembers

LEMMA OthersRemember ==
  ASSUME SentInv, NEW call \in OthersCalls, OtherActs(call)
  PROVE  Remembers'
<1>1. /\ UNCHANGED <<sent, outcome, report, process, script, lost, misread>>
      /\ Accepts(call) /\ Applied(call) /\ SendsRemembered
  BY DEF OtherActs, SentInv
<1>2. WellMade(call)
  <2>1. CASE \E step \in OthersSteps : call = CallOf(step, << >>)
    BY <2>1 DEF OthersSteps, CallOf, Direct, Target, Step, WellMade, OrderFns, Settling
  <2>2. CASE \E fn \in {"expire", "finalize"}, id \in DOMAIN orders :
                call = CallOf(Direct("other", fn, id[1], 0), id)
    BY <2>2 DEF CallOf, Direct, Step, WellMade, OrderFns, Settling
  <2> QED BY <2>1, <2>2 DEF OthersCalls
<1>3. OutcomesOnward
  BY <1>1, OutcomesStay
<1>4. ChainsOnward
  BY <1>1, <1>2, AppliedOnward
<1> QED BY <1>1, <1>3, <1>4, OutsideRemembers

LEMMA PassRemembers ==
  ASSUME SentInv, NEW id \in DOMAIN orders, Pass(id)
  PROVE  Remembers'
<1>1. PICK passed :
         /\ orders' = [orders EXCEPT ![id].passed = passed]
         /\ UNCHANGED <<source, target, sent, outcome, report, process, script, lost, misread>>
         /\ SendsRemembered /\ ChainsTyped /\ TermsTracked
  BY DEF Pass, SentInv, OffersInv
<1>2. DOMAIN orders[id] = {"status", "agreed", "pay", "passed", "outcome"}
  BY <1>1, OrderTyped
<1>3. /\ DOMAIN orders' = DOMAIN orders
      /\ \A other \in DOMAIN orders : /\ orders'[other].status = orders[other].status
                                      /\ orders'[other].agreed = orders[other].agreed
                                      /\ orders'[other].pay = orders[other].pay
  BY <1>1, <1>2
<1>4. OrdersOnward /\ (NoneLive' <=> NoneLive)
  BY <1>3 DEF OrdersOnward, OrderOnward, NoneLive, Live
<1>5. LedgersOnward /\ ChainsTyped'
  BY <1>1, <1>3, <1>4, TypesOutlast DEF LedgersOnward, ChainsTyped
<1>6. ChainsOnward
  BY <1>3, <1>4, <1>5 DEF ChainsOnward
<1> QED BY <1>1, <1>6, OutcomesStay, OutsideRemembers

LEMMA AdvanceRemembers ==
  ASSUME SentInv, Advance
  PROVE  Remembers'
<1>1. /\ UNCHANGED <<orders, sent, outcome, report, process, script, lost, misread>>
      /\ SendsRemembered /\ ChainsTyped /\ TermsTracked
  BY DEF Advance, historyVars, SentInv, OffersInv
<1>2. /\ DOMAIN source = {"phase", "returned", "votes", "facts", "nonce", "attested"}
      /\ DOMAIN target = {"funding", "evidence", "recognized", "paid", "free", "refunded", "facts"}
  BY <1>1 DEF ChainsTyped
<1>3. /\ DOMAIN source' = DOMAIN source /\ DOMAIN target' = DOMAIN target
      /\ source'.phase = source.phase /\ source'.returned = source.returned
      /\ source'.votes = source.votes /\ source'.nonce = source.nonce
      /\ source.facts \subseteq source'.facts
      /\ target.funding # "none" => target'.funding # "none"
      /\ target'.recognized = target.recognized /\ target'.paid = target.paid
      /\ target'.facts = target.facts
  <2>1. CASE target' = [target EXCEPT !.funding = "final"] /\ UNCHANGED source
    BY <1>2, <2>1
  <2>2. CASE source' = [source EXCEPT !.attested = TRUE] /\ UNCHANGED target
    BY <1>2, <2>2
  <2>3. CASE source' = [source EXCEPT !.facts = @ \cup {"cutoff"}] /\ UNCHANGED target
    BY <1>2, <2>3
  <2> QED BY <2>1, <2>2, <2>3 DEF Advance
<1>4. OrdersOnward /\ (NoneLive' <=> NoneLive)
  BY <1>1 DEF OrdersOnward, OrderOnward, NoneLive
<1>5. LedgersOnward /\ ChainsTyped'
  BY <1>1, <1>3, <1>4, TypesOutlast DEF LedgersOnward, ChainsTyped
<1>6. ChainsOnward
  BY <1>1, <1>4, <1>5 DEF ChainsOnward
<1> QED BY <1>1, <1>3, <1>6, OutcomesStay, OutsideRemembers

LEMMA PassCutoffRemembers ==
  ASSUME SentInv, PassCutoff
  PROVE  Remembers'
<1>1. PICK passed :
         /\ source' = [source EXCEPT !.facts = @ \cup passed]
         /\ UNCHANGED <<orders, target, sent, outcome, report, process, script, lost, misread>>
         /\ SendsRemembered /\ ChainsTyped /\ TermsTracked
  BY DEF PassCutoff, SentInv, OffersInv
<1>2. DOMAIN source = {"phase", "returned", "votes", "facts", "nonce", "attested"}
  BY <1>1 DEF ChainsTyped
<1>3. /\ DOMAIN source' = DOMAIN source
      /\ source'.phase = source.phase /\ source'.returned = source.returned
      /\ source'.votes = source.votes /\ source'.nonce = source.nonce
      /\ source.facts \subseteq source'.facts
  BY <1>1, <1>2
<1>4. OrdersOnward /\ (NoneLive' <=> NoneLive)
  BY <1>1 DEF OrdersOnward, OrderOnward, NoneLive
<1>5. LedgersOnward /\ ChainsTyped'
  BY <1>1, <1>3, <1>4, TypesOutlast DEF LedgersOnward, ChainsTyped
<1>6. ChainsOnward
  BY <1>1, <1>4, <1>5 DEF ChainsOnward
<1> QED BY <1>1, <1>6, OutcomesStay, OutsideRemembers

-----------------------------------------------------------------------------
(* The process moves, and the chains do not. *)

LEMMA SentParts ==
  ASSUME SentInv
  PROVE  /\ script \in Scripts /\ Drafting /\ TermsTracked /\ OffersInv
         /\ ChainsTyped /\ SendsRemembered /\ StepsPassed /\ SweepsEmpty /\ SentOnce
BY DEF SentInv, OffersInv

LEMMA PassedFacts ==
  ASSUME StepsPassed, NEW i \in 1 .. Len(Program), Passed(i)
  PROVE  /\ StepFacts(i)
         /\ \A m \in 1 .. Len(Program) :
               m <= i /\ Program[m].do = "mark" => Program[m].stage \in report.stages
<1>1. StepFacts(i)
  BY Zenon DEF StepsPassed, StepFacts
<1> QED BY <1>1 DEF StepsPassed

\* The process goes on from pc, where it established what such a step does.
LEMMA StepsGoOn ==
  ASSUME SentInv, UNCHANGED script, NEW pc \in 0 .. Len(Program),
         process' = [at |-> "step", pc |-> Following(pc, report'.stages), hash |-> 0],
         \A i \in 1 .. Len(Program) : Passed(i) => StepFacts(i)',
         pc > 0 => process.at # "stopped" /\ pc = process.pc /\ StepFacts(pc)',
         \/ report'.stages = report.stages
         \/ pc > 0 /\ This.do = "mark" /\ report'.stages = report.stages \cup {This.stage},
         pc > 0 /\ This.do = "mark" => This.stage \in report'.stages
  PROVE  StepsPassed'
<1> DEFINE next == Following(pc, report'.stages)
<1>1. Program' = Program /\ Len(Program) \in Nat /\ script \in Scripts /\ StepsPassed
  BY SentParts, ProgramLength DEF Program
<1>2. /\ next \in pc + 1 .. Len(Program) + 1
      /\ \A i \in pc + 1 .. next - 1 : i <= Len(Program) /\ Program[i].stage \in report'.stages
  BY <1>1, FollowingStep
<1>3. process'.at = "step" /\ process'.pc = next
  OBVIOUS
<1> HIDE DEF next
<1>4. pc > 0 => pc \in 1 .. Len(Program) /\ Program[pc] = This
  BY <1>1 DEF This
<1>5. ASSUME NEW i \in 1 .. Len(Program), Program[i].stage \in report'.stages
      PROVE  Passed(i) \/ (pc > 0 /\ i = pc)
  <2>1. CASE Program[i].stage \in report.stages
    BY <2>1 DEF Passed
  <2>2. CASE Program[i].stage \notin report.stages
    <3>1. pc > 0 /\ This.do = "mark" /\ Program[i].stage = This.stage
      BY <1>5, <2>2
    <3>2. i <= pc
      BY <1>1, <1>4, <3>1, SweepAssumption DEF Program
    <3> QED BY <1>1, <3>1, <3>2 DEF Passed
  <2> QED BY <2>1, <2>2
<1>6. ASSUME NEW i \in 1 .. Len(Program), Passed(i)'
      PROVE  Passed(i) \/ (pc > 0 /\ i = pc)
  <2>1. Program[i].stage \in report'.stages \/ i < next
    BY <1>1, <1>3, <1>6 DEF Passed
  <2>2. CASE i < next /\ i < pc
    BY <2>2 DEF Passed
  <2>3. CASE i < next /\ i > pc
    BY <1>1, <1>2, <1>5, <2>3
  <2> QED BY <1>1, <1>5, <2>1, <2>2, <2>3
<1>7. \A i \in 1 .. Len(Program)' : Passed(i)' => StepFacts(i)'
  BY <1>1, <1>6
<1>8. (\A stage \in report.stages :
          \E m \in 1 .. Len(Program) : Program[m].do = "mark" /\ Program[m].stage = stage)'
  BY <1>1, <1>4 DEF StepsPassed
<1>9. ASSUME NEW i \in 1 .. Len(Program), NEW m \in 1 .. Len(Program),
             Passed(i)', m <= i, Program[m].do = "mark"
      PROVE  Program[m].stage \in report'.stages
  <2>1. CASE Passed(i)
    BY <1>1, <1>9, <2>1, PassedFacts
  <2>2. CASE pc > 0 /\ i = pc /\ m = pc
    BY <1>4, <1>9, <2>2
  <2>3. CASE pc > 0 /\ i = pc /\ m # pc
    <3>1. Passed(m)
      BY <1>9, <2>3 DEF Passed
    <3> QED BY <1>1, <1>9, <3>1, PassedFacts
  <2> QED BY <1>6, <1>9, <2>1, <2>2, <2>3
<1>10. (\A i, m \in 1 .. Len(Program) :
          Passed(i) /\ m <= i /\ Program[m].do = "mark" => Program[m].stage \in report.stages)'
  BY <1>1, <1>9
<1> QED BY <1>7, <1>8, <1>10, Zenon DEF StepsPassed, StepFacts

\* A transaction is remembered as long as it is in one of the places that count.
LEMMA ProcessRemembers ==
  ASSUME SentInv, UNCHANGED <<script, chainVars, misread>>,
         lost \subseteq lost', DOMAIN report' = DOMAIN report,
         process'.at \notin {"journal", "wait"},
         process'.at = "step" => report'.pending = 0,
         report'.pending \in {0} \cup DOMAIN sent,
         \A g \in report'.recorded : g \in DOMAIN sent /\ Mined(g),
         \A g \in DOMAIN sent :
            g \in lost \cup report.recorded \cup {report.pending} \/ (InHands /\ g = process.hash)
                => g \in lost' \cup report'.recorded \cup {report'.pending} \/ outcome[g] = "failed",
         StepsPassed'
  PROVE  Remembers'
<1>1. UNCHANGED <<orders, source, target, sent, outcome>> /\ Program' = Program
  BY DEF chainVars, Program
<1>2. ChainsTyped /\ SendsRemembered /\ SweepsEmpty /\ SentOnce
  BY SentParts
<1>3. OrdersOnward
  BY <1>1 DEF OrdersOnward, OrderOnward
<1>4. ChainsTyped'
  BY <1>1, <1>2, <1>3, TypesOutlast DEF ChainsTyped
<1>5. SweepsEmpty' /\ SentOnce'
  BY <1>1, <1>2, OutcomesStay, OnceOutlasts DEF SweepsEmpty, NoneLive
<1>6. ASSUME NEW g \in DOMAIN sent
      PROVE  (/\ \E i \in 1 .. Len(Program) : FromStep(sent[g], Program[i])
              /\ outcome[g] = "ok" => Effected(sent[g])
              /\ \/ g \in lost \cup report.recorded \cup {report.pending} \/ outcome[g] = "failed"
                 \/ InHands /\ g = process.hash)'
  <2>1. /\ \E i \in 1 .. Len(Program) : FromStep(sent[g], Program[i])
        /\ outcome[g] = "ok" => Effected(sent[g])
        /\ \/ g \in lost \cup report.recorded \cup {report.pending} \/ outcome[g] = "failed"
           \/ InHands /\ g = process.hash
    BY <1>2 DEF SendsRemembered
  <2>2. (\E i \in 1 .. Len(Program) : FromStep(sent[g], Program[i]))'
    BY <1>1, <2>1 DEF FromStep
  <2>3. (outcome[g] = "ok" => Effected(sent[g]))'
    BY <1>1, <2>1 DEF Effected
  <2> QED BY <1>1, <2>1, <2>2, <2>3
<1>7. (/\ sent \in Seq(Range(sent)) /\ outcome \in Seq({"waiting", "ok", "failed", "dropped"})
       /\ Len(outcome) = Len(sent))'
  BY <1>1, <1>2 DEF SendsRemembered
<1>8. (\A g \in report.recorded : g \in DOMAIN sent /\ Mined(g))'
  BY <1>1 DEF Mined
<1>9. SendsRemembered'
  BY <1>1, <1>6, <1>7, <1>8 DEF SendsRemembered, InHands
<1> QED BY <1>4, <1>5, <1>9 DEF Remembers

\* Nothing about transactions is written, and the process holds none.
LEMMA QuietRemembers ==
  ASSUME SentInv, UNCHANGED <<script, chainVars, misread, lost>>,
         process.at \in {"stopped", "step"}, process'.at \in {"stopped", "step"},
         process'.at = "step" => process.at = "step" \/ report.pending = 0,
         DOMAIN report' = DOMAIN report,
         report'.recorded = report.recorded, report'.pending = report.pending,
         StepsPassed'
  PROVE  Remembers'
<1>1. ~ InHands /\ SendsRemembered
  BY SentParts DEF InHands
<1>2. \A g \in report'.recorded : g \in DOMAIN sent /\ Mined(g)
  BY <1>1 DEF SendsRemembered
<1>3. process'.at = "step" => report'.pending = 0
  BY <1>1 DEF SendsRemembered
<1>4. report'.pending \in {0} \cup DOMAIN sent
  BY <1>1 DEF SendsRemembered
<1> QED BY <1>1, <1>2, <1>3, <1>4, ProcessRemembers

\* What was established stays when the orders stay.
LEMMA FactsStay ==
  ASSUME SentInv, UNCHANGED <<script, misread, orders>>,
         NEW i, StepFacts(i)
  PROVE  StepFacts(i)'
<1>1. OrdersOnward /\ TermsTracked /\ misread \subseteq DOMAIN orders
  BY SentParts DEF OrdersOnward, OrderOnward, ChainsTyped
<1> QED BY <1>1, FactsOutlast

LEMMA ProceedPasses ==
  ASSUME SentInv, UNCHANGED <<script, misread, orders>>, Proceed,
         process.at # "stopped", process.pc <= Len(Program),
         report'.stages = report.stages, This.do # "mark", StepFacts(process.pc)
  PROVE  StepsPassed'
<1>1. PICK pc : pc = process.pc
  OBVIOUS
<1>2. pc \in 0 .. Len(Program) /\ pc > 0
  <2>1. Len(Program) \in Nat /\ process.pc \in 1 .. Len(Program) + 1
    BY SentParts, ProgramLength DEF Drafting
  <2> QED BY <1>1, <2>1
<1>3. process' = [at |-> "step", pc |-> Following(pc, report'.stages), hash |-> 0]
  BY <1>1 DEF Proceed, Goto
<1>4. \A i \in 1 .. Len(Program) : Passed(i) => StepFacts(i)'
  BY SentParts, PassedFacts, FactsStay
<1>5. StepFacts(pc)'
  BY <1>1, FactsStay
<1> QED BY <1>1, <1>2, <1>3, <1>4, <1>5, StepsGoOn

\* A step that drafts nothing, sends nothing and checks nothing leaves nothing to tell.
LEMMA PlainFacts ==
  ASSUME NEW i, Program[i].do \notin {"draft", "safe", "direct", "check"}
  PROVE  StepFacts(i)
BY DEF StepFacts, SettlesOrder, SeesNoReserve

LEMMA GoingOnRemembers ==
  ASSUME SentInv, process.at = "step", process.pc <= Len(Program), This.do # "mark",
         Proceed, UNCHANGED <<chainVars, historyVars>>, DOMAIN report' = DOMAIN report,
         report'.stages = report.stages, report'.recorded = report.recorded,
         report'.pending = report.pending, StepFacts(process.pc)
  PROVE  Remembers'
<1>1. UNCHANGED <<script, misread, lost, orders>> /\ process'.at = "step"
  BY DEF chainVars, historyVars, Proceed, Goto
<1>2. StepsPassed'
  BY <1>1, ProceedPasses
<1> QED BY <1>1, <1>2, QuietRemembers

LEMMA ContinueRemembers ==
  ASSUME SentInv, process.at = "step", process.pc <= Len(Program), This.do # "mark",
         Continue, StepFacts(process.pc)
  PROVE  Remembers'
BY GoingOnRemembers DEF Continue

\* Stopping, or staying at the step, makes no step passed.
LEMMA StoppingPasses ==
  ASSUME SentInv, UNCHANGED <<script, misread, orders>>, report'.stages = report.stages,
         \/ process' = Stopped \/ process' = process
         \/ process.at # "stopped" /\ process'.pc = process.pc
  PROVE  StepsPassed'
<1>1. OrdersOnward /\ TermsTracked /\ StepsPassed /\ ChainsTyped
  BY SentParts DEF OrdersOnward, OrderOnward
<1>2. \A i \in 1 .. Len(Program) : Passed(i)' => Passed(i)
  BY DEF Passed, Program, Stopped
<1> QED BY <1>1, <1>2, StepsOutlast

LEMMA EndRemembers ==
  ASSUME SentInv, process.at \in {"stopped", "step"}, End
  PROVE  Remembers'
<1>1. UNCHANGED <<script, chainVars, misread, lost, report, orders>> /\ process' = Stopped
  BY DEF End, chainVars, historyVars
<1>2. StepsPassed'
  BY <1>1, StoppingPasses
<1>3. process'.at = "stopped"
  BY <1>1 DEF Stopped
<1> QED BY <1>1, <1>2, <1>3, QuietRemembers

\* The process starts from the top.
LEMMA RestartPasses ==
  ASSUME SentInv, UNCHANGED <<script, misread, orders>>, report'.stages = report.stages,
         Goto(Following(0, report.stages))
  PROVE  StepsPassed'
<1>1. Len(Program) \in Nat
  BY SentParts, ProgramLength
<1>2. process' = [at |-> "step", pc |-> Following(0, report'.stages), hash |-> 0]
  BY DEF Goto
<1>3. \A i \in 1 .. Len(Program) : Passed(i) => StepFacts(i)'
  BY SentParts, PassedFacts, FactsStay
<1>4. PICK pc \in 0 .. Len(Program) : pc = 0
  BY <1>1
<1> QED BY <1>2, <1>3, <1>4, StepsGoOn

LEMMA StartRemembers ==
  ASSUME SentInv, StartFresh
  PROVE  Remembers'
<1>1. UNCHANGED <<script, chainVars, misread, lost, report, orders>> /\ process'.at = "step"
  BY DEF StartFresh, Goto, chainVars, historyVars
<1>2. StepsPassed'
  BY <1>1, RestartPasses DEF StartFresh
<1> QED BY <1>1, <1>2, QuietRemembers DEF StartFresh

LEMMA MarkRemembers ==
  ASSUME SentInv, MarkStage
  PROVE  Remembers'
<1>1. PICK pc : pc = process.pc
  OBVIOUS
<1>2. /\ process.at = "step" /\ process.pc <= Len(Program) /\ This.do = "mark"
      /\ UNCHANGED <<script, chainVars, misread, lost, orders>>
      /\ report' = [report EXCEPT !.stages = @ \cup {This.stage}]
      /\ process' = [at |-> "step", pc |-> Following(pc, report'.stages), hash |-> 0]
  BY <1>1 DEF MarkStage, AtStep, At, This, Goto, chainVars, historyVars
<1>3. /\ DOMAIN report' = DOMAIN report /\ report'.stages = report.stages \cup {This.stage}
      /\ report'.recorded = report.recorded /\ report'.pending = report.pending
  BY <1>2, SentParts DEF ChainsTyped
<1>4. pc \in 0 .. Len(Program) /\ pc > 0
  <2>1. Len(Program) \in Nat /\ process.pc \in 1 .. Len(Program) + 1
    BY SentParts, ProgramLength DEF Drafting
  <2> QED BY <1>1, <1>2, <2>1
<1>5. \A i \in 1 .. Len(Program) : Passed(i) => StepFacts(i)'
  BY <1>2, SentParts, PassedFacts, FactsStay
<1>6. StepFacts(pc)'
  <2>1. StepFacts(pc)
    BY <1>1, <1>2, PlainFacts DEF This
  <2> QED BY <1>2, <2>1, FactsStay
<1>7. StepsPassed'
  BY <1>1, <1>2, <1>3, <1>4, <1>5, <1>6, StepsGoOn
<1>8. process'.at = "step"
  BY <1>2
<1> QED BY <1>2, <1>3, <1>7, <1>8, QuietRemembers

\* A check of the accounts that shows no reserve.
LEMMA ChecksClear ==
  ASSUME SentInv, This.do = "check", Holds(This)
  PROVE  StepFacts(process.pc)
<1>1. ASSUME SeesNoReserve(Program, process.pc), NEW id \in misread
      PROVE  orders[id].status = "final"
  <2>1. Unresolved = 0
    BY <1>1 DEF SeesNoReserve, Holds, This
  <2>2. /\ IsFiniteSet(DOMAIN orders) /\ \A other \in DOMAIN orders : other[1] \in Keys
        /\ id \in DOMAIN orders /\ orders[id].status # "drafted"
    BY <1>1, SentParts, ProgramCalls DEF ChainsTyped
  <2>3. ~ Live(orders[id])
    BY <2>1, <2>2, NothingLive DEF NoneLive
  <2> QED BY <2>2, <2>3, SentParts, OrderTyped DEF Live
<1> QED BY <1>1 DEF StepFacts, SettlesOrder, This

LEMMA WaitingRemembers ==
  ASSUME SentInv, WaitForBlock \/ PauseUntil \/ Check \/ NeedReceipt
  PROVE  Remembers'
<1>1. process.at = "step" /\ process.pc <= Len(Program)
  BY DEF WaitForBlock, PauseUntil, Check, NeedReceipt, At, AtStep
<1>2. CASE End
  BY <1>1, <1>2, EndRemembers
<1>3. CASE This.do \in {"await", "pause", "receipt"} /\ Continue
  BY <1>1, <1>3, PlainFacts, ContinueRemembers DEF This
<1>4. CASE This.do = "check" /\ Holds(This) /\ Continue
  BY <1>1, <1>4, ChecksClear, ContinueRemembers
<1> QED BY <1>2, <1>3, <1>4 DEF WaitForBlock, PauseUntil, Check, NeedReceipt, At, AtStep, This

LEMMA QueueRemembers ==
  ASSUME SentInv, QueueApproval \/ SeeRefusal \/ SignSettlement
  PROVE  Remembers'
<1>1. /\ process.at = "step" /\ process.pc <= Len(Program) /\ This.do \in {"queue", "refused", "sign"}
      /\ StepFacts(process.pc)
  BY PlainFacts DEF QueueApproval, SeeRefusal, SignSettlement, At, AtStep, This
<1>2. CASE Continue \/ End
  BY <1>1, <1>2, ContinueRemembers, EndRemembers
<1>3. CASE /\ Proceed /\ UNCHANGED <<chainVars, historyVars>>
           /\ \/ report' = report \/ \E n : report' = [report EXCEPT !.queued = n]
              \/ report' = [report EXCEPT !.refused = TRUE]
              \/ report' = [report EXCEPT !.signed = TRUE]
  <2>1. /\ DOMAIN report' = DOMAIN report /\ report'.stages = report.stages
        /\ report'.recorded = report.recorded /\ report'.pending = report.pending
    BY <1>3, SentParts DEF ChainsTyped
  <2> QED BY <1>1, <1>3, <2>1, GoingOnRemembers
<1> QED BY <1>2, <1>3 DEF QueueApproval, SeeRefusal, SignSettlement

LEMMA ExitRemembers ==
  ASSUME SentInv, Exit
  PROVE  Remembers'
BY EndRemembers DEF Exit

\* A failure the script did not mean to see.
LEMMA Failing ==
  ASSUME SentInv, NEW h \in DOMAIN sent, Mined(h), ~ AsExpected(h)
  PROVE  outcome[h] = "failed"
<1>1. outcome[h] = "ok" => Effected(sent[h])
  BY SentParts DEF SendsRemembered
<1>2. sent[h].fn = "refuse" => ~ Effected(sent[h])
  BY DEF Effected, Settling
<1> QED BY <1>1, <1>2 DEF Mined, AsExpected

LEMMA AtProgram ==
  ASSUME SentInv, process.pc <= Len(Program)
  PROVE  process.pc \in 1 .. Len(Program) /\ Program[process.pc] = This /\ Len(Program) \in Nat
BY SentParts, ProgramLength DEF Drafting, This

\* The order that a step is about has its terms.
LEMMA HasTerms ==
  ASSUME SentInv, process.at # "stopped", process.pc <= Len(Program),
         This.do \in Sending, This.key \in Keys
  PROVE  /\ Generations(This.key) # {}
         /\ Current(This.key) \in DOMAIN orders /\ Current(This.key)[1] = This.key
<1>1. process.pc \in 1 .. Len(Program) /\ Program[process.pc] = This
  BY AtProgram
<1>2. PICK j \in 1 .. process.pc - 1 : Program[j].do = "draft" /\ Program[j].key = This.key
  BY <1>1, SentParts, ProgramCalls
<1>3. j \in 1 .. Len(Program) /\ Passed(j)
  BY <1>1, AtProgram DEF Passed
<1>4. Generations(This.key) # {}
  BY <1>2, <1>3, SentParts, PassedFacts DEF StepFacts
<1>5. PICK id \in DOMAIN orders : id[1] = This.key
  BY <1>4 DEF Generations
<1> QED BY <1>4, <1>5, SentParts, CurrentIsNewest DEF Generations

\* An order settled by the call of a step.
LEMMA SettledFacts ==
  ASSUME SentInv, process.at # "stopped", process.pc <= Len(Program), This.do \in Sending,
         This.do \in {"safe", "direct"} /\ This.fn \in Settling => OrderOf(This.key).status = "final"
  PROVE  StepFacts(process.pc)
<1>1. process.pc \in 1 .. Len(Program) /\ Program[process.pc] = This
  BY AtProgram
<1>2. This.do # "draft" /\ This.do # "check"
  BY DEF Sending
<1>3. ASSUME SettlesOrder(Program, process.pc)
      PROVE  Generations(This.key) # {} /\ OrderOf(This.key).status = "final"
  <2>1. This.do \in {"safe", "direct"} /\ This.fn \in Settling
    BY <1>1, <1>3 DEF SettlesOrder
  <2>2. This.key \in Keys
    BY <1>1, <2>1, SentParts, ProgramCalls DEF OrderFns
  <2> QED BY <2>1, <2>2, HasTerms
<1> QED BY <1>1, <1>2, <1>3 DEF StepFacts, SeesNoReserve

LEMMA RecoverRemembers ==
  ASSUME SentInv, Recover
  PROVE  Remembers'
<1> DEFINE h == report.pending
<1>1. /\ process.at = "stopped" /\ h # 0 /\ Mined(h) /\ h \in DOMAIN sent
      /\ UNCHANGED <<script, chainVars, misread, lost, orders>>
  BY SentParts DEF Recover, historyVars, chainVars, SendsRemembered
<1>2. /\ DOMAIN report = {"stages", "recorded", "failed", "pending", "queued", "refused", "signed"}
      /\ SendsRemembered /\ ~ InHands
  BY <1>1, SentParts DEF ChainsTyped, InHands
<1>3. \A g \in report.recorded : g \in DOMAIN sent /\ Mined(g)
  BY <1>2 DEF SendsRemembered
<1>4. CASE AsExpected(h)
  <2>1. report' = RecordedNow(h) /\ Goto(Following(0, report.stages))
    BY <1>4 DEF Recover, Recovered
  <2>2. /\ DOMAIN report' = DOMAIN report /\ report'.stages = report.stages
        /\ report'.recorded = report.recorded \cup {h} /\ report'.pending = 0
    BY <1>2, <2>1 DEF RecordedNow
  <2>3. StepsPassed' /\ process'.at = "step"
    BY <1>1, <2>1, <2>2, RestartPasses DEF Goto
  <2> HIDE DEF h
  <2>4. \A g \in report'.recorded : g \in DOMAIN sent /\ Mined(g)
    BY <1>1, <1>3, <2>2
  <2>5. h = report.pending
    BY DEF h
  <2> QED BY <1>1, <1>2, <2>2, <2>3, <2>4, <2>5, ProcessRemembers
<1>5. CASE ~ AsExpected(h)
  <2>1. report' = FailedNow(h) /\ (Goto(Following(0, report.stages)) \/ UNCHANGED process)
    BY <1>5 DEF Recover, FoundFailed
  <2>2. /\ DOMAIN report' = DOMAIN report /\ report'.stages = report.stages
        /\ report'.recorded = report.recorded /\ report'.pending = 0
    BY <1>2, <2>1 DEF FailedNow
  <2>3. StepsPassed' /\ process'.at \in {"stopped", "step"}
    BY <1>1, <2>1, <2>2, RestartPasses, StoppingPasses DEF Goto
  <2>4. outcome[h] = "failed"
    BY <1>1, <1>5, Failing
  <2> HIDE DEF h
  <2>5. h = report.pending
    BY DEF h
  <2> QED BY <1>1, <1>2, <1>3, <2>2, <2>3, <2>4, <2>5, ProcessRemembers
<1> QED BY <1>4, <1>5

LEMMA ReceiveRemembers ==
  ASSUME SentInv, Receive
  PROVE  Remembers'
<1> DEFINE h == process.hash
<1>1. /\ process.at = "wait" /\ Mined(h) /\ InHands
      /\ UNCHANGED <<script, chainVars, misread, lost, orders>>
  BY DEF Receive, historyVars, chainVars, InHands
<1>2. /\ DOMAIN report = {"stages", "recorded", "failed", "pending", "queued", "refused", "signed"}
      /\ SendsRemembered
  BY SentParts DEF ChainsTyped
<1>3. /\ \A g \in report.recorded : g \in DOMAIN sent /\ Mined(g)
      /\ h \in DOMAIN sent /\ FromStep(sent[h], This) /\ sent[h].id = IdOf(This)
      /\ outcome[h] = "ok" => Effected(sent[h])
      /\ report.pending \in {0, h} /\ 0 \notin DOMAIN sent
  <2>1. sent \in Seq(Range(sent))
    BY <1>2 DEF SendsRemembered
  <2>2. 0 \notin DOMAIN sent
    BY <2>1
  <2> QED BY <1>1, <1>2, <2>2 DEF SendsRemembered
<1>4. process.pc <= Len(Program) /\ This.do \in Sending
  BY <1>1, SentParts DEF Drafting, Sending
<1>5. CASE AsExpected(h)
  <2>1. report' = RecordedNow(h)
    BY <1>5 DEF Receive
  <2>2. /\ DOMAIN report' = DOMAIN report /\ report'.stages = report.stages
        /\ report'.recorded = report.recorded \cup {h} /\ report'.pending = 0
    BY <1>2, <2>1 DEF RecordedNow
  <2>3. CASE This.do = "refresh"
    <3>1. process' = [at |-> "step", pc |-> process.pc, hash |-> 0]
      BY <1>5, <2>3 DEF Receive, Goto
    <3>2. StepsPassed' /\ process'.at = "step"
      BY <1>1, <2>2, <3>1, StoppingPasses
    <3> QED BY <1>1, <1>3, <2>2, <3>2, ProcessRemembers
  <2>4. CASE This.do # "refresh"
    <3>1. Proceed
      BY <1>5, <2>4 DEF Receive
    <3>2. StepFacts(process.pc)
      <4>1. ASSUME This.do \in {"safe", "direct"}, This.fn \in Settling
            PROVE  OrderOf(This.key).status = "final"
        <5>1. This.key \in Keys
          BY <1>4, <4>1, AtProgram, SentParts, ProgramCalls DEF OrderFns
        <5>2. sent[h].fn = This.fn
          BY <1>3 DEF FromStep
        <5>3. Effected(sent[h])
          BY <1>3, <1>5, <4>1, <5>2 DEF AsExpected, Settling
        <5>4. orders[sent[h].id].status = "final"
          BY <4>1, <5>2, <5>3 DEF Effected, Settling
        <5> QED BY <1>3, <5>1, <5>4 DEF OrderOf, IdOf
      <4> QED BY <1>1, <1>4, <4>1, SettledFacts
    <3>3. This.do # "mark" /\ process'.at = "step"
      BY <1>4, <3>1 DEF Sending, Proceed, Goto
    <3>4. StepsPassed'
      BY <1>1, <1>4, <2>2, <3>1, <3>2, <3>3, ProceedPasses
    <3> QED BY <1>1, <1>3, <2>2, <3>3, <3>4, ProcessRemembers
  <2> QED BY <2>3, <2>4
<1>6. CASE ~ AsExpected(h)
  <2>1. report' \in {report, FailedNow(h)} /\ process' = Stopped
    BY <1>6 DEF Receive
  <2>2. /\ DOMAIN report' = DOMAIN report /\ report'.stages = report.stages
        /\ report'.recorded = report.recorded /\ report'.pending \in {0, report.pending}
    BY <1>2, <2>1 DEF FailedNow
  <2>3. StepsPassed' /\ process'.at = "stopped"
    BY <1>1, <2>1, <2>2, StoppingPasses DEF Stopped
  <2>4. outcome[h] = "failed"
    BY <1>1, <1>3, <1>6, Failing
  <2>5. report'.pending \in {0} \cup DOMAIN sent
    BY <1>3, <2>2
  <2> QED BY <1>1, <1>3, <2>2, <2>3, <2>4, <2>5, ProcessRemembers
<1> QED BY <1>5, <1>6

LEMMA DyingRemembers ==
  ASSUME SentInv, Dies
  PROVE  Remembers'
<1>1. /\ UNCHANGED <<script, chainVars, misread, report, orders>> /\ process' = Stopped
      /\ lost \subseteq lost'
      /\ InHands /\ report.pending = 0 => process.hash \in lost'
  BY DEF Dies, chainVars, InHands
<1>2. StepsPassed' /\ process'.at = "stopped" /\ SendsRemembered
  BY <1>1, SentParts, StoppingPasses DEF Stopped
<1>3. /\ \A g \in report.recorded : g \in DOMAIN sent /\ Mined(g)
      /\ report.pending \in {0} \cup DOMAIN sent
      /\ InHands => report.pending \in {0, process.hash}
  BY <1>2 DEF SendsRemembered, InHands
<1> QED BY <1>1, <1>2, <1>3, ProcessRemembers

LEMMA JournalRemembers ==
  ASSUME SentInv, Journal
  PROVE  Remembers'
<1> DEFINE h == process.hash
<1>1. /\ process.at = "journal" /\ InHands
      /\ UNCHANGED <<script, chainVars, misread, lost, orders, source, target, sent, outcome>>
      /\ report' = [report EXCEPT !.pending = h]
      /\ process' = [process EXCEPT !.at = "wait"]
  BY DEF Journal, historyVars, chainVars, InHands
<1>2. /\ DOMAIN report = {"stages", "recorded", "failed", "pending", "queued", "refused", "signed"}
      /\ DOMAIN process = {"at", "pc", "hash"}
      /\ SendsRemembered /\ ChainsTyped /\ SweepsEmpty /\ SentOnce /\ Program' = Program
  BY <1>1, SentParts DEF ChainsTyped, Drafting, Program
<1>3. /\ process'.at = "wait" /\ process'.pc = process.pc /\ process'.hash = h
      /\ DOMAIN report' = DOMAIN report /\ report'.stages = report.stages
      /\ report'.recorded = report.recorded /\ report'.pending = h
  BY <1>1, <1>2
<1> HIDE DEF h
<1>4. /\ report.pending = 0 /\ h \in DOMAIN sent /\ FromStep(sent[h], This) /\ sent[h].id = IdOf(This)
  BY <1>1, <1>2 DEF SendsRemembered, h
<1>5. This' = This /\ IdOf(This)' = IdOf(This) /\ InHands'
  BY <1>1, <1>2, <1>3 DEF This, IdOf, Current, Generations, InHands
<1>6. OrdersOnward
  BY <1>1 DEF OrdersOnward, OrderOnward
<1>7. ChainsTyped'
  BY <1>1, <1>2, <1>3, <1>6, TypesOutlast DEF ChainsTyped
<1>8. SweepsEmpty' /\ SentOnce' /\ StepsPassed'
  BY <1>1, <1>2, <1>3, OutcomesStay, OnceOutlasts, StoppingPasses DEF SweepsEmpty, NoneLive
<1>9. ASSUME NEW g \in DOMAIN sent
      PROVE  (/\ \E i \in 1 .. Len(Program) : FromStep(sent[g], Program[i])
              /\ outcome[g] = "ok" => Effected(sent[g])
              /\ \/ g \in lost \cup report.recorded \cup {report.pending} \/ outcome[g] = "failed"
                 \/ InHands /\ g = process.hash)'
  <2>1. /\ \E i \in 1 .. Len(Program) : FromStep(sent[g], Program[i])
        /\ outcome[g] = "ok" => Effected(sent[g])
        /\ \/ g \in lost \cup report.recorded \cup {report.pending} \/ outcome[g] = "failed"
           \/ InHands /\ g = h
    BY <1>2 DEF SendsRemembered, h
  <2>2. (\E i \in 1 .. Len(Program) : FromStep(sent[g], Program[i]))'
    BY <1>1, <1>2, <2>1 DEF FromStep
  <2>3. (outcome[g] = "ok" => Effected(sent[g]))'
    BY <1>1, <2>1 DEF Effected
  <2>4. g # report.pending
    <3>1. sent \in Seq(Range(sent))
      BY <1>2 DEF SendsRemembered
    <3> QED BY <1>4, <3>1
  <2> QED BY <1>1, <1>3, <1>5, <2>1, <2>2, <2>3, <2>4
<1>10. (/\ sent \in Seq(Range(sent)) /\ outcome \in Seq({"waiting", "ok", "failed", "dropped"})
        /\ Len(outcome) = Len(sent)
        /\ \A g \in report.recorded : g \in DOMAIN sent /\ Mined(g))'
  BY <1>1, <1>2, <1>3 DEF SendsRemembered, Mined
<1>11. (InHands => /\ process.hash \in DOMAIN sent
                   /\ FromStep(sent[process.hash], This)
                   /\ sent[process.hash].id = IdOf(This))'
  <2>1. FromStep(sent[process.hash], This)'
    BY <1>1, <1>3, <1>4, <1>5 DEF FromStep
  <2> QED BY <1>1, <1>3, <1>4, <1>5, <2>1
<1>12. SendsRemembered'
  BY <1>1, <1>3, <1>4, <1>9, <1>10, <1>11 DEF SendsRemembered
<1> QED BY <1>7, <1>8, <1>12 DEF Remembers

\* Nothing is live when the program sweeps its epoch: it has settled every order, and seen
\* those cleared that a failed lookup hid.
LEMMA SweepsWhenEmpty ==
  ASSUME SentInv, process.at # "stopped", process.pc <= Len(Program), This.fn = "sweep"
  PROVE  NoneLive
<1> SUFFICES ASSUME NEW id \in DOMAIN orders, Live(orders[id])
             PROVE  FALSE
  BY DEF NoneLive
<1>1. /\ process.pc \in 1 .. Len(Program) /\ Program[process.pc] = This
      /\ Len(Program) \in Nat /\ StepsPassed /\ script \in Scripts
  BY AtProgram, SentParts
<1>2. PICK j \in 1 .. Len(Program) : Program[j].do = "draft" /\ Program[j].key = id[1]
  BY SentParts DEF ChainsTyped
<1>3. /\ \E f \in 1 .. process.pc - 1 : SettlesOrder(Program, f) /\ Program[f].key = id[1]
      /\ \A r \in 1 .. Len(Program) :
            Program[r].do = "refresh" => \E w \in 1 .. process.pc - 1 : SeesNoReserve(Program, w)
  <2>1. \A r \in 1 .. Len(Program) :
           /\ Program[r].do = "draft" =>
                \E f \in 1 .. process.pc - 1 : SettlesOrder(Program, f) /\ Program[f].key = Program[r].key
           /\ Program[r].do = "refresh" => \E w \in 1 .. process.pc - 1 : SeesNoReserve(Program, w)
    BY <1>1, SweepAssumption DEF Program
  <2> QED BY <1>2, <2>1
<1>4. \A i \in 1 .. process.pc - 1 : i \in 1 .. Len(Program) /\ Passed(i) /\ StepFacts(i)
  <2>1. \A i \in 1 .. process.pc - 1 : i \in 1 .. Len(Program) /\ Passed(i)
    BY <1>1 DEF Passed
  <2> QED BY <1>1, <2>1, PassedFacts
<1>5. OrderOf(id[1]).status = "final"
  BY <1>3, <1>4 DEF StepFacts
<1>6. id \in misread
  BY <1>5, SentParts DEF TermsTracked, Lapsed, Live, OrderOf
<1>7. PICK r \in 1 .. Len(Program) : Program[r].do = "refresh"
  BY <1>6, SentParts DEF ChainsTyped
<1>8. PICK w \in 1 .. process.pc - 1 : SeesNoReserve(Program, w)
  BY <1>3, <1>7
<1>9. orders[id].status = "final"
  BY <1>4, <1>6, <1>8 DEF StepFacts
<1> QED BY <1>9 DEF Live

\* An earlier transaction of the same call.
SameCall(g, step) ==
    <<sent[g].label, sent[g].key, sent[g].id>> = <<step.label, step.key, IdOf(step)>>

\* A transaction is sent that is not remembered to have been executed.
LEMMA SubmitRemembers ==
  ASSUME SentInv, process.at = "step", process.pc <= Len(Program), This.do \in Sending,
         NEW at \in {"journal", "wait"}, Submit(This, at),
         This.fn = "sweep" => source.phase = "draining",
         \A g \in report.recorded :
            /\ SameCall(g, This) /\ outcome[g] = "ok" /\ Effected(sent[g])
            => sent[g].fn \in {"authenticate", "import"}
  PROVE  Remembers'
<1> DEFINE call == CallOf(This, IdOf(This))
           h == Len(sent) + 1
<1>1. /\ sent' = Append(sent, call) /\ outcome' = Append(outcome, "waiting")
      /\ process' = [process EXCEPT !.at = at, !.hash = Len(sent')]
      /\ UNCHANGED <<orders, source, target, report, script, misread, lost>>
  BY DEF Submit, historyVars
<1>2. /\ SendsRemembered /\ ChainsTyped /\ SweepsEmpty /\ SentOnce /\ Program' = Program
      /\ DOMAIN process = {"at", "pc", "hash"} /\ sent \in Seq(Range(sent))
      /\ outcome \in Seq({"waiting", "ok", "failed", "dropped"}) /\ Len(outcome) = Len(sent)
      /\ report.pending = 0 /\ ~ InHands
  BY <1>1, SentParts DEF Drafting, Program, SendsRemembered, InHands
<1>3. PICK what : what = call
  OBVIOUS
<1>4. /\ Len(sent) \in Nat /\ DOMAIN sent = 1 .. Len(sent) /\ DOMAIN outcome = 1 .. Len(sent)
      /\ Len(sent') = h /\ DOMAIN sent' = 1 .. h /\ h \notin DOMAIN sent /\ h \in Nat
      /\ DOMAIN sent' = DOMAIN sent \cup {h}
      /\ sent'[h] = what /\ \A g \in DOMAIN sent : sent'[g] = sent[g]
      /\ outcome'[h] = "waiting" /\ \A g \in DOMAIN sent : outcome'[g] = outcome[g]
      /\ outcome' \in Seq({"waiting", "ok", "failed", "dropped"}) /\ Len(outcome') = h
  BY <1>1, <1>2, <1>3
<1>5. sent' \in Seq(Range(sent'))
  <2>1. \A g \in 1 .. h : sent'[g] \in Range(sent')
    BY <1>4 DEF Range
  <2>2. PICK all : all = Range(sent) \cup {what}
    OBVIOUS
  <2>3. sent \in Seq(all) /\ what \in all
    <3>1. Range(sent) \subseteq all
      BY <2>2
    <3>2. \A g \in 1 .. Len(sent) : sent[g] \in all
      BY <1>2, <1>4, <3>1
    <3> QED BY <1>2, <2>2, <3>2
  <2>4. sent' \in Seq(all)
    BY <1>1, <1>3, <2>3
  <2> QED BY <1>4, <2>1, <2>4
<1> HIDE DEF call, h
<1>6. process'.at = at /\ process'.pc = process.pc /\ process'.hash = h
  BY <1>1, <1>2, <1>4
<1>7. This' = This /\ IdOf(This)' = IdOf(This) /\ InHands'
  BY <1>1, <1>2, <1>6 DEF This, IdOf, Current, Generations, InHands
<1>8. OrdersOnward
  BY <1>1 DEF OrdersOnward, OrderOnward
<1>9. ChainsTyped' /\ StepsPassed'
  BY <1>1, <1>2, <1>6, <1>8, TypesOutlast, StoppingPasses DEF ChainsTyped
<1>10. /\ process.pc \in 1 .. Len(Program) /\ Program[process.pc] = This /\ script \in Scripts
       /\ source.nonce \in Nat
  BY <1>2, AtProgram, SentParts DEF ChainsTyped
<1>11. FromStep(what, This)' /\ FromStep(what, This) /\ what.id = IdOf(This)
  <2>1. /\ what.id = IdOf(This) /\ what.nonce = source.nonce
        /\ what = [label |-> This.label, via |-> This.do, fn |-> This.fn, key |-> This.key,
                   id |-> what.id, arg |-> This.arg, nonce |-> what.nonce]
    BY <1>3 DEF call, CallOf
  <2>2. This.key \in Keys => IdOf(This) \in DOMAIN orders /\ IdOf(This)[1] = This.key
    BY HasTerms DEF IdOf
  <2>3. FromStep(what, This)
    BY <1>10, <2>1, <2>2 DEF FromStep, IdOf
  <2> QED BY <1>1, <1>7, <2>1, <2>3 DEF FromStep
<1>12. ASSUME NEW g \in DOMAIN sent
       PROVE  /\ \E i \in 1 .. Len(Program) : FromStep(sent[g], Program[i])'
              /\ outcome[g] = "ok" => Effected(sent[g])'
              /\ g \in lost \cup report.recorded \/ outcome[g] = "failed"
  <2>1. /\ \E i \in 1 .. Len(Program) : FromStep(sent[g], Program[i])
        /\ outcome[g] = "ok" => Effected(sent[g])
        /\ g \in lost \cup report.recorded \cup {report.pending} \/ outcome[g] = "failed"
    BY <1>2 DEF SendsRemembered
  <2>2. \E i \in 1 .. Len(Program) : FromStep(sent[g], Program[i])'
    BY <1>1, <1>2, <1>4, <2>1 DEF FromStep
  <2>3. outcome[g] = "ok" => Effected(sent[g])'
    BY <1>1, <1>4, <2>1 DEF Effected
  <2> QED BY <1>2, <1>4, <2>1, <2>2, <2>3
<1>13. ASSUME NEW g \in DOMAIN sent'
       PROVE  (/\ \E i \in 1 .. Len(Program) : FromStep(sent[g], Program[i])
               /\ outcome[g] = "ok" => Effected(sent[g])
               /\ \/ g \in lost \cup report.recorded \cup {report.pending} \/ outcome[g] = "failed"
                  \/ InHands /\ g = process.hash)'
  <2>1. CASE g \in DOMAIN sent
    BY <1>1, <1>2, <1>4, <1>12, <2>1
  <2>2. CASE g = h
    <3>1. PICK step : step = This
      OBVIOUS
    <3>2. FromStep(what, step)' /\ Program'[process.pc] = step
      BY <1>2, <1>7, <1>10, <1>11, <3>1
    <3>3. FromStep(sent[g], Program[process.pc])'
      BY <1>2, <1>4, <1>6, <2>2, <3>2
    <3>4. (\E i \in 1 .. Len(Program) : FromStep(sent[g], Program[i]))'
      BY <1>2, <1>6, <1>10, <3>3
    <3> QED BY <1>4, <1>6, <1>7, <2>2, <3>4
  <2> QED BY <1>4, <2>1, <2>2
<1>14. (/\ \A g \in report.recorded : g \in DOMAIN sent /\ Mined(g)
        /\ report.pending \in {0} \cup DOMAIN sent
        /\ process.at \in {"step", "journal"} => report.pending = 0
        /\ process.at = "wait" => report.pending \in {0, process.hash}
        /\ Len(outcome) = Len(sent))'
  <2>1. \A g \in report.recorded : g \in DOMAIN sent /\ Mined(g)
    BY <1>2 DEF SendsRemembered
  <2>2. \A g \in report.recorded : g \in DOMAIN sent' /\ outcome'[g] \in {"ok", "failed"}
    BY <1>4, <2>1 DEF Mined
  <2> QED BY <1>1, <1>2, <1>4, <2>2 DEF Mined
<1>15. (/\ process.hash \in DOMAIN sent
        /\ FromStep(sent[process.hash], This)
        /\ sent[process.hash].id = IdOf(This))'
  <2>1. h \in DOMAIN sent'
    BY <1>4
  <2> QED BY <1>4, <1>6, <1>7, <1>11, <2>1
<1>16. SendsRemembered'
  BY <1>4, <1>5, <1>13, <1>14, <1>15 DEF SendsRemembered
<1>17. SweepsEmpty'
  <2>1. NoneLive' <=> NoneLive
    BY <1>1 DEF NoneLive
  <2>2. what.fn = "sweep" => source.phase = "draining" /\ NoneLive
    BY <1>11, SweepsWhenEmpty DEF FromStep
  <2> QED BY <1>1, <1>2, <1>4, <2>1, <2>2 DEF SweepsEmpty
<1>18. SentOnce'
  <2>1. ASSUME NEW g \in DOMAIN sent, SameCall(g, This)
        PROVE  g \in lost \/ outcome[g] = "failed" \/ sent[g].fn \in {"authenticate", "import"}
    <3>1. CASE g \in report.recorded
      BY <1>2, <2>1, <3>1 DEF SendsRemembered, Mined
    <3> QED BY <1>12, <3>1
  <2>2. what.label = This.label /\ what.key = This.key /\ what.id = IdOf(This)
    BY <1>11 DEF FromStep
  <2>3. ASSUME NEW f \in DOMAIN sent', NEW g \in DOMAIN sent', f < g,
               <<sent'[f].label, sent'[f].key, sent'[f].id>> = <<sent'[g].label, sent'[g].key, sent'[g].id>>
        PROVE  f \in lost' \/ outcome'[f] = "failed" \/ sent'[f].fn \in {"authenticate", "import"}
    <3>1. f \in DOMAIN sent
      BY <1>4, <2>3 DEF h
    <3>2. CASE g \in DOMAIN sent
      <4>1. sent'[f] = sent[f] /\ sent'[g] = sent[g] /\ outcome'[f] = outcome[f] /\ lost' = lost
        BY <1>1, <1>4, <3>1, <3>2
      <4>2. <<sent[f].label, sent[f].key, sent[f].id>> = <<sent[g].label, sent[g].key, sent[g].id>>
        BY <2>3, <4>1
      <4>3. f \in lost \/ outcome[f] = "failed" \/ sent[f].fn \in {"authenticate", "import"}
        BY <1>2, <2>3, <3>1, <3>2, <4>2 DEF SentOnce
      <4> QED BY <4>1, <4>3
    <3>3. CASE g = h
      BY <1>1, <1>4, <2>1, <2>2, <2>3, <3>1, <3>3 DEF SameCall
    <3> QED BY <1>4, <3>2, <3>3
  <2> QED BY <2>3 DEF SentOnce
<1> QED BY <1>9, <1>16, <1>17, <1>18 DEF Remembers

\* A call that is due, and that the contract accepts, has not been executed before.
LEMMA CalledOnce ==
  ASSUME SentInv, process.at = "step", process.pc <= Len(Program), This.do \in Sending,
         Due(This), This.fn = "refuse" \/ Accepts(CallOf(This, IdOf(This))),
         NEW g \in report.recorded, SameCall(g, This), outcome[g] = "ok", Effected(sent[g])
  PROVE  sent[g].fn \in {"authenticate", "import"}
<1> DEFINE call == CallOf(This, IdOf(This))
<1>1. /\ process.pc \in 1 .. Len(Program) /\ Program[process.pc] = This
      /\ SendsRemembered /\ ChainsTyped /\ script \in Scripts /\ g \in DOMAIN sent
  BY AtProgram, SentParts DEF SendsRemembered
<1>2. PICK i \in 1 .. Len(Program) : FromStep(sent[g], Program[i])
  BY <1>1 DEF SendsRemembered
<1>3. PICK fn : fn = This.fn
  OBVIOUS
<1>4. /\ sent[g].label = This.label /\ sent[g].key = This.key /\ sent[g].id = IdOf(This)
      /\ Program[i].do \in Sending /\ sent[g].fn = Program[i].fn
      /\ Program[i].label = This.label /\ Program[i].key = This.key
  BY <1>2 DEF SameCall, FromStep
<1>5. Kind(sent[g].fn) = Kind(fn) /\ fn \in CallFns /\ (fn \in OrderFns => This.key \in Keys)
  BY <1>1, <1>3, <1>4, ProgramCalls
<1>6. fn \in {"recognize", "recognizeBare"} \/ sent[g].fn = fn
  BY <1>5 DEF Kind
<1>7. fn # "refuse" => Accepts(call)
  BY <1>3
<1>8. call.fn = fn
  BY <1>3 DEF CallOf
<1>9. CASE fn \in OrderFns \ {"vote", "voteOther"}
  <2>1. orders[sent[g].id] = OrderOf(This.key) /\ sent[g].fn = fn
    BY <1>4, <1>5, <1>6, <1>9 DEF IdOf, OrderOf, OrderFns, Settling
  <2>2. CASE fn \in Settling
    BY <1>3, <2>1, <2>2 DEF Due, Effected, Settling
  <2>3. CASE fn \in {"createOffer", "acceptOffer", "deliver", "challenge"}
    BY <1>3, <2>1, <2>3 DEF Due, Effected, Settling
  <2> QED BY <1>9, <2>2, <2>3 DEF OrderFns
<1>10. CASE fn \in {"vote", "voteOther"}
  BY <1>3, <1>6, <1>10 DEF Due, Effected, Settling
<1>11. CASE fn = "release"
  <2>1. source.returned = 0 /\ source.phase = "active"
    BY <1>3, <1>7, <1>8, <1>11 DEF Due, Accepts, Admitting
  <2> QED BY <1>6, <1>11, <2>1 DEF Effected, Settling
<1>12. CASE fn = "sweep"
  <2>1. source.phase = "draining"
    BY <1>7, <1>8, <1>12 DEF Accepts
  <2> QED BY <1>6, <1>12, <2>1 DEF Effected, Settling
<1>13. CASE fn \in {"initialize", "drain", "swapOwner", "fund", "fundFree", "withdraw", "record"}
  BY <1>3, <1>4, <1>6, <1>13 DEF Due, Effected, Settling
<1>14. CASE fn \in {"recognize", "recognizeBare"}
  <2>1. This.key \notin target.recognized
    BY <1>3, <1>14 DEF Due
  <2>2. sent[g].fn \in {"recognize", "recognizeBare"}
    BY <1>5, <1>14 DEF Kind
  <2> QED BY <1>4, <2>1, <2>2 DEF Effected, Settling
<1>15. CASE fn \in {"republish", "refund", "deploy", "refuse", "expireEpoch"}
  <2>1. ~ Recorded(This.label)
    BY <1>3, <1>15 DEF Due
  <2> QED BY <1>4, <2>1 DEF Recorded
<1>16. CASE fn \in {"authenticate", "import"}
  BY <1>6, <1>16
<1> QED BY <1>5, <1>9, <1>10, <1>11, <1>12, <1>13, <1>14, <1>15, <1>16 DEF CallFns, OrderFns

LEMMA CallRemembers ==
  ASSUME SentInv, Call
  PROVE  Remembers'
<1>1. /\ process.at = "step" /\ process.pc <= Len(Program)
      /\ This.do \in {"safe", "direct", "target"} /\ This.do \in Sending
  BY DEF Call, Sending
<1>2. CASE ~ Due(This)
  <2>1. This.fn \in Settling => OrderOf(This.key).status = "final"
    BY <1>2 DEF Due, Settling
  <2>2. StepFacts(process.pc)
    BY <1>1, <2>1, SettledFacts
  <2> QED BY <1>1, <1>2, <2>2, ContinueRemembers DEF Call
<1>3. CASE Due(This) /\ End
  BY <1>1, <1>3, EndRemembers
<1>4. CASE /\ Due(This) /\ (This.fn = "refuse" \/ Accepts(CallOf(This, IdOf(This))))
           /\ \E at \in {"journal", "wait"} : Submit(This, at)
  <2>1. This.fn = "sweep" => source.phase = "draining"
    BY <1>4 DEF Accepts, CallOf
  <2> QED BY <1>1, <1>4, <2>1, CalledOnce, SubmitRemembers
<1> QED BY <1>2, <1>3, <1>4 DEF Call

\* Terms are drafted that the program has not passed the settlement of.
LEMMA DraftRemembers ==
  ASSUME SentInv, process.at = "step", process.pc <= Len(Program), This.do \in {"draft", "refresh"},
         NEW generation, <<This.key, generation>> \notin DOMAIN orders,
         NewDraft(This.key, generation), Proceed,
         UNCHANGED <<source, target, sent, outcome, report, script, lost>>,
         This.do = "draft" => Generations(This.key) = {} /\ misread' = misread,
         misread \subseteq misread',
         \A id \in misread' \ misread : id \in DOMAIN orders /\ orders[id].status # "drafted"
  PROVE  Remembers'
<1>1. PICK pc : pc = process.pc
  OBVIOUS
<1>2. PICK key : key = This.key
  OBVIOUS
<1> DEFINE new == <<key, generation>>
<1>3. /\ script \in Scripts /\ Drafting /\ TermsTracked /\ OffersInv /\ ChainsTyped
      /\ SendsRemembered /\ StepsPassed /\ SweepsEmpty /\ SentOnce /\ ~ InHands
      /\ pc \in 1 .. Len(Program) /\ Program[pc] = This /\ Len(Program) \in Nat
      /\ Program' = Program /\ This.stage \notin report.stages
  BY <1>1, SentParts, AtProgram DEF InHands, Program, Drafting
<1>4. /\ DOMAIN orders' = {new} \cup DOMAIN orders /\ new \notin DOMAIN orders
      /\ orders'[new] = Drafted /\ \A id \in DOMAIN orders : orders'[id] = orders[id]
  BY <1>2 DEF NewDraft
<1>5. OrdersOnward /\ LedgersOnward
  BY <1>3, <1>4 DEF OrdersOnward, OrderOnward, LedgersOnward, ChainsTyped
<1>6. PICK j \in 1 .. Len(Program) : Program[j].do = "draft" /\ Program[j].key = key
  <2>1. CASE This.do = "draft"
    BY <1>2, <1>3, <2>1
  <2>2. CASE This.do = "refresh"
    <3>1. \E j \in 1 .. pc - 1 : Program[j].do = "draft" /\ Program[j].key = key
      BY <1>2, <1>3, <2>2, RefreshAssumption DEF Program
    <3> QED BY <1>3, <3>1
  <2> QED BY <2>1, <2>2
<1>7. ChainsTyped'
  <2>1. IsFiniteSet(DOMAIN orders')
    <3>1. PICK ids : ids = DOMAIN orders
      OBVIOUS
    <3>2. IsFiniteSet(ids \cup {new})
      BY <1>3, <3>1, FS_AddElement DEF ChainsTyped
    <3>3. DOMAIN orders' = ids \cup {new}
      BY <1>4, <3>1
    <3> QED BY <3>2, <3>3
  <2>2. (\A id \in DOMAIN orders :
            /\ \E i \in 1 .. Len(Program) : Program[i].do = "draft" /\ Program[i].key = id[1]
            /\ orders[id].pay \in Nat)'
    <3>1. orders'[<<key, generation>>].pay \in Nat
      BY <1>4 DEF Drafted
    <3>2. \A id \in DOMAIN orders :
             /\ \E i \in 1 .. Len(Program) : Program[i].do = "draft" /\ Program[i].key = id[1]
             /\ orders'[id].pay \in Nat
      BY <1>3, <1>4 DEF ChainsTyped
    <3> QED BY <1>3, <1>4, <1>6, <3>1, <3>2
  <2>3. (\A id \in misread : id \in DOMAIN orders /\ orders[id].status # "drafted")'
    BY <1>3, <1>4 DEF ChainsTyped
  <2>4. (misread # {} => \E i \in 1 .. Len(Program) : Program[i].do = "refresh")'
    BY <1>3 DEF ChainsTyped
  <2> QED BY <1>3, <2>1, <2>2, <2>3, <2>4 DEF ChainsTyped
<1>8. process'.at = "step"
  BY DEF Proceed, Goto
<1>9. ASSUME NEW g \in DOMAIN sent
      PROVE  (/\ \E i \in 1 .. Len(Program) : FromStep(sent[g], Program[i])
              /\ outcome[g] = "ok" => Effected(sent[g])
              /\ \/ g \in lost \cup report.recorded \cup {report.pending} \/ outcome[g] = "failed"
                 \/ InHands /\ g = process.hash)'
  <2>1. PICK i \in 1 .. Len(Program) : FromStep(sent[g], Program[i])
    BY <1>3 DEF SendsRemembered
  <2>2. PICK call : call = sent[g]
    OBVIOUS
  <2>3. FromStep(call, Program[i])'
    <3>1. PICK step : step = Program[i]
      OBVIOUS
    <3>2. FromStep(call, step)'
      BY <1>3, <1>5, <1>7, <2>1, <2>2, <3>1, FromStepLasts
    <3> QED BY <1>3, <3>1, <3>2
  <2>4. Effected(call) => Effected(call)'
    <3>1. WellMade(call)
      BY <1>3, <2>1, <2>2, CallsWellMade
    <3> QED BY <1>3, <1>5, <1>7, <3>1, EffectsLast DEF WellMade
  <2>5. /\ outcome[g] = "ok" => Effected(sent[g])
        /\ g \in lost \cup report.recorded \cup {report.pending} \/ outcome[g] = "failed"
    BY <1>3 DEF SendsRemembered
  <2>6. sent'[g] = call
    BY <2>2
  <2>7. (outcome[g] = "ok" => Effected(sent[g]))'
    BY <2>2, <2>4, <2>5, <2>6
  <2> QED BY <1>3, <2>3, <2>5, <2>6, <2>7
<1>10. (/\ sent \in Seq(Range(sent)) /\ outcome \in Seq({"waiting", "ok", "failed", "dropped"})
        /\ Len(outcome) = Len(sent)
        /\ \A g \in report.recorded : g \in DOMAIN sent /\ Mined(g)
        /\ report.pending \in {0} \cup DOMAIN sent /\ report.pending = 0)'
  BY <1>3 DEF SendsRemembered, Mined
<1>11. SendsRemembered'
  BY <1>8, <1>9, <1>10 DEF SendsRemembered, InHands
<1>12. SweepsEmpty' /\ SentOnce'
  <2>1. NoneLive => NoneLive'
    BY <1>4 DEF NoneLive, Live, Drafted
  <2> QED BY <1>3, <2>1, OutcomesStay, OnceOutlasts DEF SweepsEmpty
<1>13. ASSUME NEW i \in 1 .. Len(Program), Passed(i)
       PROVE  StepFacts(i)'
  <2>1. StepFacts(i) /\ (This.do = "refresh" => ~ MarkedBefore(Program, This.stage, i))
    <3>1. ASSUME NEW m \in 1 .. i - 1, Program[m].do = "mark" PROVE Program[m].stage \in report.stages
      BY <1>3, <1>13, <3>1, PassedFacts
    <3> QED BY <1>3, <1>13, <3>1, PassedFacts DEF MarkedBefore
  <2>2. \A k : k # key => Generations(k)' = Generations(k) /\ Current(k)' = Current(k)
    BY <1>4 DEF Generations, Current
  <2>3. \A k : Generations(k) \subseteq Generations(k)'
    BY <1>4 DEF Generations
  <2>4. ASSUME SettlesOrder(Program, i)
        PROVE  Program[i].key # key
    BY <1>2, <1>3, <2>1, <2>4 DEF SettlesOrder, StepFacts
  <2>5. ASSUME SettlesOrder(Program, i)
        PROVE  (Generations(Program[i].key) # {} /\ OrderOf(Program[i].key).status = "final")'
    <3>1. PICK k : k = Program[i].key
      OBVIOUS
    <3>2. k # key /\ Generations(k) # {} /\ OrderOf(k).status = "final"
      BY <2>1, <2>4, <2>5, <3>1 DEF StepFacts
    <3>3. Current(k) \in DOMAIN orders
      BY <1>3, <3>2, CurrentIsNewest DEF Generations
    <3>4. Generations(k)' # {} /\ OrderOf(k)'.status = "final"
      BY <1>4, <2>2, <3>2, <3>3 DEF OrderOf
    <3> QED BY <1>3, <3>1, <3>4
  <2>6. ASSUME SeesNoReserve(Program, i)
        PROVE  \A id \in misread' : orders'[id].status = "final"
    <3>1. This.do = "draft"
      BY <1>3, <2>1, <2>6 DEF SeesNoReserve
    <3> QED BY <1>3, <1>4, <2>1, <2>6, <3>1 DEF StepFacts, ChainsTyped
  <2>7. (Program[i].do = "draft" => Generations(Program[i].key) # {})'
    <3>1. PICK k : k = Program[i].key
      OBVIOUS
    <3> QED BY <1>3, <2>1, <2>3, <3>1 DEF StepFacts
  <2> QED BY <1>3, <2>5, <2>6, <2>7 DEF StepFacts
<1>14. StepFacts(pc)'
  <2>1. Generations(key)' # {}
    BY <1>4 DEF Generations
  <2> QED BY <1>2, <1>3, <2>1 DEF StepFacts, SettlesOrder, SeesNoReserve
<1>15. StepsPassed'
  <2>1. process' = [at |-> "step", pc |-> Following(pc, report'.stages), hash |-> 0]
    BY <1>1 DEF Proceed, Goto
  <2>2. pc \in 0 .. Len(Program)
    BY <1>3
  <2> QED BY <1>1, <1>13, <1>14, <2>1, <2>2, StepsGoOn
<1> QED BY <1>7, <1>11, <1>12, <1>15 DEF Remembers

LEMMA SaveDraftRemembers ==
  ASSUME SentInv, SaveDraft
  PROVE  Remembers'
<1>1. process.at = "step" /\ process.pc <= Len(Program) /\ This.do = "draft"
  BY DEF SaveDraft, At, AtStep, This
<1>2. CASE Generations(This.key) # {}
  <2>1. StepFacts(process.pc)
    BY <1>1, <1>2 DEF StepFacts, SettlesOrder, SeesNoReserve, This
  <2> QED BY <1>1, <1>2, <2>1, ContinueRemembers DEF SaveDraft
<1>3. CASE Generations(This.key) = {}
  <2>1. /\ NewDraft(This.key, 1) /\ Proceed
        /\ UNCHANGED <<source, target, sent, outcome, report, script, lost, misread>>
    BY <1>3 DEF SaveDraft, historyVars
  <2>2. PICK generation : generation = 1
    OBVIOUS
  <2>3. <<This.key, generation>> \notin DOMAIN orders
    BY <1>3 DEF Generations
  <2>4. \A id \in misread' \ misread : id \in DOMAIN orders /\ orders[id].status # "drafted"
    BY <2>1
  <2> QED BY <1>1, <1>3, <2>1, <2>2, <2>3, <2>4, DraftRemembers
<1> QED BY <1>2, <1>3

\* The newest generation is replaced by the next.
LEMMA ReplacingRemembers ==
  ASSUME SentInv, At("refresh"), NEW id, id = Current(This.key), NewDraft(id[1], id[2] + 1), Proceed,
         UNCHANGED <<source, target, sent, outcome, report, script, lost>>,
         \/ misread' = misread
         \/ misread' = misread \cup {id} /\ orders[id].status # "drafted"
  PROVE  Remembers'
<1>1. process.at = "step" /\ process.pc <= Len(Program) /\ This.do = "refresh"
  BY DEF At, AtStep, This
<1>2. id \in DOMAIN orders /\ id[1] = This.key
  BY SentParts, RefreshHasTerms
<1>3. PICK generation : generation = id[2] + 1
  OBVIOUS
<1>4. <<This.key, generation>> \notin DOMAIN orders
  <2> SUFFICES ASSUME <<This.key, generation>> \in DOMAIN orders PROVE FALSE
    OBVIOUS
  <2>1. id[2] \in Nat
    BY <1>2, SentParts, EachTracked DEF Tracked
  <2>2. <<This.key, generation>> \in Generations(This.key)
    BY DEF Generations
  <2>3. generation <= id[2]
    BY <1>2, <2>2, SentParts, CurrentIsNewest
  <2> QED BY <1>3, <2>1, <2>3
<1>5. NewDraft(This.key, generation)
  BY <1>2, <1>3
<1>6. /\ misread \subseteq misread'
      /\ \A other \in misread' \ misread : other \in DOMAIN orders /\ orders[other].status # "drafted"
  BY <1>2
<1> QED BY <1>1, <1>4, <1>5, <1>6, DraftRemembers

LEMMA RefreshRemembers ==
  ASSUME SentInv, RefreshExpiredOffer
  PROVE  Remembers'
<1> DEFINE id == Current(This.key)
           order == orders[id]
<1>1. /\ process.at = "step" /\ process.pc <= Len(Program) /\ This.do = "refresh"
      /\ At("refresh") /\ This.do \in Sending
  BY DEF RefreshExpiredOffer, At, AtStep, This, Sending
<1>2. CASE Continue
  BY <1>1, <1>2, PlainFacts, ContinueRemembers DEF This
<1>3. CASE order.status = "offered" /\ Submit(This, "journal")
  <2>1. ASSUME NEW g \in report.recorded, SameCall(g, This), outcome[g] = "ok", Effected(sent[g])
        PROVE  FALSE
    <3>1. process.pc \in 1 .. Len(Program) /\ Program[process.pc] = This
      BY <1>1, AtProgram
    <3>2. g \in DOMAIN sent
      BY SentParts DEF SendsRemembered
    <3>3. PICK i \in 1 .. Len(Program) : FromStep(sent[g], Program[i])
      BY <3>2, SentParts DEF SendsRemembered
    <3>4. /\ sent[g].id = IdOf(This) /\ Program[i].do \in Sending /\ sent[g].fn = Program[i].fn
          /\ Program[i].label = This.label /\ Program[i].key = This.key
      BY <2>1, <3>3 DEF SameCall, FromStep
    <3>5. This.fn = "expire" /\ This.key \in Keys /\ Kind(Program[i].fn) = Kind(This.fn)
      BY <1>1, <3>1, <3>4, SentParts, ProgramCalls DEF OrderFns, Settling
    <3>6. sent[g].fn = "expire" /\ sent[g].id = id
      BY <3>4, <3>5 DEF Kind, IdOf
    <3>7. PICK call : call = sent[g]
      OBVIOUS
    <3>8. orders[call.id].status = "final"
      BY <2>1, <3>6, <3>7 DEF Effected, Settling
    <3> QED BY <1>3, <3>6, <3>7, <3>8
  <2>2. This.fn = "expire"
    <3>1. process.pc \in 1 .. Len(Program) /\ Program[process.pc] = This
      BY <1>1, AtProgram
    <3> QED BY <1>1, <3>1, SentParts, ProgramCalls
  <2> QED BY <1>1, <1>3, <2>1, <2>2, SubmitRemembers
<1>4. CASE Replace(id) /\ UNCHANGED <<lost, misread>>
  BY <1>1, <1>4, ReplacingRemembers DEF Replace
<1> QED BY <1>2, <1>3, <1>4 DEF RefreshExpiredOffer

LEMMA MisreadingRemembers ==
  ASSUME SentInv, RefreshMisreading
  PROVE  Remembers'
BY ReplacingRemembers DEF RefreshMisreading

LEMMA SentStart == Init => SentInv
<1> SUFFICES ASSUME Init PROVE SentInv
  OBVIOUS
<1>1. OffersInv
  BY OffersStart
<1>2. /\ orders = << >> /\ sent = << >> /\ outcome = << >> /\ misread = {} /\ process = Stopped
      /\ source = [phase |-> "none", returned |-> 0, votes |-> {}, facts |-> {}, nonce |-> 0,
                   attested |-> FALSE]
      /\ target = [funding |-> "none", evidence |-> {}, recognized |-> {}, paid |-> {},
                   free |-> budget.spare, refunded |-> 0, facts |-> {}]
      /\ report = [stages |-> {}, recorded |-> {}, failed |-> {}, pending |-> 0,
                   queued |-> 0, refused |-> FALSE, signed |-> FALSE]
  BY DEF Init
<1>3. DOMAIN orders = {} /\ DOMAIN sent = {} /\ process.at = "stopped" /\ Len(sent) = 0
  BY <1>2 DEF Stopped
<1>4. ChainsTyped
  <2>1. IsFiniteSet(DOMAIN orders)
    BY <1>3, FS_EmptySet
  <2> QED BY <1>2, <1>3, <2>1 DEF ChainsTyped
<1>5. SendsRemembered
  <2>1. sent \in Seq(Range(sent)) /\ outcome \in Seq({"waiting", "ok", "failed", "dropped"})
    BY <1>2
  <2> QED BY <1>2, <1>3, <2>1 DEF SendsRemembered, InHands
<1>6. StepsPassed
  <2>1. \A i \in 1 .. Len(Program) : ~ Passed(i)
    BY <1>2, <1>3 DEF Passed
  <2>2. report.stages = {}
    BY <1>2
  <2> QED BY <2>1, <2>2 DEF StepsPassed
<1>7. SweepsEmpty /\ SentOnce
  BY <1>2, <1>3 DEF SweepsEmpty, NoneLive, SentOnce
<1> QED BY <1>1, <1>4, <1>5, <1>6, <1>7 DEF SentInv

LEMMA StepRemembers == SentInv /\ [Next]_vars => SentInv'
<1> SUFFICES ASSUME SentInv, [Next]_vars PROVE Remembers'
  <2>1. SentInv /\ [Next]_vars => OffersInv'
    BY StepTracks DEF SentInv
  <2> QED BY <2>1 DEF SentInv, Remembers
<1>1. CASE Works
  <2>1. Interrupt => Dies
    BY DEF Interrupt
  <2>2. CASE StartFresh \/ Recover \/ Call \/ Journal \/ Receive \/ Interrupt
    BY <2>1, <2>2, StartRemembers, RecoverRemembers, CallRemembers, JournalRemembers,
       ReceiveRemembers, DyingRemembers
  <2>3. CASE SaveDraft \/ RefreshExpiredOffer \/ WaitForBlock \/ PauseUntil \/ Check \/ NeedReceipt
    BY <2>3, SaveDraftRemembers, RefreshRemembers, WaitingRemembers
  <2>4. CASE QueueApproval \/ SeeRefusal \/ SignSettlement \/ MarkStage \/ Exit
    BY <2>4, QueueRemembers, MarkRemembers, ExitRemembers
  <2> QED BY <1>1, <2>2, <2>3, <2>4 DEF Works
<1>2. CASE Includes
  BY <1>2, IncludeRemembers DEF Includes
<1>3. CASE Advance
  BY <1>3, AdvanceRemembers
<1>4. CASE Faults
  <2>1. CASE Crash
    BY <2>1, DyingRemembers DEF Crash
  <2>2. CASE RefreshMisreading
    BY <2>2, MisreadingRemembers
  <2>3. CASE \E h \in DOMAIN sent : Drop(h)
    BY <2>3, DropRemembers
  <2>4. CASE \E call \in OthersCalls : OtherActs(call)
    BY <2>4, OthersRemember
  <2>5. CASE \E id \in DOMAIN orders : Pass(id)
    BY <2>5, PassRemembers
  <2>6. CASE PassCutoff
    BY <2>6, PassCutoffRemembers
  <2> QED BY <1>4, <2>1, <2>2, <2>3, <2>4, <2>5, <2>6 DEF Faults
<1>5. CASE UNCHANGED vars
  BY <1>5, SentParts, OutcomesStay, ChainsStay, OutsideRemembers DEF vars
<1> QED BY <1>1, <1>2, <1>3, <1>4, <1>5 DEF Next

\* What the process remembers of its transactions, and what it has established, in every state.
THEOREM SentInvariant == Spec => []SentInv
<1> QED BY SentStart, StepRemembers, PTL DEF Spec

\* However often a script is interrupted and started again, and whatever happens on the
\* chains meanwhile, it sends a call again only after the first has failed, or when the hash
\* was never journaled (operator-journal.ts, onSubmitted; the due checks of every send).
THEOREM NothingSentAgain == Spec => []SentOnce
<1>1. SentInv => SentOnce
  BY SentParts
<1> QED BY <1>1, SentInvariant, PTL

-----------------------------------------------------------------------------
(* What the stages stand for: the invariant that StagesHold rests on. *)

\* An order that is not settled has no pay, and none has more than its budget.
Priced ==
    \A id \in DOMAIN orders :
        /\ orders[id].pay \in 0 .. Budget[id[1]]
        /\ orders[id].status # "final" => orders[id].pay = 0

\* The epoch has what it owes, and it is closed as soon as it owes nothing more: its cap is
\* earned or returned to the last unit.
Solvent ==
    /\ source.returned \in Nat
    /\ source.phase = "none" => \A id \in DOMAIN orders : orders[id].status = "drafted"
    /\ source.phase = "none" => source.returned = 0
    /\ Unresolved + EarnedNow + source.returned <= Cap[script]
    /\ source.phase = "closed" => NoneLive /\ EarnedNow + source.returned = Cap[script]
    /\ source.phase # "none" /\ Unresolved = 0 /\ EarnedNow + source.returned = Cap[script]
          => source.phase = "closed"

\* Pay, or a delivery, comes of a transaction that only the script sends, about the terms
\* it has now and for ever.
Behind(i) == \A m \in 1 .. i - 1 : Program[m].do = "mark" => Program[m].stage \in report.stages
Worked ==
    /\ \A id \in DOMAIN orders :
          orders[id].status \in {"delivered", "challenged"} \/ orders[id].pay # 0
              => \E g \in DOMAIN sent : sent[g].fn \in {"deliver", "settle"} /\ sent[g].id = id
    /\ \A g \in DOMAIN sent :
          /\ \E i \in 1 .. Len(Program) : FromStep(sent[g], Program[i]) /\ Behind(i)
          /\ sent[g].fn \in {"deliver", "settle"} => sent[g].id = Current(sent[g].key)

Rightful ==
    /\ target.recognized \subseteq DOMAIN Rights /\ target.paid \subseteq DOMAIN Earned[script]
    /\ target.refunded \in Nat
    /\ \A g \in DOMAIN sent :
          /\ outcome[g] = "ok" /\ sent[g].fn = "import" => "checkpoint" \in target.evidence
          /\ outcome[g] = "ok" /\ sent[g].fn = "refund" => target.refunded >= sent[g].arg
    /\ \A g \in report.recorded : AsExpected(g)

Done(i) ==
    \/ \E m \in i .. Len(Program) : Program[m].do = "mark" /\ Program[m].stage \in report.stages
    \/ process.at # "stopped" /\ i < process.pc

FactOf(i) ==
    LET step == Program[i]
    IN  /\ IsCall(step) /\ step.fn = "acceptOffer" /\ Unrefreshed(Program, i)
              => Generations(step.key) # {} /\ OrderOf(step.key).agreed
        /\ \A key \in Keys : SeesPay(Program, i, key) => Generations(key) # {} /\ Paid(key, Intended[key])
        /\ SeesAccounts(Program, i) => source.returned >= step.arg[4]
        /\ SeesClosed(Program, i) => source.phase = "closed" /\ EarnedNow = step.arg[3]
        /\ step.do = "check" /\ step.fn = "reserve" => target.recognized = DOMAIN Rights
        /\ step.do = "pause" /\ step.fn = "funding" => target.funding = "final"
        /\ TargetCall(Program, i, "import") => Imported
        /\ TargetCall(Program, i, "withdraw") => step.key \in target.paid
        /\ TargetCall(Program, i, "refund") => target.refunded >= step.arg
FactsDone == \A i \in 1 .. Len(Program) : Done(i) => FactOf(i)

\* What StagesHold rests on.
StagesNow == Priced /\ Solvent /\ Worked /\ Rightful /\ FactsDone
StagesInv == SentInv /\ StagesNow

-----------------------------------------------------------------------------
(* The ledger as sums over the orders. *)

\* They are of any orders, so that they are of those before a step and after it.
Held(all, id) == IF Live(all[id]) THEN Budget[id[1]] ELSE 0
ReservedOf(all) == SumOver({id \in DOMAIN all : Live(all[id])}, LAMBDA id : Budget[id[1]])
PaidOf(all) == SumOver(DOMAIN all, LAMBDA id : all[id].pay)
PricedIn(all) ==
    /\ IsFiniteSet(DOMAIN all)
    /\ \A id \in DOMAIN all :
          /\ id[1] \in Keys
          /\ all[id].pay \in 0 .. Budget[id[1]]
          /\ all[id].status # "final" => all[id].pay = 0

LEMMA LedgerOf ==
  /\ Unresolved = ReservedOf(orders) /\ EarnedNow = PaidOf(orders)
  /\ (Unresolved = ReservedOf(orders))' /\ (EarnedNow = PaidOf(orders))'
BY DEF Unresolved, ReservedOf, EarnedNow, PaidOf, SumOver

LEMMA OrdersKnown ==
  ASSUME SentInv
  PROVE  IsFiniteSet(DOMAIN orders) /\ \A id \in DOMAIN orders : id[1] \in Keys
<1>1. IsFiniteSet(DOMAIN orders) /\ script \in Scripts
  BY SentParts DEF ChainsTyped
<1>2. ASSUME NEW id \in DOMAIN orders PROVE id[1] \in Keys
  <2>1. PICK i \in 1 .. Len(Program) : Program[i].do = "draft" /\ Program[i].key = id[1]
    BY SentParts DEF ChainsTyped
  <2> QED BY <1>1, <2>1, ProgramCalls
<1> QED BY <1>1, <1>2

LEMMA LedgerSums ==
  ASSUME NEW all, PricedIn(all)
  PROVE  /\ ReservedOf(all) = SumFunctionOnSet([id \in DOMAIN all |-> Held(all, id)], DOMAIN all)
         /\ PaidOf(all) = SumFunctionOnSet([id \in DOMAIN all |-> all[id].pay], DOMAIN all)
         /\ ReservedOf(all) \in Nat /\ PaidOf(all) \in Nat
         /\ \A id \in DOMAIN all : Held(all, id) \in Nat /\ all[id].pay \in Nat
<1> DEFINE ids == DOMAIN all
           live == {id \in ids : Live(all[id])}
           others == ids \ live
           f == [id \in live |-> Budget[id[1]]]
           held == [id \in ids |-> Held(all, id)]
           pays == [id \in ids |-> all[id].pay]
<1>1. IsFiniteSet(ids) /\ IsFiniteSet(live) /\ IsFiniteSet(others)
  BY FS_Subset DEF PricedIn
<1>2. ReservedOf(all) = SumFunctionOnSet(f, live)
  BY SumFunctionIsSum DEF ReservedOf, SumOver
<1>3. \A id \in ids : Held(all, id) \in Nat /\ all[id].pay \in Nat
  BY BudgetIsPositive DEF Held, PricedIn
<1>4. SumFunctionOnSet(f, live) = SumFunctionOnSet(held, live)
  <2>1. \A id \in live : f[id] = held[id]
    BY DEF Held
  <2> HIDE DEF live, f, held
  <2> QED BY <1>1, <2>1, SumSame
<1>5. SumFunctionOnSet(held, others) = 0
  <2>1. \A id \in others : held[id] = 0
    BY DEF Held
  <2> HIDE DEF others, held
  <2> QED BY <1>1, <2>1, SumOfZeros
<1>6. \A id \in ids : held[id] \in Nat /\ pays[id] \in Nat /\ held[id] \in Int
  BY <1>3
<1>7. live \cap others = {} /\ live \cup others = ids /\ live \subseteq ids
  OBVIOUS
<1>8. PaidOf(all) = SumFunctionOnSet(pays, ids)
  BY SumFunctionIsSum DEF PaidOf, SumOver
<1> HIDE DEF ids, live, others, held, f, pays
<1>9. SumFunctionOnSet(held, live \cup others) =
          SumFunctionOnSet(held, live) + SumFunctionOnSet(held, others)
  <2>1. \A id \in live \cup others : held[id] \in Int
    BY <1>6, <1>7
  <2> QED BY <1>1, <1>7, <2>1, SumUnion
<1>10. SumFunctionOnSet(held, live) \in Nat /\ SumFunctionOnSet(pays, ids) \in Nat
  <2>1. \A id \in live : held[id] \in Nat
    BY <1>6, <1>7
  <2>2. \A id \in ids : pays[id] \in Nat
    BY <1>6
  <2> QED BY <1>1, <2>1, <2>2, SumIsNatural
<1>11. ReservedOf(all) = SumFunctionOnSet(held, ids) /\ ReservedOf(all) \in Nat
  BY <1>2, <1>4, <1>5, <1>7, <1>9, <1>10
<1> QED BY <1>3, <1>8, <1>10, <1>11 DEF ids, held, pays

\* Orders without a reserve are not live, and what is only drafted has neither reserve nor pay.
LEMMA NothingHeld ==
  ASSUME NEW all, PricedIn(all), ReservedOf(all) = 0
  PROVE  \A id \in DOMAIN all : ~ Live(all[id])
<1> SUFFICES ASSUME NEW id \in DOMAIN all, Live(all[id]) PROVE FALSE
  OBVIOUS
<1> DEFINE held == [x \in DOMAIN all |-> Held(all, x)]
<1>1. held[id] = Budget[id[1]] /\ Budget[id[1]] \in Nat \ {0}
  BY BudgetIsPositive DEF Held, PricedIn
<1>2. /\ SumFunctionOnSet(held, DOMAIN all) = 0 /\ IsFiniteSet(DOMAIN all)
      /\ \A x \in DOMAIN all : held[x] \in Nat
  BY LedgerSums DEF PricedIn
<1> HIDE DEF held
<1>3. held[id] <= SumFunctionOnSet(held, DOMAIN all)
  BY <1>2, SumAtLeast
<1> QED BY <1>1, <1>2, <1>3

LEMMA NothingPaid ==
  ASSUME NEW all, PricedIn(all), \A id \in DOMAIN all : all[id].status = "drafted"
  PROVE  ReservedOf(all) = 0 /\ PaidOf(all) = 0
<1> DEFINE held == [x \in DOMAIN all |-> Held(all, x)]
           pays == [x \in DOMAIN all |-> all[x].pay]
<1>1. /\ ReservedOf(all) = SumFunctionOnSet(held, DOMAIN all)
      /\ PaidOf(all) = SumFunctionOnSet(pays, DOMAIN all) /\ IsFiniteSet(DOMAIN all)
  BY LedgerSums DEF PricedIn
<1>2. \A id \in DOMAIN all : held[id] = 0 /\ pays[id] = 0
  BY DEF PricedIn, Held, Live
<1> HIDE DEF held, pays
<1> QED BY <1>1, <1>2, SumOfZeros

\* One order changes.
LEMMA LedgerChanges ==
  ASSUME NEW old, NEW new, PricedIn(old), PricedIn(new), DOMAIN new = DOMAIN old,
         NEW id \in DOMAIN old, \A other \in DOMAIN old \ {id} : new[other] = old[other]
  PROVE  /\ ReservedOf(new) = ReservedOf(old) - Held(old, id) + Held(new, id)
         /\ PaidOf(new) = PaidOf(old) - old[id].pay + new[id].pay
<1> DEFINE ids == DOMAIN old
           held == [x \in ids |-> Held(old, x)]
           heldNew == [x \in ids |-> Held(new, x)]
           pays == [x \in ids |-> old[x].pay]
           paysNew == [x \in ids |-> new[x].pay]
<1>1. /\ ReservedOf(old) = SumFunctionOnSet(held, ids) /\ ReservedOf(new) = SumFunctionOnSet(heldNew, ids)
      /\ PaidOf(old) = SumFunctionOnSet(pays, ids) /\ PaidOf(new) = SumFunctionOnSet(paysNew, ids)
  BY LedgerSums
<1>2. /\ \A x \in ids : held[x] \in Int /\ heldNew[x] \in Int /\ pays[x] \in Int /\ paysNew[x] \in Int
      /\ \A x \in ids \ {id} : held[x] = heldNew[x] /\ pays[x] = paysNew[x]
  <2>1. \A x \in ids : /\ Held(old, x) \in Nat /\ Held(new, x) \in Nat
                       /\ old[x].pay \in Nat /\ new[x].pay \in Nat
    BY LedgerSums
  <2>2. \A x \in ids \ {id} : Held(new, x) = Held(old, x)
    BY DEF Held
  <2> QED BY <2>1, <2>2
<1>3. /\ id \in ids /\ held[id] = Held(old, id) /\ heldNew[id] = Held(new, id)
      /\ pays[id] = old[id].pay /\ paysNew[id] = new[id].pay /\ IsFiniteSet(ids)
  BY DEF PricedIn
<1> HIDE DEF ids, held, heldNew, pays, paysNew
<1>4. SumFunctionOnSet(heldNew, ids) = SumFunctionOnSet(held, ids) - held[id] + heldNew[id]
  BY <1>2, <1>3, SumChange
<1>5. SumFunctionOnSet(paysNew, ids) = SumFunctionOnSet(pays, ids) - pays[id] + paysNew[id]
  BY <1>2, <1>3, SumChange
<1> QED BY <1>1, <1>3, <1>4, <1>5

\* Orders that change in nothing that the ledger counts.
LEMMA LedgerStays ==
  ASSUME NEW old, NEW new, PricedIn(old), PricedIn(new), DOMAIN new = DOMAIN old,
         \A id \in DOMAIN old : (Live(new[id]) <=> Live(old[id])) /\ new[id].pay = old[id].pay
  PROVE  ReservedOf(new) = ReservedOf(old) /\ PaidOf(new) = PaidOf(old)
<1>1. /\ [x \in DOMAIN new |-> Held(new, x)] = [x \in DOMAIN old |-> Held(old, x)]
      /\ [x \in DOMAIN new |-> new[x].pay] = [x \in DOMAIN old |-> old[x].pay]
  BY DEF Held
<1> QED BY <1>1, LedgerSums

\* Terms that are drafted add nothing.
LEMMA LedgerWithDraft ==
  ASSUME NEW old, NEW new, PricedIn(old), PricedIn(new), NEW id, id \notin DOMAIN old,
         DOMAIN new = {id} \cup DOMAIN old, ~ Live(new[id]), new[id].pay = 0,
         \A other \in DOMAIN old : new[other] = old[other]
  PROVE  ReservedOf(new) = ReservedOf(old) /\ PaidOf(new) = PaidOf(old)
<1> DEFINE ids == DOMAIN old
           all == ids \cup {id}
           held == [x \in ids |-> Held(old, x)]
           heldNew == [x \in DOMAIN new |-> Held(new, x)]
           pays == [x \in ids |-> old[x].pay]
           paysNew == [x \in DOMAIN new |-> new[x].pay]
<1>1. /\ ReservedOf(old) = SumFunctionOnSet(held, ids) /\ PaidOf(old) = SumFunctionOnSet(pays, ids)
      /\ ReservedOf(new) = SumFunctionOnSet(heldNew, DOMAIN new)
      /\ PaidOf(new) = SumFunctionOnSet(paysNew, DOMAIN new)
      /\ ReservedOf(old) \in Nat /\ PaidOf(old) \in Nat
  BY LedgerSums
<1>2. /\ \A x \in all : heldNew[x] \in Int /\ paysNew[x] \in Int
      /\ heldNew[id] = 0 /\ paysNew[id] = 0
      /\ \A x \in ids : heldNew[x] = held[x] /\ paysNew[x] = pays[x]
  <2>1. \A x \in DOMAIN new : Held(new, x) \in Nat /\ new[x].pay \in Nat
    BY LedgerSums
  <2>2. \A x \in ids : Held(new, x) = Held(old, x)
    BY DEF Held
  <2>3. Held(new, id) = 0
    BY DEF Held
  <2> QED BY <2>1, <2>2, <2>3
<1>3. DOMAIN new = all /\ IsFiniteSet(ids) /\ id \notin ids
  BY DEF PricedIn
<1>4. all = ids \cup {id}
  OBVIOUS
<1> HIDE DEF ids, all, held, heldNew, pays, paysNew
<1>5. SumFunctionOnSet(heldNew, ids \cup {id}) = heldNew[id] + SumFunctionOnSet(heldNew, ids)
  BY <1>2, <1>3, <1>4, SumAdd
<1>6. SumFunctionOnSet(paysNew, ids \cup {id}) = paysNew[id] + SumFunctionOnSet(paysNew, ids)
  BY <1>2, <1>3, <1>4, SumAdd
<1>7. SumFunctionOnSet(heldNew, ids) = SumFunctionOnSet(held, ids)
  BY <1>2, <1>3, SumSame
<1>8. SumFunctionOnSet(paysNew, ids) = SumFunctionOnSet(pays, ids)
  BY <1>2, <1>3, SumSame
<1> QED BY <1>1, <1>2, <1>3, <1>4, <1>5, <1>6, <1>7, <1>8

-----------------------------------------------------------------------------
(* What an accepted call does to the ledger. *)

\* What an order is settled at.
WellPriced(call) ==
    call.fn \in {"settle", "voteLast"} => call.arg \in 0 .. Budget[call.id[1]]

\* An accepted call settles a live order once, within its budget.
LEMMA CallPrices ==
  ASSUME TermsTracked, PricedIn(orders), NEW call, call.id \in DOMAIN orders, Accepts(call),
         WellPriced(call)
  PROVE  LET old == orders[call.id]
             new == OrderAfter(call, old)
         IN  /\ new.pay \in 0 .. Budget[call.id[1]]
             /\ new.status # "final" => new.pay = 0
             /\ call.fn = "createOffer" =>
                   Live(new) /\ ~ Live(old) /\ old.status = "drafted" /\ new.pay = 0
             /\ call.fn # "createOffer" =>
                   /\ old.status \in {"drafted", "final"} => new = old
                   /\ Live(new) => Live(old)
                   /\ new.pay # old.pay => Live(old) /\ ~ Live(new)
             /\ new.status \in {"delivered", "challenged"} \/ new.pay # 0
                   => \/ old.status \in {"delivered", "challenged"} \/ old.pay # 0
                      \/ call.fn \in {"deliver", "settle"}
<1> DEFINE old == orders[call.id]
           new == OrderAfter(call, old)
<1>1. /\ DOMAIN old = {"status", "agreed", "pay", "passed", "outcome"}
      /\ old.status \in {"drafted", "offered", "agreed", "delivered", "challenged", "final"}
  BY OrderTyped
<1>2. /\ old.pay \in 0 .. Budget[call.id[1]] /\ (old.status # "final" => old.pay = 0)
      /\ call.id[1] \in Keys
  BY DEF PricedIn
<1>3. /\ Budget[call.id[1]] \in Nat /\ FullWork[call.id[1]] \in 0 .. Budget[call.id[1]]
      /\ TimeoutWork[call.id[1]] \in 0 .. Budget[call.id[1]]
  BY <1>2, PricesBounded
<1>4. CASE new = old /\ call.fn # "createOffer"
  BY <1>2, <1>4 DEF Live
<1>5. CASE call.fn = "createOffer"
  <2>1. new = [old EXCEPT !.status = "offered"] /\ old.status = "drafted"
    BY <1>5 DEF OrderAfter, Accepts, Settling
  <2>2. new.status = "offered" /\ new.pay = old.pay
    BY <1>1, <2>1
  <2> QED BY <1>2, <1>5, <2>1, <2>2 DEF Live
<1>6. CASE call.fn \in {"acceptOffer", "deliver", "challenge"}
  <2>1. CASE call.fn = "acceptOffer"
    <3>1. new = [old EXCEPT !.status = "agreed", !.agreed = TRUE] /\ old.status = "offered"
      BY <2>1 DEF OrderAfter, Accepts
    <3>2. new.status = "agreed" /\ new.pay = old.pay
      BY <1>1, <3>1
    <3> QED BY <1>2, <2>1, <3>1, <3>2 DEF Live
  <2>2. CASE call.fn = "deliver"
    <3>1. new = [old EXCEPT !.status = "delivered"] /\ old.status = "agreed"
      BY <2>2 DEF OrderAfter, Accepts
    <3>2. new.status = "delivered" /\ new.pay = old.pay
      BY <1>1, <3>1
    <3> QED BY <1>2, <2>2, <3>1, <3>2 DEF Live
  <2>3. CASE call.fn = "challenge"
    <3>1. new = [old EXCEPT !.status = "challenged"] /\ old.status = "delivered"
      BY <2>3 DEF OrderAfter, Accepts
    <3>2. new.status = "challenged" /\ new.pay = old.pay
      BY <1>1, <3>1
    <3> QED BY <1>2, <2>3, <3>1, <3>2 DEF Live
  <2> QED BY <1>6, <2>1, <2>2, <2>3
<1>7. CASE call.fn \in Settling
  <2>1. PICK pay, how : /\ new = [old EXCEPT !.status = "final", !.pay = pay, !.outcome = how]
                        /\ pay \in 0 .. Budget[call.id[1]]
                        /\ Live(old)
                        /\ pay # 0 => \/ old.status \in {"delivered", "challenged"}
                                      \/ call.fn = "settle"
    <3>1. CASE call.fn = "decline"
      <4>1. new = Final(old, 0, "declined") /\ old.status = "offered"
        BY <3>1 DEF OrderAfter, Accepts
      <4>2. PICK pay : pay = 0
        OBVIOUS
      <4>3. pay \in 0 .. Budget[call.id[1]] /\ Live(old)
        BY <1>3, <4>1, <4>2 DEF Live
      <4> QED BY <4>1, <4>2, <4>3 DEF Final
    <3>2. CASE call.fn = "expire"
      <4>1. new = Final(old, 0, "expired") /\ old.status = "offered"
        BY <3>2 DEF OrderAfter, Accepts
      <4>2. PICK pay : pay = 0
        OBVIOUS
      <4>3. pay \in 0 .. Budget[call.id[1]] /\ Live(old)
        BY <1>3, <4>1, <4>2 DEF Live
      <4> QED BY <4>1, <4>2, <4>3 DEF Final
    <3>3. CASE call.fn = "approve"
      <4>1. new = Final(old, FullWork[call.id[1]], "approved") /\ old.status = "delivered"
        BY <3>3 DEF OrderAfter, Accepts
      <4> QED BY <1>3, <4>1 DEF Final, Live
    <3>4. CASE call.fn = "voteLast"
      <4>1. new = Final(old, call.arg, "ruled") /\ old.status = "challenged"
        BY <3>4 DEF OrderAfter, Accepts
      <4> QED BY <1>3, <3>4, <4>1 DEF Final, Live, WellPriced
    <3>5. CASE call.fn = "settle"
      <4>1. new = Final(old, call.arg, "settled") /\ old.status \in {"agreed", "delivered", "challenged"}
        BY <3>5 DEF OrderAfter, Accepts
      <4> QED BY <1>3, <3>5, <4>1 DEF Final, Live, WellPriced
    <3>6. CASE call.fn = "finalize"
      <4>1. new = Final(old, Default(call.id)[1], Default(call.id)[2]) /\ Default(call.id)[2] # "none"
        BY <3>6 DEF OrderAfter, Accepts
      <4>2. \/ Default(call.id)[1] = 0 /\ old.status = "agreed"
            \/ Default(call.id)[1] = FullWork[call.id[1]] /\ old.status = "delivered"
            \/ Default(call.id)[1] = TimeoutWork[call.id[1]] /\ old.status = "challenged"
        BY <4>1 DEF Default
      <4>3. PICK pay, how : pay = Default(call.id)[1] /\ how = Default(call.id)[2]
        OBVIOUS
      <4>4. pay \in 0 .. Budget[call.id[1]] /\ Live(old)
        BY <1>3, <4>2, <4>3 DEF Live
      <4> QED BY <4>1, <4>2, <4>3, <4>4 DEF Final
    <3> QED BY <1>7, <3>1, <3>2, <3>3, <3>4, <3>5, <3>6 DEF Settling
  <2>2. new.status = "final" /\ new.pay = pay
    BY <1>1, <2>1
  <2>3. call.fn # "createOffer"
    BY <1>7 DEF Settling
  <2> QED BY <1>2, <2>1, <2>2, <2>3 DEF Live
<1>8. \/ new = old /\ call.fn # "createOffer"
      \/ call.fn \in {"createOffer", "acceptOffer", "deliver", "challenge"} \cup Settling
  BY DEF OrderAfter, Settling
<1> QED BY <1>4, <1>5, <1>6, <1>7, <1>8

\* The phase that a call brings about, and what it returns, before the epoch may close.
Turns(call, phase, returned) ==
    \/ /\ call.fn = "release" /\ source.phase = "active" /\ phase = "active"
       /\ call.arg <= Available /\ returned = source.returned + call.arg
    \/ /\ call.fn = "sweep" /\ source.phase = "draining" /\ phase = "draining"
       /\ returned = source.returned + Available
    \/ /\ call.fn = "initialize" /\ source.phase = "none" /\ phase = "active"
       /\ returned = source.returned
    \/ /\ call.fn = "drain" /\ source.phase = "active" /\ phase = "draining"
       /\ returned = source.returned
    \/ /\ call.fn = "expireEpoch" /\ source.phase = "none" /\ phase = "closed"
       /\ returned = Cap[script]
    \/ /\ call.fn \notin {"release", "sweep", "initialize", "drain"}
       /\ phase = source.phase /\ returned = source.returned
LEMMA CallPhases ==
  ASSUME ChainsTyped, NEW call, Accepts(call), Applied(call)
  PROVE  \E phase, returned :
            /\ Turns(call, phase, returned) /\ source'.returned = returned
            /\ source'.phase = IF phase # "none" /\ Unresolved' = 0 /\ EarnedNow' + returned = Cap[script]
                               THEN "closed" ELSE phase
<1> DEFINE after == SourceAfter(call)
<1>1. /\ source'.phase = IF Closes(after) THEN "closed" ELSE after.phase
      /\ source'.returned = after.returned
      /\ DOMAIN source = {"phase", "returned", "votes", "facts", "nonce", "attested"}
  BY CallOnSource DEF ChainsTyped
<1>2. Turns(call, after.phase, after.returned)
  <2>1. CASE call.fn = "release"
    BY <1>1, <2>1 DEF SourceAfter, Accepts, Admitting, Turns
  <2>2. CASE call.fn = "sweep"
    <3>1. PICK r : r = source.returned + Available
      OBVIOUS
    <3>2. after = [source EXCEPT !.returned = r] /\ source.phase = "draining"
      BY <2>2, <3>1 DEF SourceAfter, Accepts
    <3>3. after.phase = "draining" /\ after.returned = r
      BY <1>1, <3>2
    <3> QED BY <2>2, <3>1, <3>2, <3>3 DEF Turns
  <2>3. CASE call.fn \in {"initialize", "drain"}
    BY <1>1, <2>3 DEF SourceAfter, Accepts, Turns
  <2>4. CASE call.fn = "expireEpoch" /\ call.key = "successor"
    <3>1. after = [source EXCEPT !.facts = @ \cup {"expired"}]
      BY <2>4 DEF SourceAfter
    <3> QED BY <1>1, <2>4, <3>1 DEF Turns
  <2>5. CASE call.fn = "expireEpoch" /\ call.key # "successor"
    <3>1. after = [source EXCEPT !.phase = "closed", !.returned = Cap[script]] /\ source.phase = "none"
      BY <2>5 DEF SourceAfter, Accepts
    <3>2. after.phase = "closed" /\ after.returned = Cap[script]
      BY <1>1, <3>1
    <3> QED BY <2>5, <3>1, <3>2 DEF Turns
  <2>6. CASE call.fn \in {"vote", "voteOther", "swapOwner"}
    BY <1>1, <2>6 DEF SourceAfter, Turns
  <2>7. CASE call.fn \notin {"release", "sweep", "initialize", "drain",
                             "vote", "voteOther", "expireEpoch", "swapOwner"}
    BY <1>1, <2>7 DEF SourceAfter, Turns
  <2> QED BY <2>1, <2>2, <2>3, <2>4, <2>5, <2>6, <2>7
<1> QED BY <1>1, <1>2 DEF Closes

LEMMA OrdersPriced ==
  ASSUME SentInv, Priced
  PROVE  PricedIn(orders)
BY OrdersKnown DEF PricedIn, Priced

\* What a chain never undoes of what a stage says.
SettledStays ==
    /\ source.returned <= source'.returned
    /\ source.phase = "closed" => source'.phase = "closed" /\ EarnedNow' = EarnedNow
    /\ \A id \in DOMAIN orders :
          orders[id].status = "final" => orders'[id].status = "final" /\ orders'[id].pay = orders[id].pay

LEMMA CallSettles ==
  ASSUME SentInv, Priced, Solvent, NEW call, WellMade(call), WellPriced(call),
         Accepts(call), Applied(call), UNCHANGED script
  PROVE  Priced' /\ Solvent' /\ SettledStays
<1> DEFINE id == call.id
           old == orders[id]
           new == orders'[id]
<1>1. /\ TermsTracked /\ ChainsTyped /\ SweepsEmpty /\ PricedIn(orders) /\ Program' = Program
      /\ script \in Scripts
  BY SentParts, OrdersPriced DEF Program
<1>2. /\ DOMAIN orders' = DOMAIN orders /\ (call.fn # "createOffer" /\ NoneLive => NoneLive')
      /\ id \in DOMAIN orders => new = OrderAfter(call, old)
  BY <1>1, CallOrders
<1>3. \A other \in DOMAIN orders \ {id} : orders'[other] = orders[other]
  BY DEF Applied, OrdersAfter
<1>4. ASSUME id \in DOMAIN orders
      PROVE  /\ new.pay \in 0 .. Budget[id[1]]
             /\ new.status # "final" => new.pay = 0
             /\ call.fn = "createOffer" =>
                   Live(new) /\ ~ Live(old) /\ old.status = "drafted" /\ new.pay = 0
             /\ call.fn # "createOffer" =>
                   /\ old.status \in {"drafted", "final"} => new = old
                   /\ Live(new) => Live(old)
                   /\ new.pay # old.pay => Live(old) /\ ~ Live(new)
  BY <1>1, <1>2, <1>4, CallPrices
<1>5. PricedIn(orders') /\ Priced'
  <2>1. ASSUME NEW x \in DOMAIN orders
        PROVE  /\ orders'[x].pay \in 0 .. Budget[x[1]]
               /\ orders'[x].status # "final" => orders'[x].pay = 0
    <3>1. CASE x = id
      BY <1>4, <3>1
    <3>2. CASE x # id
      BY <1>1, <1>3, <3>2 DEF PricedIn
    <3> QED BY <3>1, <3>2
  <2> QED BY <1>1, <1>2, <2>1 DEF PricedIn, Priced
<1>6. /\ Unresolved \in Nat /\ EarnedNow \in Nat /\ Unresolved' \in Nat /\ EarnedNow' \in Nat
      /\ source.returned \in Nat /\ Cap[script] \in Nat
  <2>1. Cap[script] \in Nat
    <3>1. script \in {"demo", "branches", "rotation"}
      BY <1>1, ScriptsAssumption DEF Programs
    <3> QED BY <3>1 DEF Cap
  <2> QED BY <1>1, <1>5, <2>1, LedgerOf, LedgerSums DEF Solvent
<1>7. ASSUME id \in DOMAIN orders
      PROVE  /\ Unresolved' = Unresolved - Held(orders, id) + Held(orders', id)
             /\ EarnedNow' = EarnedNow - old.pay + new.pay
             /\ Held(orders, id) \in Nat /\ Held(orders', id) \in Nat /\ old.pay \in Nat /\ new.pay \in Nat
  <2>1. PICK was : was = orders
    OBVIOUS
  <2>2. PICK now : now = orders'
    OBVIOUS
  <2>3. /\ PricedIn(was) /\ PricedIn(now) /\ DOMAIN now = DOMAIN was /\ id \in DOMAIN was
        /\ \A other \in DOMAIN was \ {id} : now[other] = was[other]
    <3>1. PricedIn(was) /\ PricedIn(now)
      BY <1>1, <1>5, <2>1, <2>2
    <3>2. DOMAIN now = DOMAIN was /\ id \in DOMAIN was
      BY <1>2, <1>7, <2>1, <2>2
    <3>3. \A other \in DOMAIN was \ {id} : now[other] = was[other]
      BY <1>3, <2>1, <2>2
    <3> QED BY <3>1, <3>2, <3>3
  <2>4. /\ ReservedOf(now) = ReservedOf(was) - Held(was, id) + Held(now, id)
        /\ PaidOf(now) = PaidOf(was) - was[id].pay + now[id].pay
        /\ Held(was, id) \in Nat /\ Held(now, id) \in Nat /\ was[id].pay \in Nat /\ now[id].pay \in Nat
    <3>1. \A x \in DOMAIN was : Held(was, x) \in Nat /\ was[x].pay \in Nat
      BY <2>3, LedgerSums
    <3>2. \A x \in DOMAIN now : Held(now, x) \in Nat /\ now[x].pay \in Nat
      BY <2>3, LedgerSums
    <3>3. /\ ReservedOf(now) = ReservedOf(was) - Held(was, id) + Held(now, id)
          /\ PaidOf(now) = PaidOf(was) - was[id].pay + now[id].pay
      BY <2>3, LedgerChanges
    <3> QED BY <2>3, <3>1, <3>2, <3>3
  <2> QED BY <2>1, <2>2, <2>4, LedgerOf
<1>8. ASSUME id \notin DOMAIN orders
      PROVE  Unresolved' = Unresolved /\ EarnedNow' = EarnedNow /\ orders' = orders
  <2>1. orders' = orders
    BY <1>8 DEF Applied, OrdersAfter
  <2> QED BY <2>1 DEF Unresolved, EarnedNow, SumOver
<1>9. call.fn # "createOffer" => Unresolved' + EarnedNow' <= Unresolved + EarnedNow
  <2>1. CASE id \notin DOMAIN orders
    BY <1>6, <1>8, <2>1
  <2>2. CASE id \in DOMAIN orders /\ call.fn # "createOffer"
    <3>1. Budget[id[1]] \in Nat
      BY <1>1, <2>2, PricesBounded DEF PricedIn
    <3>2. Held(orders', id) + new.pay <= Held(orders, id) + old.pay
      <4>1. CASE Live(old)
        <5>1. Held(orders, id) = Budget[id[1]]
          BY <4>1 DEF Held
        <5>2. \/ Held(orders', id) = 0
              \/ Held(orders', id) = Budget[id[1]] /\ new.pay = 0
          BY <1>4, <2>2 DEF Held, Live
        <5> QED BY <1>4, <1>7, <2>2, <3>1, <5>1, <5>2
      <4>2. CASE ~ Live(old)
        <5>1. Held(orders', id) = 0 /\ Held(orders, id) = 0 /\ new.pay = old.pay
          BY <1>4, <2>2, <4>2 DEF Held
        <5> QED BY <1>7, <2>2, <5>1
      <4> QED BY <4>1, <4>2
    <3> QED BY <1>6, <1>7, <2>2, <3>2
  <2> QED BY <2>1, <2>2
<1>10. call.fn = "createOffer" =>
          Unresolved' + EarnedNow' = Unresolved + EarnedNow + Budget[id[1]] /\ Budget[id[1]] \in Nat
  <2> SUFFICES ASSUME call.fn = "createOffer"
               PROVE  Unresolved' + EarnedNow' = Unresolved + EarnedNow + Budget[id[1]]
                      /\ Budget[id[1]] \in Nat
    OBVIOUS
  <2>1. id \in DOMAIN orders
    BY DEF WellMade, OrderFns
  <2>2. Held(orders, id) = 0 /\ Held(orders', id) = Budget[id[1]] /\ new.pay = 0 /\ old.pay = 0
    <3>1. old.pay = 0
      BY <1>1, <1>4, <2>1 DEF PricedIn
    <3> QED BY <1>4, <2>1, <3>1 DEF Held
  <2> QED BY <1>6, <1>7, <2>1, <2>2
<1>11. ASSUME NoneLive, call.fn # "createOffer" PROVE EarnedNow' = EarnedNow
  <2>1. CASE id \notin DOMAIN orders
    BY <1>8, <2>1
  <2>2. CASE id \in DOMAIN orders
    <3>1. new.pay = old.pay
      BY <1>4, <1>11, <2>2 DEF NoneLive
    <3> QED BY <1>6, <1>7, <2>2, <3>1
  <2> QED BY <2>1, <2>2
<1>12. source.phase # "none" => Available = Cap[script] - Unresolved - EarnedNow - source.returned
  BY DEF Available
<1>13. /\ Unresolved + EarnedNow + source.returned <= Cap[script]
       /\ source.phase \in {"none", "active", "draining", "closed"}
  BY <1>1 DEF Solvent, ChainsTyped
<1>14. /\ source.phase = "none" => /\ \A x \in DOMAIN orders : orders[x].status = "drafted"
                                   /\ source.returned = 0
       /\ source.phase = "closed" => NoneLive /\ EarnedNow + source.returned = Cap[script]
  BY DEF Solvent
<1>15. Cap[script]' = Cap[script]
  OBVIOUS
<1>16. \A x \in DOMAIN orders :
          orders[x].status = "final" => orders'[x].status = "final" /\ orders'[x].pay = orders[x].pay
  BY <1>3, <1>4
<1>17. PICK phase, returned :
          /\ Turns(call, phase, returned) /\ source'.returned = returned
          /\ source'.phase = IF phase # "none" /\ Unresolved' = 0 /\ EarnedNow' + returned = Cap[script]
                             THEN "closed" ELSE phase
  BY <1>1, CallPhases
\* A call that touches no order leaves the sums.
<1>18. ASSUME call.fn \notin OrderFns
       PROVE  Unresolved' = Unresolved /\ EarnedNow' = EarnedNow /\ (NoneLive => NoneLive')
  <2>1. id \in DOMAIN orders => new = old
    BY <1>2, <1>18 DEF OrderAfter, OrderFns, Settling
  <2>2. id \in DOMAIN orders => Held(orders', id) = Held(orders, id)
    BY <2>1 DEF Held
  <2>3. call.fn # "createOffer"
    BY <1>18 DEF OrderFns
  <2> QED BY <1>2, <1>6, <1>7, <1>8, <2>1, <2>2, <2>3
\* What an epoch that was never initialized has: drafts.
<1>19. ASSUME source.phase = "none", call.fn # "createOffer"
       PROVE  /\ \A x \in DOMAIN orders' : orders'[x].status = "drafted"
              /\ Unresolved' = 0 /\ EarnedNow' = 0
  <2>1. \A x \in DOMAIN orders' : orders'[x].status = "drafted"
    BY <1>2, <1>3, <1>4, <1>14, <1>19
  <2> QED BY <1>5, <2>1, LedgerOf, NothingPaid
<1>20. PICK u, e, u1, e1, r, cap, free :
          /\ u = Unresolved /\ e = EarnedNow /\ u1 = Unresolved' /\ e1 = EarnedNow'
          /\ r = source.returned /\ cap = Cap[script] /\ free = Available
  OBVIOUS
<1>21. /\ u \in Nat /\ e \in Nat /\ u1 \in Nat /\ e1 \in Nat /\ r \in Nat /\ cap \in Nat
       /\ u + e + r <= cap
  BY <1>6, <1>13, <1>20
<1>22. /\ r <= returned /\ returned \in Nat /\ u1 + e1 + returned <= cap
       /\ phase = "none" => source.phase = "none" /\ call.fn # "createOffer" /\ returned = 0
       /\ source.phase = "closed" => phase = "closed" /\ NoneLive' /\ e1 = e
       /\ phase = "closed" => NoneLive' /\ e1 + returned = cap
  <2>1. CASE call.fn = "createOffer"
    <3>1. /\ phase = "active" /\ source.phase = "active" /\ returned = r
          /\ Budget[id[1]] <= free /\ free = cap - u - e - r
      BY <1>12, <1>17, <1>20, <2>1 DEF Turns, Accepts, Admitting
    <3>2. Budget[id[1]] \in Nat /\ u1 + e1 = u + e + Budget[id[1]]
      BY <1>10, <1>20, <2>1
    <3> QED BY <1>21, <3>1, <3>2
  <2>2. CASE call.fn = "release"
    <3>1. /\ phase = "active" /\ source.phase = "active" /\ returned = r + call.arg
          /\ call.arg <= free /\ free = cap - u - e - r
      BY <1>12, <1>17, <1>20, <2>2 DEF Turns
    <3>2. call.arg \in Nat /\ u1 = u /\ e1 = e
      BY <1>18, <1>20, <2>2 DEF WellMade, OrderFns, Settling
    <3> QED BY <1>21, <3>1, <3>2
  <2>3. CASE call.fn = "sweep"
    <3>1. /\ phase = "draining" /\ source.phase = "draining" /\ returned = r + free
          /\ free = cap - u - e - r
      BY <1>12, <1>17, <1>20, <2>3 DEF Turns
    <3>2. u1 = u /\ e1 = e
      BY <1>18, <1>20, <2>3 DEF OrderFns, Settling
    <3> QED BY <1>21, <3>1, <3>2
  <2>4. CASE call.fn \in {"initialize", "drain"}
    <3>1. phase \in {"active", "draining"} /\ source.phase \in {"none", "active"} /\ returned = r
      BY <1>17, <1>20, <2>4 DEF Turns
    <3>2. u1 = u /\ e1 = e
      BY <1>18, <1>20, <2>4 DEF OrderFns, Settling
    <3> QED BY <1>21, <3>1, <3>2
  <2>5. CASE call.fn = "expireEpoch" /\ source.phase = "none" /\ phase = "closed" /\ returned = Cap[script]
    <3>1. /\ \A x \in DOMAIN orders' : orders'[x].status = "drafted"
          /\ u1 = 0 /\ e1 = 0 /\ returned = cap
      BY <1>19, <1>20, <2>5
    <3>2. NoneLive'
      BY <3>1 DEF NoneLive, Live
    <3> QED BY <1>21, <2>5, <3>1, <3>2
  <2>6. CASE /\ call.fn \notin {"createOffer", "release", "sweep", "initialize", "drain"}
             /\ phase = source.phase /\ returned = source.returned
    <3>1. u1 + e1 <= u + e /\ returned = r
      BY <1>9, <1>20, <2>6
    <3>2. source.phase = "none" => returned = 0
      BY <1>14, <2>6
    <3>3. source.phase = "closed" => NoneLive' /\ e1 = e /\ e1 + returned = cap
      BY <1>2, <1>11, <1>14, <1>20, <2>6
    <3> QED BY <1>21, <2>6, <3>1, <3>2, <3>3
  <2> QED BY <1>17, <2>1, <2>2, <2>3, <2>4, <2>5, <2>6 DEF Turns
<1>23. u1 = 0 => NoneLive'
  <2>1. PICK now : now = orders'
    OBVIOUS
  <2>2. u1 = 0 => \A x \in DOMAIN now : ~ Live(now[x])
    BY <1>5, <1>20, <2>1, LedgerOf, NothingHeld
  <2> QED BY <2>1, <2>2 DEF NoneLive
<1>24. /\ source'.returned = returned
       /\ source'.phase = IF phase # "none" /\ u1 = 0 /\ e1 + returned = cap THEN "closed" ELSE phase
  BY <1>17, <1>20
<1>25. Solvent'
  <2>1. /\ source'.phase = "none" => phase = "none"
        /\ source'.phase = "closed" => NoneLive' /\ e1 + returned = cap
        /\ source'.phase # "none" /\ u1 = 0 /\ e1 + returned = cap => source'.phase = "closed"
    BY <1>22, <1>23, <1>24
  <2>2. source'.phase = "none" =>
           /\ \A x \in DOMAIN orders' : orders'[x].status = "drafted"
           /\ source'.returned = 0
    BY <1>19, <1>22, <1>24, <2>1
  <2>3. Unresolved' + EarnedNow' + source'.returned <= Cap[script]' /\ source'.returned \in Nat
    BY <1>15, <1>20, <1>22, <1>24
  <2>4. source'.phase = "closed" => NoneLive' /\ EarnedNow' + source'.returned = Cap[script]'
    BY <1>15, <1>20, <1>24, <2>1
  <2>5. source'.phase # "none" /\ Unresolved' = 0 /\ EarnedNow' + source'.returned = Cap[script]'
           => source'.phase = "closed"
    BY <1>15, <1>20, <1>24, <2>1
  <2> QED BY <2>2, <2>3, <2>4, <2>5 DEF Solvent
<1>26. SettledStays
  <2>1. source.phase = "closed" => source'.phase = "closed" /\ EarnedNow' = EarnedNow
    BY <1>20, <1>22, <1>24
  <2>2. source.returned <= source'.returned
    BY <1>20, <1>22, <1>24
  <2> QED BY <1>16, <2>1, <2>2 DEF SettledStays
<1> QED BY <1>5, <1>25, <1>26

-----------------------------------------------------------------------------
(* The chains move, and the process does not: what was seen stays true. *)

TargetOnward ==
    /\ target.recognized \subseteq target'.recognized /\ target.paid \subseteq target'.paid
    /\ target.evidence \subseteq target'.evidence
    /\ target.funding = "final" => target'.funding = "final"
    /\ target.refunded <= target'.refunded

\* Whether an order has been worked on.
HasWork(order) == order.status \in {"delivered", "challenged"} \/ order.pay # 0
WorkSent(id) == \E g \in DOMAIN sent : sent[g].fn \in {"deliver", "settle"} /\ sent[g].id = id

LEMMA StagesParts ==
  ASSUME StagesInv
  PROVE  /\ SentInv /\ Priced /\ Solvent /\ Worked /\ Rightful /\ FactsDone
         /\ PricedIn(orders)
         /\ \A id \in DOMAIN orders : HasWork(orders[id]) => WorkSent(id)
BY OrdersPriced DEF StagesInv, StagesNow, Worked, HasWork, WorkSent

LEMMA FactsLast ==
  ASSUME TermsTracked, UNCHANGED script, DOMAIN orders' = DOMAIN orders, OrdersOnward,
         Solvent, Solvent', SettledStays, TargetOnward, target'.recognized \subseteq DOMAIN Rights,
         target.refunded \in Nat, target'.refunded \in Nat, NEW i \in 1 .. Len(Program), FactOf(i),
         script \in Scripts
  PROVE  FactOf(i)'
<1>1. Program' = Program /\ Rights' = Rights
  BY DEF Program, Rights
<1>2. \A key : Generations(key)' = Generations(key) /\ Current(key)' = Current(key)
  BY DEF Generations, Current
<1>3. \A key : Generations(key) # {} => Current(key) \in DOMAIN orders
  BY CurrentIsNewest DEF Generations
<1>4. PICK step : step = Program[i]
  OBVIOUS
<1>5. ASSUME NEW key, Generations(key) # {}, OrderOf(key).agreed
      PROVE  OrderOf(key)'.agreed
  BY <1>2, <1>3, <1>5 DEF OrderOf, OrdersOnward, OrderOnward
<1>6. ASSUME NEW key, NEW amount, Generations(key) # {}, Paid(key, amount)
      PROVE  Paid(key, amount)'
  BY <1>2, <1>3, <1>6 DEF Paid, OrderOf, SettledStays
<1>7. SeesAccounts(Program, i) => step.arg[4] \in Nat
  BY <1>4, StagesAssumption DEF Program
<1>8. (IsCall(step) /\ step.fn = "acceptOffer" /\ Unrefreshed(Program, i)
              => Generations(step.key) # {} /\ OrderOf(step.key).agreed)'
  BY <1>1, <1>2, <1>4, <1>5 DEF FactOf
<1>9. (\A key \in Keys : SeesPay(Program, i, key) => Generations(key) # {} /\ Paid(key, Intended[key]))'
  BY <1>1, <1>2, <1>4, <1>6 DEF FactOf
<1>10. (SeesAccounts(Program, i) => source.returned >= step.arg[4])'
  BY <1>1, <1>4, <1>7 DEF FactOf, SettledStays, Solvent
<1>11. (SeesClosed(Program, i) => source.phase = "closed" /\ EarnedNow = step.arg[3])'
  BY <1>1, <1>4 DEF FactOf, SettledStays
<1>12. (step.do = "check" /\ step.fn = "reserve" => target.recognized = DOMAIN Rights)'
  BY <1>1, <1>4 DEF FactOf, TargetOnward
<1>13. (/\ step.do = "pause" /\ step.fn = "funding" => target.funding = "final"
        /\ TargetCall(Program, i, "import") => Imported
        /\ TargetCall(Program, i, "withdraw") => step.key \in target.paid)'
  BY <1>1, <1>4 DEF FactOf, TargetOnward, Imported
<1>14. TargetCall(Program, i, "refund") => step.arg \in Nat
  BY <1>4, StagesAssumption DEF Program, TargetCall, IsCall
<1>15. (TargetCall(Program, i, "refund") => target.refunded >= step.arg)'
  BY <1>1, <1>4, <1>14 DEF FactOf, TargetOnward
<1>16. Program'[i] = step
  BY <1>1, <1>4
<1> QED BY <1>8, <1>9, <1>10, <1>11, <1>12, <1>13, <1>15, <1>16 DEF FactOf

LEMMA OutsideStages ==
  ASSUME StagesInv, UNCHANGED <<script, report, process, misread, sent>>,
         ChainsOnward, OutcomesOnward, Priced', Solvent', SettledStays, TargetOnward,
         \A id \in DOMAIN orders : HasWork(orders'[id]) => HasWork(orders[id]) \/ WorkSent(id),
         target'.recognized \subseteq DOMAIN Rights, target'.paid \subseteq DOMAIN Earned[script],
         target'.refunded \in Nat,
         \A g \in DOMAIN sent : outcome'[g] = "ok" /\ outcome[g] # "ok" =>
            /\ sent[g].fn = "import" => "checkpoint" \in target'.evidence
            /\ sent[g].fn = "refund" => target'.refunded >= sent[g].arg
  PROVE  StagesNow'
<1>1. /\ script \in Scripts /\ TermsTracked /\ ChainsTyped /\ ChainsTyped' /\ SendsRemembered
      /\ OrdersOnward /\ LedgersOnward /\ DOMAIN orders' = DOMAIN orders /\ SentInv
  BY SentParts DEF StagesInv, ChainsOnward
<1>2. Program' = Program /\ Rights' = Rights /\ sent' = sent /\ report' = report /\ process' = process
  BY DEF Program, Rights
<1>3. \A key : Generations(key)' = Generations(key) /\ Current(key)' = Current(key)
  BY <1>1 DEF Generations, Current
<1>5. Worked'
  <2>1. \A id \in DOMAIN orders' : HasWork(orders'[id]) => WorkSent(id)
    BY <1>1, StagesParts
  <2>2. ASSUME NEW g \in DOMAIN sent
        PROVE  (/\ \E i \in 1 .. Len(Program) : FromStep(sent[g], Program[i]) /\ Behind(i)
                /\ sent[g].fn \in {"deliver", "settle"} => sent[g].id = Current(sent[g].key))'
    <3>1. PICK i \in 1 .. Len(Program) : FromStep(sent[g], Program[i]) /\ Behind(i)
      BY StagesParts DEF Worked
    <3>2. PICK call, step : call = sent[g] /\ step = Program[i]
      OBVIOUS
    <3>3. FromStep(call, step)'
      BY <1>1, <3>1, <3>2, FromStepLasts
    <3>4. Behind(i)'
      BY <1>2, <3>1 DEF Behind
    <3>5. sent[g].fn \in {"deliver", "settle"} => sent[g].id = Current(sent[g].key)
      BY StagesParts DEF Worked
    <3>6. (sent[g].fn \in {"deliver", "settle"} => sent[g].id = Current(sent[g].key))'
      BY <1>2, <1>3, <3>5
    <3> QED BY <1>2, <3>2, <3>3, <3>4, <3>6
  <2> QED BY <1>2, <2>1, <2>2 DEF Worked, HasWork, WorkSent
<1>6. target.refunded \in Nat /\ \A g \in report.recorded : AsExpected(g) /\ g \in DOMAIN sent
  BY <1>1, StagesParts DEF Rightful, SendsRemembered
<1>7. Rightful'
  <2>1. ASSUME NEW g \in DOMAIN sent
        PROVE  /\ outcome'[g] = "ok" /\ sent[g].fn = "import" => "checkpoint" \in target'.evidence
               /\ outcome'[g] = "ok" /\ sent[g].fn = "refund" => target'.refunded >= sent[g].arg
    <3>1. /\ outcome[g] = "ok" /\ sent[g].fn = "import" => "checkpoint" \in target.evidence
          /\ outcome[g] = "ok" /\ sent[g].fn = "refund" => target.refunded >= sent[g].arg
      BY StagesParts DEF Rightful
    <3>2. sent[g].fn = "refund" => sent[g].arg \in Nat
      <4>1. PICK i \in 1 .. Len(Program) : FromStep(sent[g], Program[i])
        BY <1>1 DEF SendsRemembered
      <4>2. sent[g].fn = Program[i].fn /\ sent[g].arg = Program[i].arg /\ Program[i].do \in Sending
        BY <4>1 DEF FromStep
      <4>3. sent[g].fn = "refund" => IsCall(Program[i])
        BY <1>1, <4>2, ProgramCalls DEF IsCall, Sending
      <4> QED BY <1>1, <4>2, <4>3, StagesAssumption DEF Program
    <3> QED BY <1>6, <3>1, <3>2 DEF TargetOnward
  <2>2. \A g \in report.recorded : outcome'[g] = outcome[g]
    <3>1. \A g \in report.recorded : outcome[g] \in {"ok", "failed"}
      BY <1>6 DEF AsExpected
    <3> QED BY <1>6, <3>1 DEF OutcomesOnward
  <2>3. (\A g \in report.recorded : AsExpected(g))'
    BY <1>2, <1>6, <2>2 DEF AsExpected
  <2> QED BY <1>2, <2>1, <2>3 DEF Rightful
<1>8. FactsDone'
  <2>1. \A i : Done(i)' <=> Done(i)
    BY <1>2 DEF Done
  <2>2. ASSUME NEW i \in 1 .. Len(Program), Done(i)
        PROVE  FactOf(i)'
    <3>1. FactOf(i) /\ Solvent
      BY <2>2, StagesParts DEF FactsDone
    <3> QED BY <1>1, <1>6, <3>1, FactsLast
  <2> QED BY <1>2, <2>1, <2>2 DEF FactsDone
<1> QED BY <1>5, <1>7, <1>8 DEF StagesNow

-----------------------------------------------------------------------------
(* What happens outside the process. *)

\* Whose right a call recognizes or pays, and what it takes.
RightfulCall(call) ==
    /\ call.fn \in {"recognize", "recognizeBare"} => call.key \in DOMAIN Rights
    /\ call.fn = "withdraw" => call.key \in DOMAIN Earned[script]
    /\ call.fn \in {"refund", "fundFree"} => call.arg \in Nat

LEMMA CallRights ==
  ASSUME ChainsTyped, Rightful, NEW call, RightfulCall(call), Accepts(call), Applied(call)
  PROVE  /\ TargetOnward
         /\ target'.recognized \subseteq DOMAIN Rights /\ target'.paid \subseteq DOMAIN Earned[script]
         /\ target'.refunded \in Nat
         /\ call.fn = "import" => "checkpoint" \in target'.evidence
         /\ call.fn = "refund" => target'.refunded >= call.arg
<1>1. /\ DOMAIN target = {"funding", "evidence", "recognized", "paid", "free", "refunded", "facts"}
      /\ target.recognized \subseteq DOMAIN Rights /\ target.paid \subseteq DOMAIN Earned[script]
      /\ target.refunded \in Nat /\ target' = TargetAfter(call)
  BY DEF ChainsTyped, Rightful, Applied
<1>2. PICK rights, earned : rights = DOMAIN Rights /\ earned = DOMAIN Earned[script]
  OBVIOUS
<1>3. CASE call.fn = "fund"
  <2>1. target' = [target EXCEPT !.funding = "funded"] /\ target.funding = "none"
    BY <1>1, <1>3 DEF TargetAfter, Accepts
  <2> QED BY <1>1, <1>2, <1>3, <2>1 DEF TargetOnward
<1>4. CASE call.fn \in {"authenticate", "import"}
  <2>1. \E what : /\ target' = [target EXCEPT !.evidence = @ \cup {what}]
                  /\ call.fn = "import" => what = "checkpoint"
    BY <1>1, <1>4 DEF TargetAfter
  <2> QED BY <1>1, <1>2, <1>4, <2>1 DEF TargetOnward
<1>5. CASE call.fn \in {"recognize", "recognizeBare"}
  <2>1. PICK free : target' = [target EXCEPT !.recognized = @ \cup {call.key}, !.free = free]
    BY <1>1, <1>5 DEF TargetAfter
  <2>2. call.key \in rights
    BY <1>2, <1>5 DEF RightfulCall
  <2> QED BY <1>1, <1>2, <1>5, <2>1, <2>2 DEF TargetOnward
<1>6. CASE call.fn = "withdraw"
  <2>1. target' = [target EXCEPT !.paid = @ \cup {call.key}]
    BY <1>1, <1>6 DEF TargetAfter
  <2>2. call.key \in earned
    BY <1>2, <1>6 DEF RightfulCall
  <2> QED BY <1>1, <1>2, <1>6, <2>1, <2>2 DEF TargetOnward
<1>7. CASE call.fn \in {"record", "fundFree"}
  <2>1. \E free, facts : target' = [target EXCEPT !.free = free, !.facts = facts]
    <3>1. CASE call.fn = "record"
      <4>1. target' = [target EXCEPT !.free = target.free, !.facts = target.facts \cup {"invoice"}]
        BY <1>1, <3>1 DEF TargetAfter
      <4> QED BY <4>1
    <3>2. CASE call.fn = "fundFree"
      <4>1. target' = [target EXCEPT !.free = target.free - call.arg,
                                     !.facts = target.facts \cup {"successor"}]
        BY <1>1, <3>2 DEF TargetAfter
      <4> QED BY <4>1
    <3> QED BY <1>7, <3>1, <3>2
  <2> QED BY <1>1, <1>2, <1>7, <2>1 DEF TargetOnward
<1>8. CASE call.fn = "refund"
  <2>1. PICK free : target' = [target EXCEPT !.free = free, !.refunded = @ + call.arg]
    BY <1>1, <1>8 DEF TargetAfter
  <2>2. call.arg \in Nat
    BY <1>8 DEF RightfulCall
  <2> QED BY <1>1, <1>2, <1>8, <2>1, <2>2 DEF TargetOnward
<1>9. CASE call.fn \notin {"fund", "authenticate", "import", "recognize", "recognizeBare", "withdraw",
                           "record", "fundFree", "refund"}
  <2>1. target' = target
    BY <1>1, <1>9 DEF TargetAfter
  <2> QED BY <1>1, <1>2, <1>9, <2>1 DEF TargetOnward
<1> QED BY <1>3, <1>4, <1>5, <1>6, <1>7, <1>8, <1>9

\* A call is accepted, the script's or another's.
LEMMA CallStages ==
  ASSUME StagesInv, NEW call, WellMade(call), WellPriced(call), RightfulCall(call),
         Accepts(call), Applied(call),
         UNCHANGED <<script, misread, report, process, sent>>, OutcomesOnward,
         \A g \in DOMAIN sent : outcome'[g] = "ok" /\ outcome[g] # "ok" => sent[g] = call,
         call.fn \in {"deliver", "settle"} => WorkSent(call.id)
  PROVE  StagesNow'
<1>1. /\ SentInv /\ Priced /\ Solvent /\ Rightful /\ PricedIn(orders) /\ TermsTracked /\ ChainsTyped
      /\ \A id \in DOMAIN orders : HasWork(orders[id]) => WorkSent(id)
  BY StagesParts, SentParts
<1>2. Priced' /\ Solvent' /\ SettledStays
  BY <1>1, CallSettles
<1>3. ChainsOnward
  BY <1>1, AppliedOnward
<1>4. /\ TargetOnward
      /\ target'.recognized \subseteq DOMAIN Rights /\ target'.paid \subseteq DOMAIN Earned[script]
      /\ target'.refunded \in Nat
      /\ call.fn = "import" => "checkpoint" \in target'.evidence
      /\ call.fn = "refund" => target'.refunded >= call.arg
  BY <1>1, CallRights
<1>5. ASSUME NEW id \in DOMAIN orders, HasWork(orders'[id])
      PROVE  HasWork(orders[id]) \/ WorkSent(id)
  <2>1. CASE id # call.id
    <3>1. orders'[id] = orders[id]
      BY <2>1 DEF Applied, OrdersAfter
    <3> QED BY <1>5, <3>1
  <2>2. CASE id = call.id
    <3>1. orders'[id] = OrderAfter(call, orders[id])
      BY <1>1, <2>2, CallOrders
    <3>2. HasWork(orders'[id]) => HasWork(orders[id]) \/ call.fn \in {"deliver", "settle"}
      BY <1>1, <2>2, <3>1, CallPrices DEF HasWork
    <3> QED BY <1>5, <2>2, <3>2
  <2> QED BY <2>1, <2>2
<1>7. \A g \in DOMAIN sent : outcome'[g] = "ok" /\ outcome[g] # "ok" =>
            /\ sent[g].fn = "import" => "checkpoint" \in target'.evidence
            /\ sent[g].fn = "refund" => target'.refunded >= sent[g].arg
  BY <1>4
<1> QED BY <1>1, <1>2, <1>3, <1>4, <1>5, <1>7, OutsideStages

\* What a transaction of the program is within.
LEMMA SentPriced ==
  ASSUME StagesInv, NEW h \in DOMAIN sent, outcome[h] = "waiting", NEW call, call = sent[h],
         Accepts(call), call.via = "safe" => call.nonce = source.nonce
  PROVE  WellPriced(call) /\ RightfulCall(call)
<1>1. script \in Scripts /\ SendsRemembered
  BY StagesParts, SentParts
<1>2. PICK i \in 1 .. Len(Program) : FromStep(call, Program[i])
  BY <1>1 DEF SendsRemembered
<1>3. PICK step : step = Program[i]
  OBVIOUS
<1>4. /\ step.do \in Sending /\ call.fn = step.fn /\ call.via = step.do /\ call.key = step.key
      /\ call.arg = step.arg /\ (step.key \in Keys => call.id[1] = step.key)
  BY <1>2, <1>3 DEF FromStep
<1>5. /\ step.fn \in OrderFns => step.key \in Keys
      /\ step.do = "refresh" => step.fn = "expire"
  BY <1>1, <1>3, <1>4, ProgramCalls
<1>6. CASE step.do = "refresh"
  BY <1>4, <1>5, <1>6 DEF WellPriced, RightfulCall
<1>7. CASE IsCall(step)
  <2>1. /\ step.fn \in {"settle", "voteLast"} => step.arg \in 0 .. Budget[step.key]
        /\ step.fn \in {"recognize", "recognizeBare"} => step.key \in DOMAIN Rights
        /\ step.fn = "withdraw" => step.key \in DOMAIN Earned[script]
        /\ step.fn \in {"refund", "fundFree"} => step.arg \in Nat
    BY <1>1, <1>3, <1>7, StagesAssumption DEF Program, Rights
  <2>2. RightfulCall(call)
    BY <1>4, <2>1 DEF RightfulCall
  <2>3. call.fn \in {"settle", "voteLast"} => call.arg \in 0 .. Budget[call.id[1]]
    BY <1>4, <1>5, <2>1 DEF OrderFns, Settling
  <2> QED BY <2>2, <2>3 DEF WellPriced
<1> QED BY <1>4, <1>6, <1>7 DEF Sending, IsCall

\* Nothing that the ledger or the stages count changes.
LEMMA LedgerUnmoved ==
  ASSUME StagesInv, UNCHANGED script, DOMAIN orders' = DOMAIN orders,
         \A id \in DOMAIN orders :
            orders'[id].status = orders[id].status /\ orders'[id].pay = orders[id].pay,
         source'.phase = source.phase, source'.returned = source.returned
  PROVE  /\ Priced' /\ Solvent' /\ SettledStays
         /\ \A id \in DOMAIN orders : HasWork(orders'[id]) => HasWork(orders[id])
<1>1. Priced /\ Solvent /\ PricedIn(orders)
  BY StagesParts
<1>2. Priced' /\ PricedIn(orders')
  BY <1>1 DEF Priced, PricedIn
<1>3. \A id \in DOMAIN orders : Live(orders'[id]) <=> Live(orders[id])
  BY DEF Live
<1>4. Unresolved' = Unresolved /\ EarnedNow' = EarnedNow
  BY <1>1, <1>2, <1>3, LedgerStays, LedgerOf
<1>5. Program' = Program /\ (NoneLive' <=> NoneLive)
  BY <1>3 DEF Program, NoneLive
<1>6. Solvent'
  BY <1>1, <1>4, <1>5 DEF Solvent
<1>7. SettledStays
  BY <1>1, <1>4 DEF SettledStays, Solvent
<1> QED BY <1>2, <1>6, <1>7 DEF HasWork

\* No call is accepted.
LEMMA IdleStages ==
  ASSUME StagesInv, UNCHANGED <<script, misread, report, process, sent>>,
         ChainsOnward, OutcomesOnward,
         \A id \in DOMAIN orders :
            orders'[id].status = orders[id].status /\ orders'[id].pay = orders[id].pay,
         source'.phase = source.phase, source'.returned = source.returned, TargetOnward,
         target'.recognized = target.recognized, target'.paid = target.paid,
         target'.refunded = target.refunded,
         \A g \in DOMAIN sent : outcome'[g] = "ok" => outcome[g] = "ok"
  PROVE  StagesNow'
<1>1. DOMAIN orders' = DOMAIN orders
  BY DEF ChainsOnward
<1>2. /\ Priced' /\ Solvent' /\ SettledStays
      /\ \A id \in DOMAIN orders : HasWork(orders'[id]) => HasWork(orders[id])
  BY <1>1, LedgerUnmoved
<1>3. Rightful /\ Solvent
  BY StagesParts
<1>4. /\ target'.recognized \subseteq DOMAIN Rights /\ target'.paid \subseteq DOMAIN Earned[script]
      /\ target'.refunded \in Nat
  BY <1>3 DEF Rightful
<1> QED BY <1>2, <1>4, OutsideStages

LEMMA TargetStays ==
  ASSUME Rightful, UNCHANGED target
  PROVE  TargetOnward
BY DEF TargetOnward, Rightful

LEMMA IncludeStages ==
  ASSUME StagesInv, NEW h \in DOMAIN sent, Include(h)
  PROVE  StagesNow'
<1>1. /\ UNCHANGED <<sent, script, report, process, misread, lost>> /\ outcome[h] = "waiting"
      /\ script \in Scripts /\ SendsRemembered /\ ChainsTyped /\ TermsTracked /\ SweepsEmpty /\ SentInv
      /\ Rightful
  BY StagesParts, SentParts DEF Include, historyVars
<1>2. PICK i \in 1 .. Len(Program) : FromStep(sent[h], Program[i])
  BY <1>1 DEF SendsRemembered
<1>3. PICK call : call = sent[h]
  OBVIOUS
<1>4. WellMade(call) /\ call.fn \in CallFns
  BY <1>1, <1>2, <1>3, CallsWellMade
<1>5. \A what, g : outcome' = [outcome EXCEPT ![h] = what] /\ g # h => outcome'[g] = outcome[g]
  OBVIOUS
<1>6. CASE Accepts(sent[h]) /\ (sent[h].via = "safe" => sent[h].nonce = source.nonce)
  <2>1. Accepts(call) /\ Applied(call) /\ outcome' = [outcome EXCEPT ![h] = "ok"]
    BY <1>3, <1>6 DEF Include
  <2>2. Effected(call)' /\ call' = sent'[h]
    <3>1. call.fn = "sweep" => NoneLive
      BY <1>1, <1>3 DEF SweepsEmpty
    <3> QED BY <1>1, <1>3, <1>4, <2>1, <3>1, CallEffected
  <2>3. OutcomesOnward
    BY <1>1, <2>1, <2>2, OutcomeSettles
  <2>4. WellPriced(call) /\ RightfulCall(call)
    BY <1>1, <1>3, <1>6, SentPriced
  <2>5. call.fn \in {"deliver", "settle"} => WorkSent(call.id)
    BY <1>3 DEF WorkSent
  <2>6. \A g \in DOMAIN sent : outcome'[g] = "ok" /\ outcome[g] # "ok" => sent[g] = call
    BY <1>3, <1>5, <2>1
  <2> QED BY <1>1, <1>4, <2>1, <2>3, <2>4, <2>5, <2>6, CallStages
<1>7. CASE ~ (Accepts(sent[h]) /\ (sent[h].via = "safe" => sent[h].nonce = source.nonce))
  <2>1. UNCHANGED <<orders, source, target>> /\ outcome' = [outcome EXCEPT ![h] = "failed"]
    BY <1>7 DEF Include
  <2>2. OutcomesOnward
    BY <1>1, <2>1, OutcomeSettles
  <2>3. \A g \in DOMAIN sent : outcome'[g] = "ok" => outcome[g] = "ok"
    BY <1>1, <1>5, <2>1 DEF SendsRemembered
  <2> QED BY <1>1, <2>1, <2>2, <2>3, ChainsStay, TargetStays, IdleStages
<1> QED BY <1>6, <1>7

LEMMA DropStages ==
  ASSUME StagesInv, NEW h \in DOMAIN sent, Drop(h)
  PROVE  StagesNow'
<1>1. /\ UNCHANGED <<orders, source, target, sent, script, report, process, misread, lost>>
      /\ outcome[h] = "waiting" /\ outcome' = [outcome EXCEPT ![h] = "dropped"]
      /\ SendsRemembered /\ SentInv /\ Rightful
  BY StagesParts, SentParts DEF Drop
<1>2. OutcomesOnward
  BY <1>1, OutcomeSettles
<1>3. \A g \in DOMAIN sent : outcome'[g] = "ok" => outcome[g] = "ok"
  BY <1>1
<1> QED BY <1>1, <1>2, <1>3, ChainsStay, TargetStays, IdleStages

LEMMA OthersStages ==
  ASSUME StagesInv, NEW call \in OthersCalls, OtherActs(call)
  PROVE  StagesNow'
<1>1. /\ UNCHANGED <<sent, outcome, report, process, script, lost, misread>>
      /\ Accepts(call) /\ Applied(call) /\ SendsRemembered
  BY StagesParts, SentParts DEF OtherActs
<1>2. /\ call.fn \in {"drain", "sweep", "expireEpoch", "refund", "recognize", "withdraw",
                      "authenticate", "import", "expire", "finalize"}
      /\ WellMade(call) /\ RightfulCall(call)
  <2>1. CASE \E step \in OthersSteps : call = CallOf(step, << >>)
    <3>1. call.fn = "refund" => call.arg \in Nat
      BY <1>1 DEF Accepts, Settling
    <3> QED BY <2>1, <3>1
          DEF OthersSteps, CallOf, Direct, Target, Step, WellMade, RightfulCall, OrderFns, Settling
  <2>2. CASE \E fn \in {"expire", "finalize"}, id \in DOMAIN orders :
                call = CallOf(Direct("other", fn, id[1], 0), id)
    BY <2>2 DEF CallOf, Direct, Step, WellMade, RightfulCall, OrderFns, Settling
  <2> QED BY <2>1, <2>2 DEF OthersCalls
<1>3. OutcomesOnward /\ WellPriced(call)
  BY <1>1, <1>2, OutcomesStay DEF WellPriced
<1> QED BY <1>1, <1>2, <1>3, CallStages

LEMMA PassStages ==
  ASSUME StagesInv, NEW id \in DOMAIN orders, Pass(id)
  PROVE  StagesNow'
<1>1. PICK passed :
         /\ orders' = [orders EXCEPT ![id].passed = passed]
         /\ UNCHANGED <<source, target, sent, outcome, report, process, script, lost, misread>>
         /\ SendsRemembered /\ ChainsTyped /\ TermsTracked /\ Rightful
  BY StagesParts, SentParts DEF Pass
<1>2. DOMAIN orders[id] = {"status", "agreed", "pay", "passed", "outcome"}
  BY <1>1, OrderTyped
<1>3. /\ DOMAIN orders' = DOMAIN orders
      /\ \A other \in DOMAIN orders : /\ orders'[other].status = orders[other].status
                                      /\ orders'[other].agreed = orders[other].agreed
                                      /\ orders'[other].pay = orders[other].pay
  BY <1>1, <1>2
<1>4. OrdersOnward /\ (NoneLive' <=> NoneLive)
  BY <1>3 DEF OrdersOnward, OrderOnward, NoneLive, Live
<1>5. LedgersOnward /\ ChainsTyped'
  BY <1>1, <1>3, <1>4, TypesOutlast DEF LedgersOnward, ChainsTyped
<1>6. ChainsOnward
  BY <1>3, <1>4, <1>5 DEF ChainsOnward
<1> QED BY <1>1, <1>3, <1>6, OutcomesStay, TargetStays, IdleStages

LEMMA AdvanceStages ==
  ASSUME StagesInv, Advance
  PROVE  StagesNow'
<1>1. /\ UNCHANGED <<orders, sent, outcome, report, process, script, lost, misread>>
      /\ SendsRemembered /\ ChainsTyped /\ TermsTracked /\ Rightful
  BY StagesParts, SentParts DEF Advance, historyVars
<1>2. /\ DOMAIN source = {"phase", "returned", "votes", "facts", "nonce", "attested"}
      /\ DOMAIN target = {"funding", "evidence", "recognized", "paid", "free", "refunded", "facts"}
  BY <1>1 DEF ChainsTyped
<1>3. /\ DOMAIN source' = DOMAIN source /\ DOMAIN target' = DOMAIN target
      /\ source'.phase = source.phase /\ source'.returned = source.returned
      /\ source'.votes = source.votes /\ source'.nonce = source.nonce
      /\ source.facts \subseteq source'.facts
      /\ target.funding \in {"none", "final"} => target'.funding = target.funding
      /\ target.funding # "none" => target'.funding # "none"
      /\ target'.recognized = target.recognized /\ target'.paid = target.paid
      /\ target'.facts = target.facts /\ target'.evidence = target.evidence
      /\ target'.refunded = target.refunded
  <2>1. CASE target.funding = "funded" /\ target' = [target EXCEPT !.funding = "final"] /\ UNCHANGED source
    BY <1>2, <2>1
  <2>2. CASE source' = [source EXCEPT !.attested = TRUE] /\ UNCHANGED target
    BY <1>2, <2>2
  <2>3. CASE source' = [source EXCEPT !.facts = @ \cup {"cutoff"}] /\ UNCHANGED target
    BY <1>2, <2>3
  <2> QED BY <2>1, <2>2, <2>3 DEF Advance
<1>4. OrdersOnward /\ (NoneLive' <=> NoneLive)
  BY <1>1 DEF OrdersOnward, OrderOnward, NoneLive
<1>5. LedgersOnward /\ ChainsTyped'
  BY <1>1, <1>3, <1>4, TypesOutlast DEF LedgersOnward, ChainsTyped
<1>6. ChainsOnward
  BY <1>1, <1>4, <1>5 DEF ChainsOnward
<1>7. TargetOnward
  BY <1>1, <1>3 DEF TargetOnward, Rightful
<1> QED BY <1>1, <1>3, <1>6, <1>7, OutcomesStay, IdleStages

LEMMA PassCutoffStages ==
  ASSUME StagesInv, PassCutoff
  PROVE  StagesNow'
<1>1. PICK passed :
         /\ source' = [source EXCEPT !.facts = @ \cup passed]
         /\ UNCHANGED <<orders, target, sent, outcome, report, process, script, lost, misread>>
         /\ SendsRemembered /\ ChainsTyped /\ TermsTracked /\ Rightful
  BY StagesParts, SentParts DEF PassCutoff
<1>2. DOMAIN source = {"phase", "returned", "votes", "facts", "nonce", "attested"}
  BY <1>1 DEF ChainsTyped
<1>3. /\ DOMAIN source' = DOMAIN source
      /\ source'.phase = source.phase /\ source'.returned = source.returned
      /\ source'.votes = source.votes /\ source'.nonce = source.nonce
      /\ source.facts \subseteq source'.facts
  BY <1>1, <1>2
<1>4. OrdersOnward /\ (NoneLive' <=> NoneLive)
  BY <1>1 DEF OrdersOnward, OrderOnward, NoneLive
<1>5. LedgersOnward /\ ChainsTyped'
  BY <1>1, <1>3, <1>4, TypesOutlast DEF LedgersOnward, ChainsTyped
<1>6. ChainsOnward
  BY <1>1, <1>4, <1>5 DEF ChainsOnward
<1> QED BY <1>1, <1>3, <1>6, OutcomesStay, TargetStays, IdleStages

-----------------------------------------------------------------------------
(* The process goes on, and the chains do not: what it saw. *)

LEMMA FactsRemain ==
  ASSUME UNCHANGED <<script, orders, source, target>>, NEW i, FactOf(i)
  PROVE  FactOf(i)'
<1>1. Program' = Program /\ Rights' = Rights /\ EarnedNow' = EarnedNow
  BY DEF Program, Rights, EarnedNow, SumOver
<1>2. \A key : /\ Generations(key)' = Generations(key) /\ OrderOf(key)' = OrderOf(key)
               /\ \A amount : Paid(key, amount)' <=> Paid(key, amount)
  BY DEF Generations, Current, OrderOf, Paid
<1>3. PICK step : step = Program[i] /\ step = Program'[i]
  BY <1>1
<1>4. (IsCall(step) /\ step.fn = "acceptOffer" /\ Unrefreshed(Program, i)
              => Generations(step.key) # {} /\ OrderOf(step.key).agreed)'
  BY <1>1, <1>2, <1>3 DEF FactOf
<1>5. (\A key \in Keys : SeesPay(Program, i, key) => Generations(key) # {} /\ Paid(key, Intended[key]))'
  BY <1>1, <1>2 DEF FactOf
<1>6. (/\ SeesAccounts(Program, i) => source.returned >= step.arg[4]
       /\ SeesClosed(Program, i) => source.phase = "closed" /\ EarnedNow = step.arg[3]
       /\ step.do = "check" /\ step.fn = "reserve" => target.recognized = DOMAIN Rights
       /\ step.do = "pause" /\ step.fn = "funding" => target.funding = "final"
       /\ TargetCall(Program, i, "import") => Imported
       /\ TargetCall(Program, i, "withdraw") => step.key \in target.paid
       /\ TargetCall(Program, i, "refund") => target.refunded >= step.arg)'
  BY <1>1, <1>3 DEF FactOf, Imported
<1> QED BY <1>3, <1>4, <1>5, <1>6 DEF FactOf

LEMMA QuietStages ==
  ASSUME StagesInv, UNCHANGED <<script, orders, source, target, sent, outcome>>,
         report.stages \subseteq report'.stages,
         \A g \in report'.recorded : AsExpected(g),
         \A i \in 1 .. Len(Program) : Done(i)' => Done(i) \/ FactOf(i)
  PROVE  StagesNow'
<1>1. Priced /\ Solvent /\ Worked /\ Rightful /\ FactsDone
  BY StagesParts
<1>2. /\ Program' = Program /\ Rights' = Rights /\ EarnedNow' = EarnedNow /\ Unresolved' = Unresolved
      /\ (NoneLive' <=> NoneLive)
  BY DEF Program, Rights, EarnedNow, Unresolved, SumOver, NoneLive
<1>3. Priced' /\ Solvent'
  BY <1>1, <1>2 DEF Priced, Solvent
<1>4. Worked'
  <2>1. \A key : Current(key)' = Current(key)
    BY DEF Current, Generations
  <2>2. ASSUME NEW g \in DOMAIN sent
        PROVE  (\E i \in 1 .. Len(Program) : FromStep(sent[g], Program[i]) /\ Behind(i))'
    <3>1. PICK i \in 1 .. Len(Program) : FromStep(sent[g], Program[i]) /\ Behind(i)
      BY <1>1 DEF Worked
    <3>2. FromStep(sent[g], Program[i])'
      BY <1>2, <3>1 DEF FromStep
    <3>3. Behind(i)'
      BY <1>2, <3>1 DEF Behind
    <3> QED BY <1>2, <3>2, <3>3
  <2> QED BY <1>1, <2>1, <2>2 DEF Worked
<1>5. Rightful'
  <2>1. (\A g \in report.recorded : AsExpected(g))'
    BY DEF AsExpected
  <2> QED BY <1>1, <1>2, <2>1 DEF Rightful
<1>6. FactsDone'
  <2>1. \A i \in 1 .. Len(Program) : FactOf(i) => FactOf(i)'
    BY FactsRemain
  <2> QED BY <1>1, <1>2, <2>1 DEF FactsDone
<1> QED BY <1>3, <1>4, <1>5, <1>6 DEF StagesNow

\* The steps that are done when the process goes on from pc.
LEMMA DoneGoesOn ==
  ASSUME SentInv, UNCHANGED script, NEW pc \in 0 .. Len(Program),
         process' = [at |-> "step", pc |-> Following(pc, report'.stages), hash |-> 0],
         pc > 0 => process.at # "stopped" /\ pc = process.pc,
         \/ report'.stages = report.stages
         \/ pc > 0 /\ This.do = "mark" /\ report'.stages = report.stages \cup {This.stage},
         NEW i \in 1 .. Len(Program), Done(i)'
  PROVE  Done(i) \/ (pc > 0 /\ i = pc)
<1> DEFINE next == Following(pc, report'.stages)
<1>1. Program' = Program /\ Len(Program) \in Nat /\ script \in Scripts /\ StepsPassed
  BY SentParts, ProgramLength DEF Program
<1>2. /\ next \in pc + 1 .. Len(Program) + 1
      /\ \A j \in pc + 1 .. next - 1 : j <= Len(Program) /\ Program[j].stage \in report'.stages
  BY <1>1, FollowingStep
<1>3. process'.at = "step" /\ process'.pc = next
  OBVIOUS
<1> HIDE DEF next
<1>4. pc > 0 => pc \in 1 .. Len(Program) /\ Program[pc] = This
  BY <1>1 DEF This
<1>5. \A m, j \in 1 .. Len(Program) :
         Program[m].do = "mark" /\ Program[j].stage = Program[m].stage => j <= m
  BY <1>1, SweepAssumption DEF Program
<1>6. i < pc => Done(i)
  BY DEF Done
<1>7. ASSUME Program[i].stage \in report'.stages PROVE Done(i) \/ (pc > 0 /\ i = pc)
  <2>1. CASE Program[i].stage \in report.stages
    <3>1. PICK m \in 1 .. Len(Program) : Program[m].do = "mark" /\ Program[m].stage = Program[i].stage
      BY <1>1, <2>1 DEF StepsPassed
    <3>2. i <= m
      BY <1>5, <3>1
    <3>3. m \in i .. Len(Program)
      BY <1>1, <3>2
    <3> QED BY <2>1, <3>1, <3>3 DEF Done
  <2>2. CASE Program[i].stage \notin report.stages
    <3>1. pc > 0 /\ This.do = "mark" /\ Program[i].stage = This.stage
      BY <1>7, <2>2
    <3>2. i <= pc
      BY <1>4, <1>5, <3>1
    <3> QED BY <1>6, <3>1, <3>2
  <2> QED BY <2>1, <2>2
<1>8. CASE \E m \in i .. Len(Program) : Program[m].do = "mark" /\ Program[m].stage \in report'.stages
  <2>1. PICK m \in i .. Len(Program) : Program[m].do = "mark" /\ Program[m].stage \in report'.stages
    BY <1>8
  <2>2. CASE Program[m].stage \in report.stages
    BY <2>1, <2>2 DEF Done
  <2>3. CASE Program[m].stage \notin report.stages
    <3>1. pc > 0 /\ This.do = "mark" /\ Program[m].stage = This.stage
      BY <2>1, <2>3
    <3>2. m \in 1 .. Len(Program) /\ m <= pc
      BY <1>1, <1>4, <1>5, <3>1
    <3>3. i <= pc
      BY <3>2, <1>1
    <3> QED BY <1>6, <3>1, <3>3
  <2> QED BY <2>2, <2>3
<1>9. CASE i < next
  <2>1. CASE i <= pc
    BY <1>6, <2>1
  <2>2. CASE i > pc
    <3>1. i \in pc + 1 .. next - 1
      BY <1>1, <1>2, <1>9, <2>2
    <3> QED BY <1>2, <1>7, <3>1
  <2> QED BY <2>1, <2>2
<1> QED BY <1>1, <1>3, <1>8, <1>9 DEF Done

\* It goes on from the step that it is at.
LEMMA ProceedStages ==
  ASSUME StagesInv, UNCHANGED <<script, chainVars>>, Proceed, process.at # "stopped",
         process.pc <= Len(Program), report'.stages = report.stages,
         \A g \in report'.recorded : AsExpected(g), FactOf(process.pc)
  PROVE  StagesNow'
<1>1. PICK pc : pc = process.pc
  OBVIOUS
<1>2. SentInv /\ pc \in 0 .. Len(Program)
  <2>1. SentInv
    BY StagesParts
  <2> QED BY <1>1, <2>1, AtProgram
<1>3. process' = [at |-> "step", pc |-> Following(pc, report'.stages), hash |-> 0]
  BY <1>1 DEF Proceed, Goto
<1>4. \A i \in 1 .. Len(Program) : Done(i)' => Done(i) \/ FactOf(i)
  BY <1>1, <1>2, <1>3, DoneGoesOn
<1> QED BY <1>4, QuietStages DEF chainVars

LEMMA RestartStages ==
  ASSUME StagesInv, UNCHANGED <<script, chainVars>>, Goto(Following(0, report.stages)),
         report'.stages = report.stages, \A g \in report'.recorded : AsExpected(g)
  PROVE  StagesNow'
<1>1. SentInv /\ Len(Program) \in Nat
  BY StagesParts, SentParts, ProgramLength
<1>2. PICK pc \in 0 .. Len(Program) : pc = 0
  BY <1>1
<1>3. process' = [at |-> "step", pc |-> Following(pc, report'.stages), hash |-> 0]
  BY <1>2 DEF Goto
<1>4. \A i \in 1 .. Len(Program) : Done(i)' => Done(i) \/ FactOf(i)
  BY <1>1, <1>2, <1>3, DoneGoesOn
<1> QED BY <1>4, QuietStages DEF chainVars

\* It ends, or stays where it is.
LEMMA StoppingStages ==
  ASSUME StagesInv, UNCHANGED <<script, chainVars>>,
         \/ process' = Stopped \/ process' = process
         \/ process.at # "stopped" /\ process'.pc = process.pc,
         report'.stages = report.stages, \A g \in report'.recorded : AsExpected(g)
  PROVE  StagesNow'
<1>1. \A i \in 1 .. Len(Program) : Done(i)' => Done(i)
  BY DEF Done, Program, Stopped
<1> QED BY <1>1, QuietStages DEF chainVars

\* Steps from which nothing follows.
LEMMA NothingSeen ==
  ASSUME NEW i, Program[i].do \notin {"safe", "direct", "target", "check", "pause"}
  PROVE  FactOf(i)
BY DEF FactOf, IsCall, SeesAccounts, SeesPay, SeesClosed, TargetCall

-----------------------------------------------------------------------------
(* What a check of the accounts shows. *)

LEMMA KeysFinite == IsFiniteSet(Keys) /\ \A key \in Keys : Intended[key] \in Int
<1>1. Keys = {"a", "b", "c", "declined", "expired", "default", "quorum", "timeout", "mutual",
               "late", "p", "q"}
  BY DEF Keys, Budget
<1>2. \A key \in Keys : Intended[key] \in Int
  BY <1>1 DEF Intended
<1>3. IsFiniteSet(Keys)
  <2>1. ASSUME NEW x, NEW y PROVE IsFiniteSet({x, y})
    <3>1. IsFiniteSet({x} \cup {y}) /\ {x} \cup {y} = {x, y}
      BY FS_Singleton, FS_Union
    <3> QED BY <3>1
  <2>2. ASSUME NEW u, NEW v, NEW x, NEW y PROVE IsFiniteSet({u, v, x, y})
    <3>1. IsFiniteSet({u, v}) /\ IsFiniteSet({x, y}) /\ {u, v} \cup {x, y} = {u, v, x, y}
      BY <2>1
    <3> QED BY <3>1, FS_Union
  <2>3. PICK S, T, U : S = {"a", "b", "c", "declined"} /\ T = {"expired", "default", "quorum", "timeout"}
                       /\ U = {"mutual", "late", "p", "q"}
    OBVIOUS
  <2>4. IsFiniteSet(S) /\ IsFiniteSet(T) /\ IsFiniteSet(U) /\ Keys = (S \cup T) \cup U
    BY <1>1, <2>2, <2>3
  <2> QED BY <2>4, FS_Union
<1> QED BY <1>2, <1>3

\* A stage of the report says what its order paid.
LEMMA StagePaid ==
  ASSUME StagesInv, NEW stage \in DOMAIN Pays, stage \in report.stages, Pays[stage] \in Keys
  PROVE  Generations(Pays[stage]) # {} /\ Paid(Pays[stage], Intended[Pays[stage]])
<1>1. script \in Scripts /\ StepsPassed /\ FactsDone
  BY StagesParts, SentParts
<1>2. PICK m \in 1 .. Len(Program) : Program[m].do = "mark" /\ Program[m].stage = stage
  BY <1>1 DEF StepsPassed
<1>3. PICK w \in 1 .. m - 1 : SeesPay(Program, w, Pays[stage])
  BY <1>1, <1>2, StagesAssumption DEF Program, Founded
<1>4. w \in 1 .. Len(Program) /\ m \in w .. Len(Program)
  BY <1>1, <1>3, ProgramLength
<1>5. FactOf(w)
  BY <1>1, <1>2, <1>4 DEF FactsDone, Done
<1> QED BY <1>3, <1>5 DEF FactOf

\* Pay comes of work before the step that the process is at, when later work waits for the
\* stage of that step.
LEMMA PayWorked ==
  ASSUME StagesInv, process.at # "stopped", process.pc <= Len(Program),
         \A i \in process.pc .. Len(Program) :
            IsWork(Program[i]) => MarkedBefore(Program, This.stage, i),
         NEW id \in DOMAIN orders, orders[id].pay # 0
  PROVE  id[1] \in WorkKeys(Program, process.pc) /\ id = Current(id[1])
<1>1. SentInv /\ script \in Scripts /\ Worked /\ Drafting
  BY StagesParts, SentParts
<1>2. PICK g \in DOMAIN sent : sent[g].fn \in {"deliver", "settle"} /\ sent[g].id = id
  BY <1>1 DEF Worked
<1>3. /\ \E i \in 1 .. Len(Program) : FromStep(sent[g], Program[i]) /\ Behind(i)
      /\ sent[g].id = Current(sent[g].key)
  BY <1>1, <1>2 DEF Worked
<1>4. PICK i \in 1 .. Len(Program) : FromStep(sent[g], Program[i]) /\ Behind(i)
  BY <1>3
<1>5. /\ Program[i].do \in Sending /\ sent[g].fn = Program[i].fn /\ sent[g].key = Program[i].key
      /\ Program[i].key \in Keys => sent[g].id[1] = Program[i].key
  BY <1>4 DEF FromStep
<1>6. Program[i].key \in Keys /\ IsWork(Program[i])
  <2>1. Program[i].fn \in OrderFns
    BY <1>2, <1>5 DEF OrderFns, Settling
  <2>2. Program[i].key \in Keys /\ Program[i].do # "refresh"
    BY <1>1, <1>2, <1>5, <2>1, ProgramCalls
  <2>3. Program[i].do \in {"safe", "direct", "target"}
    BY <1>5, <2>2 DEF Sending
  <2> QED BY <1>2, <1>5, <2>2, <2>3 DEF IsWork, IsCall
<1>7. process.pc \in 1 .. Len(Program) /\ Len(Program) \in Nat
  BY <1>1, AtProgram
<1>8. i < process.pc
  <2> SUFFICES ASSUME i >= process.pc PROVE FALSE
    BY <1>7
  <2>1. i \in process.pc .. Len(Program)
    BY <1>7
  <2>2. PICK m \in 1 .. i - 1 : Program[m].do = "mark" /\ Program[m].stage = This.stage
    BY <1>6, <2>1 DEF MarkedBefore
  <2>3. This.stage \in report.stages
    BY <1>4, <2>2 DEF Behind
  <2> QED BY <1>1, <2>3 DEF Drafting
<1>9. i \in 1 .. process.pc - 1
  BY <1>7, <1>8
<1> QED BY <1>2, <1>3, <1>5, <1>6, <1>9 DEF WorkKeys

\* The pay of the one order that the check is about.
LEMMA SumTellsPay ==
  ASSUME NEW W, IsFiniteSet(W), NEW f, NEW e, NEW key \in W,
         \A k \in W : f[k] \in Int /\ e[k] \in Int,
         \A k \in W \ {key} : f[k] = e[k],
         SumFunctionOnSet(f, W) = SumFunctionOnSet(e, W)
  PROVE  f[key] = e[key]
<1>1. SumFunctionOnSet(e, W) = SumFunctionOnSet(f, W) - f[key] + e[key]
  BY SumChange
<1>2. SumFunctionOnSet(f, W) \in Int /\ f[key] \in Int /\ e[key] \in Int
  BY SumIsInteger
<1> QED BY <1>1, <1>2

LEMMA CheckTellsPay ==
  ASSUME StagesInv, process.at # "stopped", process.pc <= Len(Program),
         EarnedNow = This.arg[3], NEW key \in Keys, SeesPay(Program, process.pc, key)
  PROVE  Generations(key) # {} /\ Paid(key, Intended[key])
<1> DEFINE w == process.pc
           W == WorkKeys(Program, w)
           place == [k \in W |-> Current(k)]
           pays == [id \in DOMAIN orders |-> orders[id].pay]
           paid == [k \in W |-> orders[Current(k)].pay]
           meant == [k \in W |-> Intended[k]]
<1>1. /\ SentInv /\ script \in Scripts /\ TermsTracked /\ StepsPassed /\ PricedIn(orders)
      /\ w \in 1 .. Len(Program) /\ Program[w] = This /\ Len(Program) \in Nat
  BY StagesParts, SentParts, AtProgram
<1>2. ASSUME NEW i \in 1 .. w - 1
      PROVE  i \in 1 .. Len(Program) /\ Passed(i) /\ StepFacts(i)
  <2>1. i \in 1 .. Len(Program) /\ Passed(i)
    BY <1>1 DEF Passed
  <2> QED BY <1>1, <2>1, PassedFacts
<1>3. Generations(key) # {} /\ OrderOf(key).status = "final"
  <2>1. PICK f \in 1 .. w - 1 : SettlesOrder(Program, f) /\ Program[f].key = key
    BY DEF SeesPay
  <2> QED BY <1>2, <2>1 DEF StepFacts
<1>4. ASSUME NEW k, Generations(k) # {}
      PROVE  Current(k) \in DOMAIN orders /\ Current(k)[1] = k
  <2>1. PICK id \in DOMAIN orders : id[1] = k
    BY <1>4 DEF Generations
  <2> QED BY <1>1, <2>1, CurrentIsNewest DEF Generations
<1>5. \A i \in w .. Len(Program) : IsWork(Program[i]) => MarkedBefore(Program, This.stage, i)
  BY <1>1 DEF SeesPay
<1>6. \A id \in DOMAIN orders : orders[id].pay # 0 => id[1] \in W /\ id = Current(id[1])
  BY <1>5, PayWorked
<1>7. ASSUME key \notin W PROVE OrderOf(key).pay = Intended[key]
  <2>1. Intended[key] = 0
    BY <1>7 DEF SeesPay
  <2>2. Current(key) \in DOMAIN orders /\ Current(key)[1] = key
    BY <1>3, <1>4
  <2>3. orders[Current(key)].pay = 0
    BY <1>6, <1>7, <2>2
  <2> QED BY <2>1, <2>3 DEF OrderOf
<1>8. ASSUME key \in W PROVE OrderOf(key).pay = Intended[key]
  <2>1. IsFiniteSet(W) /\ W \subseteq Keys
    <3>1. W \subseteq Keys
      BY DEF WorkKeys
    <3> QED BY <3>1, KeysFinite, FS_Subset
  <2>2. ASSUME NEW k \in W PROVE Generations(k) # {} /\ Current(k) \in DOMAIN orders /\ Current(k)[1] = k
    <3>1. PICK i \in 1 .. w - 1 : IsWork(Program[i]) /\ Program[i].key = k
      BY DEF WorkKeys
    <3>2. Program[i].do \in Sending /\ k \in Keys
      BY <2>1, <3>1 DEF IsWork, IsCall, Sending
    <3>3. PICK j \in 1 .. i - 1 : Program[j].do = "draft" /\ Program[j].key = k
      BY <1>1, <1>2, <3>1, <3>2, ProgramCalls
    <3>4. j \in 1 .. w - 1
      BY <1>1
    <3>5. Generations(k) # {}
      BY <1>2, <3>3, <3>4 DEF StepFacts
    <3> QED BY <1>4, <3>5
  <2>3. \A id \in DOMAIN orders : orders[id].pay \in Int
    <3>1. \A id \in DOMAIN orders : orders[id].pay \in Nat
      BY <1>1, LedgerSums
    <3> QED BY <3>1
  <2>4. IsFiniteSet(DOMAIN orders)
    BY <1>1 DEF PricedIn
  <2>5. SumFunctionOnSet(pays, DOMAIN orders) = SumFunctionOnSet(paid, W)
    <3>1. \A id \in DOMAIN orders : pays[id] \in Int
      BY <2>3
    <3>2. \A k \in W : place[k] \in DOMAIN orders /\ paid[k] = pays[place[k]]
      BY <2>2
    <3>3. \A j, k \in W : place[j] = place[k] => j = k
      BY <2>2
    <3>4. \A id \in DOMAIN orders : (\A k \in W : place[k] # id) => pays[id] = 0
      BY <1>6
    <3> HIDE DEF pays, paid, place, W
    <3>5. PICK S, f, V, g, where :
             S = DOMAIN orders /\ f = pays /\ V = W /\ g = paid /\ where = place
      OBVIOUS
    <3>6. /\ IsFiniteSet(S) /\ IsFiniteSet(V) /\ \A x \in S : f[x] \in Int
          /\ \A k \in V : where[k] \in S /\ g[k] = f[where[k]]
          /\ \A j, k \in V : where[j] = where[k] => j = k
      BY <2>1, <2>4, <3>1, <3>2, <3>3, <3>5
    <3>7. \A x \in S : (\A k \in V : where[k] # x) => f[x] = 0
      BY <3>4, <3>5
    <3>8. SumFunctionOnSet(f, S) = SumFunctionOnSet(g, V)
      BY <3>6, <3>7, SumThrough
    <3> QED BY <3>5, <3>8
  <2>6. EarnedNow = SumFunctionOnSet(pays, DOMAIN orders)
    BY <1>1, LedgerOf, LedgerSums
  <2>7. SumFunctionOnSet(meant, W) = This.arg[3]
    <3>1. SumFunction(meant) = This.arg[3]
      BY <1>1 DEF SeesPay
    <3>2. DOMAIN meant = W
      OBVIOUS
    <3> HIDE DEF meant, W
    <3> QED BY <3>1, <3>2, SumFunctionIsSum
  <2>8. ASSUME NEW k \in W \ {key} PROVE paid[k] = meant[k]
    <3>1. PICK stage \in DOMAIN Pays : Pays[stage] = k /\ MarkedBefore(Program, stage, w)
      BY <2>8 DEF SeesPay
    <3>2. PICK m \in 1 .. w - 1 : Program[m].do = "mark" /\ Program[m].stage = stage
      BY <3>1 DEF MarkedBefore
    <3>3. m \in 1 .. Len(Program) /\ Passed(m)
      BY <1>2
    <3>4. stage \in report.stages
      BY <1>1, <3>2, <3>3, PassedFacts
    <3>5. Paid(k, Intended[k])
      BY <2>1, <3>1, <3>4, StagePaid
    <3> QED BY <3>5 DEF Paid, OrderOf
  <2>9. \A k \in W : paid[k] \in Int /\ meant[k] \in Int
    BY <2>1, <2>2, <2>3, KeysFinite
  <2>10. paid[key] = orders[Current(key)].pay /\ meant[key] = Intended[key]
    BY <1>8
  <2> HIDE DEF paid, meant, W, pays
  <2>11. SumFunctionOnSet(paid, W) = SumFunctionOnSet(meant, W)
    BY <2>5, <2>6, <2>7
  <2>12. paid[key] = meant[key]
    BY <1>8, <2>1, <2>8, <2>9, <2>11, SumTellsPay
  <2> QED BY <2>10, <2>12 DEF OrderOf
<1> QED BY <1>3, <1>7, <1>8 DEF Paid

LEMMA CheckFacts ==
  ASSUME StagesInv, process.at # "stopped", process.pc <= Len(Program),
         This.do = "check", Holds(This)
  PROVE  FactOf(process.pc)
<1>1. /\ Program[process.pc] = This /\ process.pc \in 1 .. Len(Program) /\ Solvent
      /\ script \in Scripts
  BY StagesParts, SentParts, AtProgram
<1>2. ASSUME This.fn = "accounts"
      PROVE  EarnedNow = This.arg[3] /\ source.returned = This.arg[4]
  <2>1. This.arg = <<Available, Unresolved, EarnedNow, source.returned>>
    BY <1>2 DEF Holds
  <2> QED BY <2>1
<1>7. ASSUME SeesClosed(Program, process.pc) PROVE source.phase = "closed"
  <2>1. /\ <<Available, Unresolved, EarnedNow, source.returned>> = This.arg
        /\ This.arg[1] = 0 /\ This.arg[2] = 0 /\ This.arg[4] > 0
    BY <1>1, <1>7 DEF SeesClosed, SeesAccounts, Holds
  <2>2. PICK free, u, e, r, cap :
           /\ free = Available /\ u = Unresolved /\ e = EarnedNow /\ r = source.returned
           /\ cap = Cap[script]
    OBVIOUS
  <2>3. free = 0 /\ u = 0 /\ r > 0
    BY <2>1, <2>2
  <2>4. u \in Nat /\ e \in Nat /\ r \in Nat /\ cap \in Nat
    <3>1. script \in {"demo", "branches", "rotation"}
      BY <1>1, ScriptsAssumption DEF Programs
    <3>2. cap \in Nat
      BY <2>2, <3>1 DEF Cap
    <3> QED BY <1>1, <2>2, <3>2, StagesParts, LedgerOf, LedgerSums DEF Solvent
  <2>5. source.phase # "none"
    BY <1>1, <2>2, <2>3 DEF Solvent
  <2>6. free = cap - u - e - r
    BY <2>2, <2>5 DEF Available
  <2>7. e + r = cap
    BY <2>3, <2>4, <2>6
  <2> QED BY <1>1, <2>2, <2>3, <2>5, <2>7 DEF Solvent
<1>3. \A key \in Keys : SeesPay(Program, process.pc, key) =>
          Generations(key) # {} /\ Paid(key, Intended[key])
  BY <1>1, <1>2, CheckTellsPay DEF SeesPay, SeesAccounts
<1>4. SeesAccounts(Program, process.pc) => source.returned >= This.arg[4]
  BY <1>1, <1>2 DEF SeesAccounts, Solvent
<1>5. SeesClosed(Program, process.pc) => source.phase = "closed" /\ EarnedNow = This.arg[3]
  BY <1>1, <1>2, <1>7 DEF SeesClosed, SeesAccounts
<1>6. This.do = "check" /\ This.fn = "reserve" => target.recognized = DOMAIN Rights
  BY DEF Holds
<1> QED BY <1>1, <1>3, <1>4, <1>5, <1>6 DEF FactOf, IsCall, TargetCall

-----------------------------------------------------------------------------
(* What a call leaves, when it is not due any more or has been received. *)

\* A recorded transaction with the label of a refund is that refund.
LEMMA RefundRecorded ==
  ASSUME StagesInv, NEW i \in 1 .. Len(Program), TargetCall(Program, i, "refund"),
         NEW g \in DOMAIN sent, sent[g].label = Program[i].label, AsExpected(g)
  PROVE  target.refunded >= Program[i].arg
<1>1. script \in Scripts /\ SendsRemembered /\ Rightful
  BY StagesParts, SentParts
<1>2. PICK j \in 1 .. Len(Program) : FromStep(sent[g], Program[j])
  BY <1>1 DEF SendsRemembered
<1>3. /\ Program[j].do \in Sending /\ sent[g].label = Program[j].label
      /\ sent[g].fn = Program[j].fn /\ sent[g].arg = Program[j].arg
  BY <1>2 DEF FromStep
<1>4. IsCall(Program[i]) /\ Program[i].fn = "refund"
  BY DEF TargetCall, IsCall
<1>5. Program[j].fn = "refund" /\ Program[j].arg = Program[i].arg
  <2>1. PICK steps : steps = Program
    OBVIOUS
  <2>2. \A k \in 1 .. Len(steps) : steps[k].do \in Sending /\ steps[k].label = steps[i].label
                                  => steps[k].fn = "refund" /\ steps[k].arg = steps[i].arg
    BY <1>1, <1>4, <2>1, StagesAssumption DEF Program
  <2> QED BY <1>3, <2>1, <2>2
<1>6. outcome[g] = "ok"
  BY <1>3, <1>5 DEF AsExpected
<1> QED BY <1>1, <1>3, <1>5, <1>6 DEF Rightful

\* Only a few calls are what a stage tells of.
LEMMA CallFacts ==
  ASSUME NEW i, IsCall(Program[i]),
         Program[i].fn = "acceptOffer" =>
            Generations(Program[i].key) # {} /\ OrderOf(Program[i].key).agreed,
         TargetCall(Program, i, "import") => Imported,
         TargetCall(Program, i, "withdraw") => Program[i].key \in target.paid,
         TargetCall(Program, i, "refund") => target.refunded >= Program[i].arg
  PROVE  FactOf(i)
BY DEF FactOf, IsCall, SeesAccounts, SeesPay, SeesClosed

LEMMA SkippedFacts ==
  ASSUME StagesInv, process.at = "step", process.pc <= Len(Program), IsCall(This), ~ Due(This)
  PROVE  FactOf(process.pc)
<1>1. /\ Program[process.pc] = This /\ process.pc \in 1 .. Len(Program) /\ script \in Scripts
      /\ SentInv /\ SendsRemembered /\ Rightful
  BY StagesParts, SentParts, AtProgram
<1>2. ASSUME This.fn = "acceptOffer"
      PROVE  Generations(This.key) # {} /\ OrderOf(This.key).agreed
  <2>1. This.do \in Sending
    BY DEF IsCall, Sending
  <2>2. This.key \in Keys
    BY <1>1, <1>2, <2>1, ProgramCalls DEF OrderFns
  <2>3. OrderOf(This.key).agreed
    BY <1>2 DEF Due
  <2> QED BY <1>1, <2>1, <2>2, <2>3, HasTerms
<1>3. This.fn = "import" => Imported
  BY DEF Due, Imported
<1>4. This.fn = "withdraw" => This.key \in target.paid
  BY DEF Due
<1>5. ASSUME TargetCall(Program, process.pc, "refund")
      PROVE  target.refunded >= This.arg
  <2>1. Recorded(This.label)
    BY <1>1, <1>5 DEF Due, TargetCall
  <2>2. PICK g \in report.recorded : sent[g].label = This.label
    BY <2>1 DEF Recorded
  <2>3. g \in DOMAIN sent /\ AsExpected(g)
    BY <1>1 DEF SendsRemembered, Rightful
  <2> QED BY <1>1, <1>5, <2>2, <2>3, RefundRecorded
<1> QED BY <1>1, <1>2, <1>3, <1>4, <1>5, CallFacts DEF TargetCall

LEMMA ReceivedFacts ==
  ASSUME StagesInv, process.at = "wait", IsCall(This), AsExpected(process.hash)
  PROVE  FactOf(process.pc)
<1> DEFINE h == process.hash
<1>1. /\ SentInv /\ SendsRemembered /\ Rightful /\ Drafting
  BY StagesParts, SentParts
<1>2. process.pc <= Len(Program) /\ This.do \in Sending
  BY <1>1 DEF Drafting, Sending
<1>3. Program[process.pc] = This /\ process.pc \in 1 .. Len(Program) /\ script \in Scripts
  BY <1>1, <1>2, SentParts, AtProgram
<1>4. /\ h \in DOMAIN sent /\ FromStep(sent[h], This) /\ sent[h].id = IdOf(This)
      /\ outcome[h] = "ok" => Effected(sent[h])
  BY <1>1 DEF SendsRemembered, InHands
<1>5. /\ sent[h].fn = This.fn /\ sent[h].key = This.key /\ sent[h].arg = This.arg
      /\ sent[h].label = This.label
  BY <1>4 DEF FromStep
<1>6. This.fn # "refuse" => outcome[h] = "ok" /\ Effected(sent[h])
  BY <1>4, <1>5 DEF AsExpected
<1> HIDE DEF h
<1>7. ASSUME This.fn = "acceptOffer"
      PROVE  Generations(This.key) # {} /\ OrderOf(This.key).agreed
  <2>1. This.key \in Keys
    <3>1. This.fn \in OrderFns
      BY <1>7 DEF OrderFns
    <3> QED BY <1>2, <1>3, <3>1, ProgramCalls
  <2>2. orders[sent[h].id].agreed
    BY <1>5, <1>6, <1>7 DEF Effected, Settling
  <2>3. OrderOf(This.key).agreed
    BY <1>4, <2>1, <2>2 DEF OrderOf, IdOf
  <2> QED BY <1>1, <1>2, <2>1, <2>3, HasTerms
<1>8. This.fn = "import" => Imported
  BY <1>1, <1>4, <1>5, <1>6 DEF Rightful, Imported
<1>9. This.fn = "withdraw" => This.key \in target.paid
  BY <1>5, <1>6 DEF Effected, Settling
<1>10. This.fn = "refund" => target.refunded >= This.arg
  BY <1>1, <1>4, <1>5, <1>6 DEF Rightful
<1> QED BY <1>3, <1>7, <1>8, <1>9, <1>10, CallFacts DEF TargetCall

-----------------------------------------------------------------------------
(* The process moves, and sends and drafts nothing. *)

LEMMA RecordedExpected ==
  ASSUME StagesInv
  PROVE  \A g \in report.recorded : AsExpected(g)
BY StagesParts DEF Rightful

LEMMA ContinueStages ==
  ASSUME StagesInv, process.at = "step", process.pc <= Len(Program), Continue,
         FactOf(process.pc)
  PROVE  StagesNow'
<1>1. UNCHANGED <<script, chainVars, report>> /\ Proceed
  BY DEF Continue, historyVars
<1> QED BY <1>1, RecordedExpected, ProceedStages

LEMMA EndStages ==
  ASSUME StagesInv, End
  PROVE  StagesNow'
<1>1. UNCHANGED <<script, chainVars, report>> /\ process' = Stopped
  BY DEF End, historyVars
<1> QED BY <1>1, RecordedExpected, StoppingStages

LEMMA StartStages ==
  ASSUME StagesInv, StartFresh
  PROVE  StagesNow'
<1>1. UNCHANGED <<script, chainVars, report>> /\ Goto(Following(0, report.stages))
  BY DEF StartFresh, historyVars
<1> QED BY <1>1, RecordedExpected, RestartStages

LEMMA RecoverStages ==
  ASSUME StagesInv, Recover
  PROVE  StagesNow'
<1> DEFINE h == report.pending
<1>1. UNCHANGED <<script, chainVars>>
  BY DEF Recover, historyVars
<1>2. /\ DOMAIN report = {"stages", "recorded", "failed", "pending", "queued", "refused", "signed"}
  BY StagesParts, SentParts DEF ChainsTyped
<1>3. CASE AsExpected(h)
  <2>1. report' = RecordedNow(h) /\ Goto(Following(0, report.stages))
    BY <1>3 DEF Recover, Recovered
  <2>2. report'.stages = report.stages /\ report'.recorded = report.recorded \cup {h}
    BY <1>2, <2>1 DEF RecordedNow
  <2>3. \A g \in report'.recorded : AsExpected(g)
    BY <1>3, <2>2, RecordedExpected
  <2> QED BY <1>1, <2>1, <2>2, <2>3, RestartStages
<1>4. CASE ~ AsExpected(h)
  <2>1. report' = FailedNow(h) /\ (Goto(Following(0, report.stages)) \/ UNCHANGED process)
    BY <1>4 DEF Recover, FoundFailed
  <2>2. report'.stages = report.stages /\ report'.recorded = report.recorded
    BY <1>2, <2>1 DEF FailedNow
  <2>3. \A g \in report'.recorded : AsExpected(g)
    BY <2>2, RecordedExpected
  <2> QED BY <1>1, <2>1, <2>2, <2>3, RestartStages, StoppingStages
<1> QED BY <1>3, <1>4

LEMMA ReceiveStages ==
  ASSUME StagesInv, Receive
  PROVE  StagesNow'
<1> DEFINE h == process.hash
<1>1. process.at = "wait" /\ UNCHANGED <<script, chainVars>>
  BY DEF Receive, historyVars
<1>2. /\ DOMAIN report = {"stages", "recorded", "failed", "pending", "queued", "refused", "signed"}
      /\ process.pc <= Len(Program) /\ This.do \in Sending
  BY <1>1, StagesParts, SentParts DEF ChainsTyped, Drafting, Sending
<1>3. CASE AsExpected(h)
  <2>1. report' = RecordedNow(h)
    BY <1>3 DEF Receive
  <2>2. report'.stages = report.stages /\ report'.recorded = report.recorded \cup {h}
    BY <1>2, <2>1 DEF RecordedNow
  <2>3. \A g \in report'.recorded : AsExpected(g)
    BY <1>3, <2>2, RecordedExpected
  <2>4. CASE This.do = "refresh"
    <3>1. process' = [at |-> "step", pc |-> process.pc, hash |-> 0]
      BY <1>3, <2>4 DEF Receive, Goto
    <3>2. process.at # "stopped" /\ process'.pc = process.pc
      BY <1>1, <3>1
    <3> QED BY <1>1, <2>2, <2>3, <3>2, StoppingStages
  <2>5. CASE This.do # "refresh"
    <3>1. Proceed /\ process.at # "stopped"
      BY <1>1, <1>3, <2>5 DEF Receive
    <3>2. IsCall(This)
      BY <1>2, <2>5 DEF Sending, IsCall
    <3>3. FactOf(process.pc)
      BY <1>1, <1>3, <3>2, ReceivedFacts
    <3> QED BY <1>1, <1>2, <2>2, <2>3, <3>1, <3>3, ProceedStages
  <2> QED BY <2>4, <2>5
<1>4. CASE ~ AsExpected(h)
  <2>1. report' \in {report, FailedNow(h)} /\ process' = Stopped
    BY <1>4 DEF Receive
  <2>2. report'.stages = report.stages /\ report'.recorded = report.recorded
    BY <1>2, <2>1 DEF FailedNow
  <2>3. \A g \in report'.recorded : AsExpected(g)
    BY <2>2, RecordedExpected
  <2> QED BY <1>1, <2>1, <2>2, <2>3, StoppingStages
<1> QED BY <1>3, <1>4

LEMMA JournalStages ==
  ASSUME StagesInv, Journal
  PROVE  StagesNow'
<1>1. /\ process.at = "journal" /\ UNCHANGED <<script, chainVars>>
      /\ report' = [report EXCEPT !.pending = process.hash]
      /\ process' = [process EXCEPT !.at = "wait"]
  BY DEF Journal, historyVars
<1>2. /\ DOMAIN report = {"stages", "recorded", "failed", "pending", "queued", "refused", "signed"}
      /\ DOMAIN process = {"at", "pc", "hash"}
  BY StagesParts, SentParts DEF ChainsTyped, Drafting
<1>3. /\ report'.stages = report.stages /\ report'.recorded = report.recorded
      /\ process'.pc = process.pc /\ process.at # "stopped"
  BY <1>1, <1>2
<1>4. \A g \in report'.recorded : AsExpected(g)
  BY <1>3, RecordedExpected
<1> QED BY <1>1, <1>3, <1>4, StoppingStages

LEMMA DyingStages ==
  ASSUME StagesInv, Dies
  PROVE  StagesNow'
<1>1. UNCHANGED <<script, chainVars, report>> /\ process' = Stopped
  BY DEF Dies
<1> QED BY <1>1, RecordedExpected, StoppingStages

LEMMA WaitingStages ==
  ASSUME StagesInv, WaitForBlock \/ PauseUntil \/ Check \/ NeedReceipt
  PROVE  StagesNow'
<1>1. process.at = "step" /\ process.pc <= Len(Program)
  BY DEF WaitForBlock, PauseUntil, Check, NeedReceipt, At, AtStep
<1>2. Program[process.pc] = This /\ SentInv
  BY StagesParts DEF This
<1>3. CASE End
  BY <1>3, EndStages
<1>4. CASE This.do \in {"await", "receipt"} /\ Continue
  BY <1>1, <1>2, <1>4, NothingSeen, ContinueStages
<1>5. CASE This.do = "pause" /\ Ready /\ Continue
  <2>1. This.fn = "funding" => target.funding = "final"
    BY <1>5 DEF Ready
  <2>2. FactOf(process.pc)
    BY <1>2, <1>5, <2>1 DEF FactOf, IsCall, SeesAccounts, SeesPay, SeesClosed, TargetCall
  <2> QED BY <1>1, <1>5, <2>2, ContinueStages
<1>6. CASE This.do = "check" /\ Holds(This) /\ Continue
  <2>1. FactOf(process.pc)
    BY <1>1, <1>6, CheckFacts
  <2> QED BY <1>1, <1>6, <2>1, ContinueStages
<1> QED BY <1>3, <1>4, <1>5, <1>6 DEF WaitForBlock, PauseUntil, Check, NeedReceipt, At, AtStep, This

LEMMA QueueStages ==
  ASSUME StagesInv, QueueApproval \/ SeeRefusal \/ SignSettlement
  PROVE  StagesNow'
<1>1. process.at = "step" /\ process.pc <= Len(Program) /\ FactOf(process.pc)
  BY NothingSeen DEF QueueApproval, SeeRefusal, SignSettlement, At, AtStep, This
<1>2. CASE Continue \/ End
  BY <1>1, <1>2, ContinueStages, EndStages
<1>3. CASE /\ Proceed /\ UNCHANGED <<chainVars, historyVars>>
           /\ \/ report' = report \/ \E n : report' = [report EXCEPT !.queued = n]
              \/ report' = [report EXCEPT !.refused = TRUE]
              \/ report' = [report EXCEPT !.signed = TRUE]
  <2>1. report'.stages = report.stages /\ report'.recorded = report.recorded
    BY <1>3, StagesParts, SentParts DEF ChainsTyped
  <2>2. \A g \in report'.recorded : AsExpected(g)
    BY <2>1, RecordedExpected
  <2> QED BY <1>1, <1>3, <2>1, <2>2, ProceedStages DEF historyVars
<1> QED BY <1>2, <1>3 DEF QueueApproval, SeeRefusal, SignSettlement

LEMMA MarkStages ==
  ASSUME StagesInv, MarkStage
  PROVE  StagesNow'
<1>1. PICK pc : pc = process.pc
  OBVIOUS
<1>2. /\ process.at = "step" /\ process.pc <= Len(Program) /\ This.do = "mark"
      /\ UNCHANGED <<script, chainVars>>
      /\ report' = [report EXCEPT !.stages = @ \cup {This.stage}]
      /\ process' = [at |-> "step", pc |-> Following(pc, report'.stages), hash |-> 0]
  BY <1>1 DEF MarkStage, AtStep, At, This, Goto, historyVars
<1>3. SentInv /\ pc \in 0 .. Len(Program) /\ pc > 0 /\ Program[pc] = This
  <2>1. SentInv
    BY StagesParts
  <2> QED BY <1>1, <1>2, <2>1, AtProgram
<1>4. report'.stages = report.stages \cup {This.stage} /\ report'.recorded = report.recorded
  BY <1>2, <1>3, SentParts DEF ChainsTyped
<1>5. \A i \in 1 .. Len(Program) : Done(i)' => Done(i) \/ (pc > 0 /\ i = pc)
  BY <1>1, <1>2, <1>3, <1>4, DoneGoesOn
<1>6. FactOf(pc)
  BY <1>2, <1>3, NothingSeen
<1>7. \A g \in report'.recorded : AsExpected(g)
  BY <1>4, RecordedExpected
<1> QED BY <1>2, <1>4, <1>5, <1>6, <1>7, QuietStages DEF chainVars

-----------------------------------------------------------------------------
(* A transaction is sent. *)

LEMMA SubmitStages ==
  ASSUME StagesInv, SentInv', process.at = "step", process.pc <= Len(Program), This.do \in Sending,
         NEW at \in {"journal", "wait"}, Submit(This, at)
  PROVE  StagesNow'
<1>0. PICK h : h = Len(sent) + 1
  OBVIOUS
<1>1. /\ sent' = Append(sent, CallOf(This, IdOf(This))) /\ outcome' = Append(outcome, "waiting")
      /\ process' = [process EXCEPT !.at = at, !.hash = Len(sent')]
      /\ UNCHANGED <<orders, source, target, report, script, misread, lost>>
  BY DEF Submit, historyVars
<1>2. /\ SentInv /\ SendsRemembered /\ SendsRemembered' /\ Drafting /\ script \in Scripts /\ StepsPassed
      /\ Priced /\ Solvent /\ Worked /\ Rightful /\ FactsDone
  BY StagesParts, SentParts DEF SentInv
<1>3. /\ sent \in Seq(Range(sent)) /\ Len(outcome) = Len(sent)
      /\ outcome \in Seq({"waiting", "ok", "failed", "dropped"}) /\ DOMAIN process = {"at", "pc", "hash"}
  BY <1>2 DEF SendsRemembered, Drafting
<1>4. PICK what : what = CallOf(This, IdOf(This))
  OBVIOUS
<1>5. /\ DOMAIN sent' = DOMAIN sent \cup {h} /\ h \notin DOMAIN sent /\ Len(sent') = h
      /\ sent'[h] = what /\ \A g \in DOMAIN sent : sent'[g] = sent[g]
      /\ outcome'[h] = "waiting" /\ \A g \in DOMAIN sent : outcome'[g] = outcome[g]
  BY <1>0, <1>1, <1>3, <1>4
<1>6. process'.at = at /\ process'.pc = process.pc /\ process'.hash = h
  BY <1>1, <1>3, <1>5
<1>7. /\ Program' = Program /\ Rights' = Rights /\ EarnedNow' = EarnedNow /\ Unresolved' = Unresolved
      /\ (NoneLive' <=> NoneLive) /\ \A key : Current(key)' = Current(key)
  BY <1>1 DEF Program, Rights, EarnedNow, Unresolved, SumOver, NoneLive, Current, Generations
<1>8. /\ process.pc \in 1 .. Len(Program) /\ Program[process.pc] = This /\ This' = This
  BY <1>2, <1>6, <1>7, AtProgram DEF This
<1>9. Priced' /\ Solvent'
  BY <1>1, <1>2, <1>7 DEF Priced, Solvent
<1>10. what.fn = This.fn /\ what.key = This.key /\ what.id = IdOf(This)
  BY <1>4 DEF CallOf
<1>12. Worked'
  <2>1. (\A id \in DOMAIN orders :
            orders[id].status \in {"delivered", "challenged"} \/ orders[id].pay # 0
                => \E g \in DOMAIN sent : sent[g].fn \in {"deliver", "settle"} /\ sent[g].id = id)'
    BY <1>1, <1>2, <1>5 DEF Worked
  <2>2. ASSUME NEW g \in DOMAIN sent', g \in DOMAIN sent
        PROVE  /\ (\E i \in 1 .. Len(Program) : FromStep(sent[g], Program[i]) /\ Behind(i))'
               /\ (sent[g].fn \in {"deliver", "settle"} => sent[g].id = Current(sent[g].key))'
    <3>1. PICK call : call = sent[g] /\ call = sent'[g]
      BY <1>5, <2>2
    <3>2. /\ \E i \in 1 .. Len(Program) : FromStep(call, Program[i]) /\ Behind(i)
          /\ call.fn \in {"deliver", "settle"} => call.id = Current(call.key)
      BY <1>2, <2>2, <3>1 DEF Worked
    <3>3. PICK i \in 1 .. Len(Program) : FromStep(call, Program[i]) /\ Behind(i)
      BY <3>2
    <3>4. PICK step : step = Program[i]
      OBVIOUS
    <3>5. FromStep(call, step)'
      BY <1>1, <3>3, <3>4 DEF FromStep
    <3>6. Behind(i)'
      BY <1>1, <1>7, <3>3 DEF Behind
    <3>7. FromStep(sent[g], Program[i])'
      BY <1>7, <3>1, <3>4, <3>5
    <3>8. (\E j \in 1 .. Len(Program) : FromStep(sent[g], Program[j]) /\ Behind(j))'
      BY <1>7, <3>6, <3>7
    <3>9. call.fn \in {"deliver", "settle"} => call.id = Current(call.key)'
      BY <1>7, <3>2
    <3> QED BY <3>1, <3>8, <3>9
  <2>3. /\ (\E i \in 1 .. Len(Program) : FromStep(sent[h], Program[i]) /\ Behind(i))'
        /\ (sent[h].fn \in {"deliver", "settle"} => sent[h].id = Current(sent[h].key))'
    <3>1. InHands' /\ sent' \in Seq(Range(sent'))
      BY <1>2, <1>6 DEF InHands, SendsRemembered
    <3>2. FromStep(sent[process.hash], This)'
      BY <1>2, <3>1 DEF SendsRemembered
    <3>3. PICK step : step = This
      OBVIOUS
    <3>4. FromStep(what, step)'
      BY <1>5, <1>6, <1>8, <3>2, <3>3
    <3>5. PICK pc : pc = process.pc
      OBVIOUS
    <3>6. FromStep(sent[h], Program[pc])'
      BY <1>5, <1>7, <1>8, <3>3, <3>4, <3>5
    <3>7. Behind(pc)'
      <4>1. ASSUME NEW m \in 1 .. pc - 1, Program[m].do = "mark"
            PROVE  Program[m].stage \in report.stages
        <5>1. m \in 1 .. Len(Program) /\ m <= pc - 1 /\ Len(Program) \in Nat
          BY <1>2, <1>8, <3>5, <4>1, ProgramLength
        <5>2. Passed(m)
          BY <1>8, <3>5, <5>1 DEF Passed
        <5> QED BY <1>2, <4>1, <5>1, <5>2, PassedFacts
      <4> QED BY <1>1, <1>7, <4>1 DEF Behind
    <3>8. (\E i \in 1 .. Len(Program) : FromStep(sent[h], Program[i]) /\ Behind(i))'
      BY <1>7, <1>8, <3>5, <3>6, <3>7
    <3>9. what.fn \in {"deliver", "settle"} => what.id = Current(what.key)'
      <4>1. ASSUME what.fn \in {"deliver", "settle"} PROVE what.key \in Keys
        <5>1. This.fn \in OrderFns
          BY <1>10, <4>1 DEF OrderFns, Settling
        <5> QED BY <1>2, <1>8, <1>10, <5>1, ProgramCalls
      <4>2. what.key \in Keys => what.id = Current(what.key)
        BY <1>10 DEF IdOf
      <4> QED BY <1>7, <4>1, <4>2
    <3> QED BY <1>5, <3>8, <3>9
  <2>4. ASSUME NEW g \in DOMAIN sent'
        PROVE  (/\ \E i \in 1 .. Len(Program) : FromStep(sent[g], Program[i]) /\ Behind(i)
                /\ sent[g].fn \in {"deliver", "settle"} => sent[g].id = Current(sent[g].key))'
    <3>1. CASE g \in DOMAIN sent
      BY <2>2, <2>4, <3>1
    <3>2. CASE g = h
      BY <2>3, <3>2
    <3> QED BY <1>5, <2>4, <3>1, <3>2
  <2> QED BY <2>1, <2>4 DEF Worked
<1>13. Rightful'
  <2>1. \A g \in report.recorded : g \in DOMAIN sent
    BY <1>2 DEF SendsRemembered
  <2>2. (\A g \in report.recorded : AsExpected(g))'
    BY <1>1, <1>2, <1>5, <2>1 DEF Rightful, AsExpected
  <2> QED BY <1>1, <1>2, <1>5, <1>7, <2>2 DEF Rightful
<1>14. FactsDone'
  <2>1. \A i \in 1 .. Len(Program) : FactOf(i) => FactOf(i)'
    BY <1>1, FactsRemain
  <2>2. \A i : Done(i)' => Done(i)
    BY <1>1, <1>6, <1>7 DEF Done
  <2> QED BY <1>2, <1>7, <2>1, <2>2 DEF FactsDone
<1> QED BY <1>9, <1>12, <1>13, <1>14 DEF StagesNow

LEMMA CallingStages ==
  ASSUME StagesInv, SentInv', Call
  PROVE  StagesNow'
<1>1. /\ process.at = "step" /\ process.pc <= Len(Program) /\ IsCall(This) /\ This.do \in Sending
  BY DEF Call, Sending, IsCall
<1>2. CASE ~ Due(This)
  <2>1. FactOf(process.pc)
    BY <1>1, <1>2, SkippedFacts
  <2> QED BY <1>1, <1>2, <2>1, ContinueStages DEF Call
<1>3. CASE End
  BY <1>3, EndStages
<1>4. CASE \E at \in {"journal", "wait"} : Submit(This, at)
  BY <1>1, <1>4, SubmitStages
<1> QED BY <1>2, <1>3, <1>4 DEF Call

-----------------------------------------------------------------------------
(* Terms are drafted. *)

\* The order whose terms are drafted is none that a step before, or a transaction, relies on.
LEMMA DoneMarks ==
  ASSUME SentInv, NEW i \in 1 .. Len(Program), Done(i),
         NEW m \in 1 .. i, Program[m].do = "mark"
  PROVE  Program[m].stage \in report.stages
<1>1. StepsPassed /\ m \in 1 .. Len(Program) /\ Len(Program) \in Nat
  BY SentParts, ProgramLength
<1>2. CASE \E k \in i .. Len(Program) : Program[k].do = "mark" /\ Program[k].stage \in report.stages
  <2>1. PICK k \in i .. Len(Program) : Program[k].do = "mark" /\ Program[k].stage \in report.stages
    BY <1>2
  <2>2. k \in 1 .. Len(Program) /\ m <= k /\ Passed(k)
    BY <1>1, <2>1 DEF Passed
  <2> QED BY <1>1, <2>2, PassedFacts
<1>3. CASE process.at # "stopped" /\ i < process.pc
  <2>1. Passed(i) /\ m <= i
    BY <1>3 DEF Passed
  <2> QED BY <1>1, <2>1, PassedFacts
<1> QED BY <1>2, <1>3 DEF Done

LEMMA RefreshesNoneDone ==
  ASSUME SentInv, process.at # "stopped", process.pc <= Len(Program), This.do = "refresh",
         NEW i \in 1 .. Len(Program), Done(i)
  PROVE  /\ Unrefreshed(Program, i) => Program[i].key # This.key
         /\ \A f \in 1 .. i - 1 : SettlesOrder(Program, f) => Program[f].key # This.key
<1>1. /\ process.pc \in 1 .. Len(Program) /\ Program[process.pc] = This /\ Len(Program) \in Nat
      /\ This.stage \notin report.stages /\ StepsPassed
  BY AtProgram, SentParts DEF Drafting
<1>2. ASSUME Unrefreshed(Program, i), Program[i].key = This.key
      PROVE  FALSE
  <2>1. /\ process.pc < i
        /\ \A m \in i .. Len(Program) :
              Program[m].do = "mark" => MarkedBefore(Program, This.stage, m + 1)
    BY <1>1, <1>2 DEF Unrefreshed
  <2>2. PICK m \in i .. Len(Program) : Program[m].do = "mark" /\ Program[m].stage \in report.stages
    BY <1>1, <2>1 DEF Done
  <2>3. PICK k \in 1 .. m : Program[k].do = "mark" /\ Program[k].stage = This.stage
    <3>1. MarkedBefore(Program, This.stage, m + 1)
      BY <2>1, <2>2
    <3>2. PICK k \in 1 .. (m + 1) - 1 : Program[k].do = "mark" /\ Program[k].stage = This.stage
      BY <3>1 DEF MarkedBefore
    <3>3. k \in 1 .. m
      BY <1>1
    <3> QED BY <3>2, <3>3
  <2>4. m \in 1 .. Len(Program) /\ k \in 1 .. Len(Program) /\ k <= m /\ Passed(m)
    BY <1>1, <2>2 DEF Passed
  <2> QED BY <1>1, <2>3, <2>4, PassedFacts
<1>3. ASSUME NEW f \in 1 .. i - 1, SettlesOrder(Program, f), Program[f].key = This.key
      PROVE  FALSE
  <2>1. MarkedBefore(Program, This.stage, f)
    BY <1>1, <1>3 DEF SettlesOrder
  <2>2. PICK m \in 1 .. f - 1 : Program[m].do = "mark" /\ Program[m].stage = This.stage
    BY <2>1 DEF MarkedBefore
  <2>3. m \in 1 .. i
    BY <1>1
  <2> QED BY <1>1, <2>2, <2>3, DoneMarks
<1> QED BY <1>2, <1>3

LEMMA DraftsNoneWorked ==
  ASSUME StagesInv, process.at # "stopped", process.pc <= Len(Program),
         This.do = "refresh" \/ Generations(This.key) = {},
         NEW g \in DOMAIN sent, sent[g].fn \in {"deliver", "settle"}
  PROVE  sent[g].key # This.key /\ sent[g].key \in Keys
<1>1. /\ SentInv /\ Worked /\ script \in Scripts
      /\ process.pc \in 1 .. Len(Program) /\ Program[process.pc] = This /\ This.stage \notin report.stages
  BY StagesParts, SentParts, AtProgram DEF Drafting
<1>2. PICK i \in 1 .. Len(Program) : FromStep(sent[g], Program[i]) /\ Behind(i)
  BY <1>1 DEF Worked
<1>3. /\ Program[i].do \in Sending /\ sent[g].fn = Program[i].fn /\ sent[g].key = Program[i].key
      /\ Program[i].key \in Keys => sent[g].id \in DOMAIN orders /\ sent[g].id[1] = Program[i].key
  BY <1>2 DEF FromStep
<1>4. Program[i].fn \in OrderFns
  BY <1>3 DEF OrderFns, Settling
<1>5. Program[i].key \in Keys /\ Program[i].do # "refresh"
  BY <1>1, <1>3, <1>4, ProgramCalls
<1>6. IsWork(Program[i])
  BY <1>3, <1>5 DEF IsWork, IsCall, Sending
<1>7. ASSUME sent[g].key = This.key, Generations(This.key) = {} PROVE FALSE
  BY <1>3, <1>5, <1>7 DEF Generations
<1>8. ASSUME sent[g].key = This.key, This.do = "refresh" PROVE FALSE
  <2>1. PICK steps : steps = Program
    OBVIOUS
  <2>2. \A r \in 1 .. Len(steps) : steps[r].do = "refresh" /\ steps[r].key = steps[i].key
                                      => MarkedBefore(steps, steps[r].stage, i)
    BY <1>1, <1>6, <2>1, StagesAssumption DEF Program
  <2>3. MarkedBefore(Program, This.stage, i)
    BY <1>1, <1>3, <1>8, <2>1, <2>2
  <2> QED BY <1>1, <1>2, <2>3 DEF MarkedBefore, Behind
<1> QED BY <1>3, <1>5, <1>7, <1>8

LEMMA DraftStages ==
  ASSUME StagesInv, SentInv', process.at = "step", process.pc <= Len(Program),
         This.do \in {"draft", "refresh"},
         NEW generation, <<This.key, generation>> \notin DOMAIN orders,
         NewDraft(This.key, generation), Proceed,
         UNCHANGED <<source, target, sent, outcome, report, script, lost>>,
         This.do = "draft" => Generations(This.key) = {}
  PROVE  StagesNow'
<1>1. PICK pc : pc = process.pc
  OBVIOUS
<1>2. PICK key : key = This.key
  OBVIOUS
<1> DEFINE new == <<key, generation>>
<1>3. /\ SentInv /\ script \in Scripts /\ TermsTracked /\ ChainsTyped /\ ChainsTyped' /\ SendsRemembered
      /\ pc \in 1 .. Len(Program) /\ Program[pc] = This /\ Len(Program) \in Nat
      /\ Program' = Program /\ Rights' = Rights /\ PricedIn(orders)
      /\ Priced /\ Solvent /\ Worked /\ Rightful /\ FactsDone
  BY <1>1, StagesParts, SentParts, AtProgram DEF Program, Rights, SentInv
<1>4. /\ DOMAIN orders' = {new} \cup DOMAIN orders /\ new \notin DOMAIN orders
      /\ orders'[new] = Drafted /\ \A id \in DOMAIN orders : orders'[id] = orders[id]
  BY <1>2 DEF NewDraft
<1>5. OrdersOnward /\ LedgersOnward
  BY <1>3, <1>4 DEF OrdersOnward, OrderOnward, LedgersOnward, ChainsTyped
<1>6. key \in Keys
  <2>1. PICK i \in 1 .. Len(Program) : Program[i].do = "draft" /\ Program[i].key = new[1]
    BY <1>3, <1>4 DEF ChainsTyped
  <2> QED BY <1>3, <2>1, ProgramCalls
<1>7. orders'[new].pay = 0 /\ orders'[new].status = "drafted" /\ ~ Live(orders'[new])
  BY <1>4 DEF Drafted, Live
<1>8. Priced' /\ PricedIn(orders')
  <2>1. Budget[key] \in Nat
    BY <1>6, BudgetIsPositive
  <2>2. \A id \in DOMAIN orders' :
           /\ id[1] \in Keys /\ orders'[id].pay \in 0 .. Budget[id[1]]
           /\ orders'[id].status # "final" => orders'[id].pay = 0
    BY <1>3, <1>4, <1>6, <1>7, <2>1 DEF PricedIn
  <2>3. IsFiniteSet(DOMAIN orders')
    BY <1>3 DEF ChainsTyped
  <2> QED BY <2>2, <2>3 DEF Priced, PricedIn
<1>9. Unresolved' = Unresolved /\ EarnedNow' = EarnedNow
  <2>1. ReservedOf(orders') = ReservedOf(orders) /\ PaidOf(orders') = PaidOf(orders)
    BY <1>3, <1>4, <1>7, <1>8, LedgerWithDraft
  <2> QED BY <2>1, LedgerOf
<1>10. NoneLive => NoneLive'
  BY <1>4, <1>7 DEF NoneLive
<1>11. Solvent'
  BY <1>3, <1>4, <1>7, <1>9, <1>10 DEF Solvent
<1>12. \A k : k # key => /\ Generations(k)' = Generations(k) /\ Current(k)' = Current(k)
                         /\ Generations(k) # {} => OrderOf(k)' = OrderOf(k)
  <2>1. \A k : k # key => Generations(k)' = Generations(k) /\ Current(k)' = Current(k)
    BY <1>4 DEF Generations, Current
  <2>2. \A k : Generations(k) # {} => Current(k) \in DOMAIN orders
    BY <1>3, CurrentIsNewest DEF Generations
  <2> QED BY <1>4, <2>1, <2>2 DEF OrderOf
<1>13. Worked'
  <2>1. (\A id \in DOMAIN orders :
            orders[id].status \in {"delivered", "challenged"} \/ orders[id].pay # 0
                => \E g \in DOMAIN sent : sent[g].fn \in {"deliver", "settle"} /\ sent[g].id = id)'
    BY <1>3, <1>4, <1>7 DEF Worked
  <2>2. ASSUME NEW g \in DOMAIN sent
        PROVE  (/\ \E i \in 1 .. Len(Program) : FromStep(sent[g], Program[i]) /\ Behind(i)
                /\ sent[g].fn \in {"deliver", "settle"} => sent[g].id = Current(sent[g].key))'
    <3>1. /\ \E i \in 1 .. Len(Program) : FromStep(sent[g], Program[i]) /\ Behind(i)
          /\ sent[g].fn \in {"deliver", "settle"} => sent[g].id = Current(sent[g].key)
      BY <1>3 DEF Worked
    <3>2. PICK i \in 1 .. Len(Program) : FromStep(sent[g], Program[i]) /\ Behind(i)
      BY <3>1
    <3>3. PICK call, step : call = sent[g] /\ step = Program[i]
      OBVIOUS
    <3>4. FromStep(call, step)'
      BY <1>3, <1>5, <3>2, <3>3, FromStepLasts
    <3>5. Behind(i)'
      BY <1>3, <3>2 DEF Behind
    <3>6. sent[g].fn \in {"deliver", "settle"} => sent[g].key # key
      BY <1>2, DraftsNoneWorked
    <3> QED BY <1>3, <1>12, <3>1, <3>3, <3>4, <3>5, <3>6
  <2> QED BY <2>1, <2>2 DEF Worked
<1>14. Rightful'
  <2>1. (\A g \in report.recorded : AsExpected(g))'
    BY <1>3 DEF Rightful, AsExpected
  <2> QED BY <1>3, <2>1 DEF Rightful
<1>15. ASSUME NEW i \in 1 .. Len(Program), Done(i)
       PROVE  FactOf(i)'
  <2>1. PICK step : step = Program[i] /\ step = Program'[i]
    BY <1>3
  <2>2. FactOf(i)
    BY <1>3, <1>15 DEF FactsDone
  <2>3. ASSUME IsCall(step), step.fn = "acceptOffer", Unrefreshed(Program, i)
        PROVE  Generations(step.key)' # {} /\ OrderOf(step.key)'.agreed
    <3>1. Generations(step.key) # {} /\ OrderOf(step.key).agreed
      BY <2>1, <2>2, <2>3 DEF FactOf
    <3>2. step.key # key
      BY <1>2, <1>3, <1>15, <2>1, <2>3, <3>1, RefreshesNoneDone
    <3> QED BY <1>12, <3>1, <3>2
  <2>4. ASSUME NEW k \in Keys, SeesPay(Program, i, k)
        PROVE  Generations(k)' # {} /\ Paid(k, Intended[k])'
    <3>1. Generations(k) # {} /\ Paid(k, Intended[k])
      BY <2>2, <2>4 DEF FactOf
    <3>2. k # key
      <4>1. PICK f \in 1 .. i - 1 : SettlesOrder(Program, f) /\ Program[f].key = k
        BY <2>4 DEF SeesPay
      <4> QED BY <1>2, <1>3, <1>15, <3>1, <4>1, RefreshesNoneDone
    <3> QED BY <1>12, <3>1, <3>2 DEF Paid
  <2>5. (/\ SeesAccounts(Program, i) => source.returned >= step.arg[4]
         /\ SeesClosed(Program, i) => source.phase = "closed" /\ EarnedNow = step.arg[3]
         /\ step.do = "check" /\ step.fn = "reserve" => target.recognized = DOMAIN Rights
         /\ step.do = "pause" /\ step.fn = "funding" => target.funding = "final"
         /\ TargetCall(Program, i, "import") => Imported
         /\ TargetCall(Program, i, "withdraw") => step.key \in target.paid
         /\ TargetCall(Program, i, "refund") => target.refunded >= step.arg)'
    BY <1>3, <1>9, <2>1, <2>2 DEF FactOf, Imported
  <2>6. (\A k \in Keys : SeesPay(Program, i, k) => Generations(k) # {} /\ Paid(k, Intended[k]))'
    BY <1>3, <2>4
  <2>7. (IsCall(step) /\ step.fn = "acceptOffer" /\ Unrefreshed(Program, i)
              => Generations(step.key) # {} /\ OrderOf(step.key).agreed)'
    BY <1>3, <2>3
  <2> QED BY <2>1, <2>5, <2>6, <2>7 DEF FactOf
<1>16. FactOf(pc)'
  BY <1>3 DEF FactOf, IsCall, SeesAccounts, SeesPay, SeesClosed, TargetCall
<1>17. FactsDone'
  <2>1. process' = [at |-> "step", pc |-> Following(pc, report'.stages), hash |-> 0]
    BY <1>1 DEF Proceed, Goto
  <2>2. pc \in 0 .. Len(Program)
    BY <1>3
  <2>3. \A i \in 1 .. Len(Program) : Done(i)' => Done(i) \/ i = pc
    BY <1>1, <1>3, <2>1, <2>2, DoneGoesOn
  <2> QED BY <1>3, <1>15, <1>16, <2>3 DEF FactsDone
<1> QED BY <1>8, <1>11, <1>13, <1>14, <1>17 DEF StagesNow

LEMMA SaveDraftStages ==
  ASSUME StagesInv, SentInv', SaveDraft
  PROVE  StagesNow'
<1>1. process.at = "step" /\ process.pc <= Len(Program) /\ This.do = "draft"
  BY DEF SaveDraft, At, AtStep, This
<1>2. CASE Generations(This.key) # {}
  <2>1. FactOf(process.pc)
    BY <1>1, NothingSeen DEF This
  <2> QED BY <1>1, <1>2, <2>1, ContinueStages DEF SaveDraft
<1>3. CASE Generations(This.key) = {}
  <2>1. /\ NewDraft(This.key, 1) /\ Proceed
        /\ UNCHANGED <<source, target, sent, outcome, report, script, lost>>
    BY <1>3 DEF SaveDraft, historyVars
  <2>2. PICK generation : generation = 1
    OBVIOUS
  <2>3. <<This.key, generation>> \notin DOMAIN orders
    BY <1>3 DEF Generations
  <2> QED BY <1>1, <1>3, <2>1, <2>2, <2>3, DraftStages
<1> QED BY <1>2, <1>3

LEMMA ReplacingStages ==
  ASSUME StagesInv, SentInv', At("refresh"), NEW id, id = Current(This.key),
         NewDraft(id[1], id[2] + 1), Proceed,
         UNCHANGED <<source, target, sent, outcome, report, script, lost>>
  PROVE  StagesNow'
<1>1. process.at = "step" /\ process.pc <= Len(Program) /\ This.do = "refresh" /\ SentInv
  BY StagesParts DEF At, AtStep, This
<1>2. id \in DOMAIN orders /\ id[1] = This.key
  BY <1>1, SentParts, RefreshHasTerms
<1>3. PICK generation : generation = id[2] + 1
  OBVIOUS
<1>4. <<This.key, generation>> \notin DOMAIN orders
  <2> SUFFICES ASSUME <<This.key, generation>> \in DOMAIN orders PROVE FALSE
    OBVIOUS
  <2>1. id[2] \in Nat
    BY <1>1, <1>2, SentParts, EachTracked DEF Tracked
  <2>2. <<This.key, generation>> \in Generations(This.key)
    BY DEF Generations
  <2>3. generation <= id[2]
    BY <1>1, <1>2, <2>2, SentParts, CurrentIsNewest
  <2> QED BY <1>3, <2>1, <2>3
<1>5. NewDraft(This.key, generation)
  BY <1>2, <1>3
<1> QED BY <1>1, <1>4, <1>5, DraftStages

LEMMA RefreshStages ==
  ASSUME StagesInv, SentInv', RefreshExpiredOffer
  PROVE  StagesNow'
<1> DEFINE id == Current(This.key)
<1>1. /\ process.at = "step" /\ process.pc <= Len(Program) /\ This.do = "refresh"
      /\ At("refresh") /\ This.do \in Sending /\ SentInv
  BY StagesParts DEF RefreshExpiredOffer, At, AtStep, This, Sending
<1>2. CASE Continue
  <2>1. FactOf(process.pc)
    BY <1>1, NothingSeen DEF This
  <2> QED BY <1>1, <1>2, <2>1, ContinueStages
<1>3. CASE Submit(This, "journal")
  <2>1. This.fn = "expire"
    BY <1>1, AtProgram, SentParts, ProgramCalls
  <2> QED BY <1>1, <1>3, <2>1, SubmitStages
<1>4. CASE Replace(id) /\ UNCHANGED <<lost, misread>>
  BY <1>1, <1>4, ReplacingStages DEF Replace
<1> QED BY <1>2, <1>3, <1>4 DEF RefreshExpiredOffer

LEMMA MisreadingStages ==
  ASSUME StagesInv, SentInv', RefreshMisreading
  PROVE  StagesNow'
BY ReplacingStages DEF RefreshMisreading

-----------------------------------------------------------------------------
(* What the stages stand for holds in every state. *)

LEMMA StagesStart == Init => StagesInv
<1> SUFFICES ASSUME Init PROVE StagesNow
  BY SentStart DEF StagesInv
<1>1. SentInv /\ script \in Scripts
  BY SentStart, SentParts
<1>2. /\ orders = << >> /\ sent = << >> /\ process = Stopped
      /\ source.phase = "none" /\ source.returned = 0
      /\ target.recognized = {} /\ target.paid = {} /\ target.refunded = 0
      /\ report.stages = {} /\ report.recorded = {}
  BY DEF Init
<1>3. DOMAIN orders = {} /\ DOMAIN sent = {} /\ process.at = "stopped"
  BY <1>2 DEF Stopped
<1>4. Priced /\ PricedIn(orders)
  BY <1>1, <1>3, OrdersPriced DEF Priced
<1>5. Solvent
  <2>1. ReservedOf(orders) = 0 /\ PaidOf(orders) = 0
    <3>1. PICK held, pays : /\ held = [id \in DOMAIN orders |-> Held(orders, id)]
                            /\ pays = [id \in DOMAIN orders |-> orders[id].pay]
      OBVIOUS
    <3>2. ReservedOf(orders) = SumFunctionOnSet(held, {}) /\ PaidOf(orders) = SumFunctionOnSet(pays, {})
      BY <1>3, <1>4, <3>1, LedgerSums
    <3> QED BY <3>2, SumEmpty
  <2>2. Unresolved = 0 /\ EarnedNow = 0
    BY <2>1, LedgerOf
  <2>3. Cap[script] \in Nat
    <3>1. script \in {"demo", "branches", "rotation"}
      BY <1>1, ScriptsAssumption DEF Programs
    <3> QED BY <3>1 DEF Cap
  <2> QED BY <1>2, <1>3, <2>2, <2>3 DEF Solvent
<1>6. Worked /\ Rightful
  BY <1>2, <1>3 DEF Worked, Rightful
<1>7. FactsDone
  BY <1>2, <1>3 DEF FactsDone, Done
<1> QED BY <1>4, <1>5, <1>6, <1>7 DEF StagesNow

LEMMA StepStages == StagesInv /\ [Next]_vars => StagesInv'
<1> SUFFICES ASSUME StagesInv, [Next]_vars, SentInv' PROVE StagesNow'
  BY StepRemembers DEF StagesInv
<1>1. CASE Works
  <2>1. Interrupt => Dies
    BY DEF Interrupt
  <2>2. CASE StartFresh \/ Recover \/ Call \/ Journal \/ Receive \/ Interrupt
    BY <2>1, <2>2, StartStages, RecoverStages, CallingStages, JournalStages, ReceiveStages,
       DyingStages
  <2>3. CASE SaveDraft \/ RefreshExpiredOffer \/ WaitForBlock \/ PauseUntil \/ Check \/ NeedReceipt
    BY <2>3, SaveDraftStages, RefreshStages, WaitingStages
  <2>4. CASE QueueApproval \/ SeeRefusal \/ SignSettlement \/ MarkStage \/ Exit
    BY <2>4, QueueStages, MarkStages, EndStages DEF Exit
  <2> QED BY <1>1, <2>2, <2>3, <2>4 DEF Works
<1>2. CASE Includes
  BY <1>2, IncludeStages DEF Includes
<1>3. CASE Advance
  BY <1>3, AdvanceStages
<1>4. CASE Faults
  <2>1. CASE Crash
    BY <2>1, DyingStages DEF Crash
  <2>2. CASE RefreshMisreading
    BY <2>2, MisreadingStages
  <2>3. CASE \E h \in DOMAIN sent : Drop(h)
    BY <2>3, DropStages
  <2>4. CASE \E call \in OthersCalls : OtherActs(call)
    BY <2>4, OthersStages
  <2>5. CASE \E id \in DOMAIN orders : Pass(id)
    BY <2>5, PassStages
  <2>6. CASE PassCutoff
    BY <2>6, PassCutoffStages
  <2> QED BY <1>4, <2>1, <2>2, <2>3, <2>4, <2>5, <2>6 DEF Faults
<1>5. CASE UNCHANGED vars
  <2>1. /\ UNCHANGED <<script, chainVars>> /\ process' = process /\ report'.stages = report.stages
        /\ report'.recorded = report.recorded
    BY <1>5 DEF vars, chainVars
  <2> QED BY <2>1, RecordedExpected, StoppingStages
<1> QED BY <1>1, <1>2, <1>3, <1>4, <1>5 DEF Next

\* In every state: the ledger adds up, pay and deliveries come of transactions the script sent for
\* the terms it has now, and whatever a step behind the process, or behind a marked stage, looked
\* at or brought about is still so on the chains (mark, stage, report.stages).
THEOREM StagesInvariant == Spec => []StagesInv
<1> QED BY StagesStart, StepStages, PTL DEF Spec

-----------------------------------------------------------------------------
(* What a stage says follows from the steps before its mark. *)

LEMMA StageFounded ==
  ASSUME StagesInv, NEW stage \in report.stages
  PROVE  \E m \in 1 .. Len(Program) :
            /\ Program[m].stage = stage /\ Founded(script, m)
            /\ \A w \in 1 .. m - 1 : w \in 1 .. Len(Program) /\ FactOf(w)
<1>1. script \in Scripts /\ StepsPassed /\ FactsDone /\ Len(Program) \in Nat
  BY StagesParts, SentParts, ProgramLength
<1>2. PICK m \in 1 .. Len(Program) : Program[m].do = "mark" /\ Program[m].stage = stage
  BY <1>1 DEF StepsPassed
<1>3. Founded(script, m)
  BY <1>1, <1>2, StagesAssumption DEF Program
<1>4. ASSUME NEW w \in 1 .. m - 1
      PROVE  w \in 1 .. Len(Program) /\ FactOf(w)
  <2>1. w \in 1 .. Len(Program) /\ m \in w .. Len(Program)
    BY <1>1
  <2> QED BY <1>1, <1>2, <2>1 DEF FactsDone, Done
<1> QED BY <1>2, <1>3, <1>4

LEMMA PaidStands ==
  ASSUME StagesInv, NEW stage \in report.stages, stage \in DOMAIN Pays
  PROVE  Stands(stage)
<1>1. Pays[stage] \in Keys
  BY DEF Pays, Keys, Budget
<1>2. PICK key, amount : key = Pays[stage] /\ amount = Intended[key]
  OBVIOUS
<1>3. Paid(key, amount)
  BY <1>1, <1>2, StagePaid
<1>4. stage \in {"orderAApproved", "orderBMutuallySettled", "orderCNoDelivery", "pendingDeclined",
                 "pendingExpired", "monitoringDefault", "committeeQuorum", "committeeTimeout",
                 "mutualBeforeDefault", "defaultBeforeMutual"}
  BY DEF Pays
<1>5. CASE stage = "orderAApproved"
  BY <1>2, <1>3, <1>5 DEF Pays, Intended, Stands
<1>6. CASE stage = "orderBMutuallySettled"
  BY <1>2, <1>3, <1>6 DEF Pays, Intended, Stands
<1>7. CASE stage = "orderCNoDelivery"
  BY <1>2, <1>3, <1>7 DEF Pays, Intended, Stands
<1>8. CASE stage = "pendingDeclined"
  BY <1>2, <1>3, <1>8 DEF Pays, Intended, Stands
<1>9. CASE stage = "pendingExpired"
  BY <1>2, <1>3, <1>9 DEF Pays, Intended, Stands
<1>10. CASE stage = "monitoringDefault"
  BY <1>2, <1>3, <1>10 DEF Pays, Intended, Stands
<1>11. CASE stage = "committeeQuorum"
  BY <1>2, <1>3, <1>11 DEF Pays, Intended, Stands
<1>12. CASE stage = "committeeTimeout"
  BY <1>2, <1>3, <1>12 DEF Pays, Intended, Stands
<1>13. CASE stage = "mutualBeforeDefault"
  BY <1>2, <1>3, <1>13 DEF Pays, Intended, Stands
<1>14. CASE stage = "defaultBeforeMutual"
  BY <1>2, <1>3, <1>14 DEF Pays, Intended, Stands
<1> QED BY <1>4, <1>5, <1>6, <1>7, <1>8, <1>9, <1>10, <1>11, <1>12, <1>13, <1>14

LEMMA CompleteStands ==
  ASSUME StagesInv, "complete" \in report.stages
  PROVE  Stands("complete")
<1>1. script \in Scripts /\ Solvent /\ Rightful /\ PricedIn(orders)
  BY StagesParts, SentParts
<1>2. PICK m \in 1 .. Len(Program) :
         /\ Program[m].stage = "complete" /\ Founded(script, m)
         /\ \A w \in 1 .. m - 1 : w \in 1 .. Len(Program) /\ FactOf(w)
  BY StageFounded
<1>3. /\ \E i \in 1 .. m - 1 : Program[i].do = "check" /\ Program[i].fn = "reserve"
      /\ \A right \in DOMAIN Earned[script] :
            \E i \in 1 .. m - 1 : TargetCall(Program, i, "withdraw") /\ Program[i].key = right
      /\ \E w, i \in 1 .. m - 1 :
            /\ SeesClosed(Program, w) /\ TargetCall(Program, i, "refund")
            /\ Program[i].arg >= Cap[script] - Program[w].arg[3]
  BY <1>2 DEF Founded, Program
<1>4. target.recognized = DOMAIN Rights
  BY <1>2, <1>3 DEF FactOf
<1>5. target.paid = DOMAIN Earned[script]
  <2>1. ASSUME NEW right \in DOMAIN Earned[script] PROVE right \in target.paid
    BY <1>2, <1>3, <2>1 DEF FactOf
  <2> QED BY <1>1, <2>1 DEF Rightful
<1>6. PICK w \in 1 .. m - 1, i \in 1 .. m - 1 :
         /\ SeesClosed(Program, w) /\ TargetCall(Program, i, "refund")
         /\ Program[i].arg >= Cap[script] - Program[w].arg[3]
  BY <1>3
<1>7. source.phase = "closed" /\ EarnedNow = Program[w].arg[3]
  BY <1>2, <1>6 DEF FactOf
<1>8. target.refunded >= Program[i].arg
  BY <1>2, <1>6 DEF FactOf
<1>9. target.refunded >= Cap[script] - EarnedNow
  <2>1. EarnedNow \in Nat /\ target.refunded \in Nat
    BY <1>1, LedgerOf, LedgerSums DEF Rightful
  <2>2. Cap[script] \in Nat
    <3>1. script \in {"demo", "branches", "rotation"}
      BY <1>1, ScriptsAssumption DEF Programs
    <3> QED BY <3>1 DEF Cap
  <2>3. Program[i].arg \in Nat
    <3>1. i \in 1 .. Len(Program) /\ IsCall(Program[i]) /\ Program[i].fn = "refund"
      BY <1>2, <1>6 DEF TargetCall, IsCall
    <3> QED BY <1>1, <3>1, StagesAssumption DEF Program
  <2>4. PICK refunded, asked, earned, cap : refunded = target.refunded /\ asked = Program[i].arg
                                             /\ earned = EarnedNow /\ cap = Cap[script]
    OBVIOUS
  <2>5. refunded \in Nat /\ asked \in Nat /\ earned \in Nat /\ cap \in Nat
    BY <2>1, <2>2, <2>3, <2>4
  <2>6. refunded >= asked /\ asked >= cap - earned
    BY <1>6, <1>7, <1>8, <2>4
  <2>7. refunded >= cap - earned
    BY <2>5, <2>6
  <2> QED BY <2>4, <2>7
<1>10. EarnedNow + source.returned = Cap[script]
  BY <1>1, <1>7 DEF Solvent
<1> QED BY <1>4, <1>5, <1>7, <1>9, <1>10 DEF Stands

LEMMA StagesStand ==
  ASSUME StagesInv, NEW stage \in report.stages
  PROVE  Stands(stage)
<1>1. PICK m \in 1 .. Len(Program) :
         /\ Program[m].stage = stage /\ Founded(script, m)
         /\ \A w \in 1 .. m - 1 : w \in 1 .. Len(Program) /\ FactOf(w)
  BY StageFounded
<1>2. ASSUME NEW key, NEW i \in 1 .. m - 1, Accepted(Program, i, key)
      PROVE  OrderOf(key).agreed
  BY <1>1, <1>2 DEF Accepted, FactOf
<1>3. CASE stage \in DOMAIN Pays
  BY <1>3, PaidStands
<1>4. CASE stage = "complete"
  BY <1>4, CompleteStands
<1>5. CASE stage = "ordersABAgreed"
  <2>1. \A key \in {"a", "b"} : \E i \in 1 .. m - 1 : Accepted(Program, i, key)
    BY <1>1, <1>5 DEF Founded, Program
  <2>2. OrderOf("a").agreed /\ OrderOf("b").agreed
    BY <1>2, <2>1
  <2> QED BY <1>5, <2>2 DEF Stands
<1>6. CASE stage = "orderCAgreed"
  <2>1. \E i \in 1 .. m - 1 : Accepted(Program, i, "c")
    BY <1>1, <1>6 DEF Founded, Program
  <2>2. OrderOf("c").agreed
    BY <1>2, <2>1
  <2> QED BY <1>6, <2>2 DEF Stands
<1>7. CASE stage = "awaitingReturn50Recognition"
  <2>1. PICK w \in 1 .. m - 1 : SeesAccounts(Program, w) /\ Program[w].arg[4] >= 50
    BY <1>1, <1>7 DEF Founded, Program
  <2>2. source.returned >= Program[w].arg[4]
    BY <1>1, <2>1 DEF FactOf
  <2>3. Program[w].arg[4] \in Nat /\ source.returned \in Nat
    BY <1>1, <2>1, StagesParts, SentParts, StagesAssumption DEF Program, Solvent
  <2>4. PICK shown, returned : shown = Program[w].arg[4] /\ returned = source.returned
    OBVIOUS
  <2>5. returned >= 50
    BY <2>1, <2>2, <2>3, <2>4
  <2> QED BY <1>7, <2>4, <2>5 DEF Stands
<1>8. CASE stage = "sourceComplete"
  <2>1. PICK w \in 1 .. m - 1 : SeesClosed(Program, w)
    BY <1>1, <1>8 DEF Founded, Program
  <2>2. source.phase = "closed"
    BY <1>1, <2>1 DEF FactOf
  <2>3. Unresolved = 0
    BY <2>2, StagesParts, NothingReserved DEF Solvent
  <2> QED BY <1>8, <2>2, <2>3 DEF Stands
<1>9. CASE stage = "fundingFinalized"
  <2>1. PICK i \in 1 .. m - 1 : Program[i].do = "pause" /\ Program[i].fn = "funding"
    BY <1>1, <1>9 DEF Founded, Program
  <2>2. target.funding = "final"
    BY <1>1, <2>1 DEF FactOf
  <2> QED BY <1>9, <2>2 DEF Stands
<1>10. CASE stage = "checkpointId"
  <2>1. PICK i \in 1 .. m - 1 : TargetCall(Program, i, "import")
    BY <1>1, <1>10 DEF Founded, Program
  <2>2. Imported
    BY <1>1, <2>1 DEF FactOf
  <2> QED BY <1>10, <2>2 DEF Stands
<1>11. CASE stage \notin DOMAIN Pays \cup {"complete", "ordersABAgreed", "orderCAgreed",
                 "awaitingReturn50Recognition", "sourceComplete", "fundingFinalized", "checkpointId"}
  BY <1>11 DEF Pays, Stands
<1> QED BY <1>3, <1>4, <1>5, <1>6, <1>7, <1>8, <1>9, <1>10, <1>11

\* The report of an operator script never claims more than what happened: whatever a stage
\* says of orders, of the closed epoch or of the target ledger is so on the chains in every
\* state in which the stage is marked, after any crash and restart, although it was inferred
\* from reads between which others act (mark, stage, report.stages).
THEOREM StagesNeverOverstate == Spec => []StagesHold
<1>1. StagesInv => StagesHold
  BY StagesStand DEF StagesHold
<1> QED BY <1>1, StagesInvariant, PTL
=============================================================================
