---------------------------- MODULE RunnerProofs ----------------------------
(***************************************************************************)
(* The settlement runner sends nothing twice, for every packet, every      *)
(* number of restarts and whatever the chain, its other users and crashes  *)
(* do.                                                                     *)
(***************************************************************************)
EXTENDS SettlementRunner, SumTheorems

-----------------------------------------------------------------------------
(* The plan *)

\* Sequences over S, one after the other, make a sequence over S.
LEMMA FlattenIsTyped ==
    ASSUME NEW S, NEW seqs \in Seq(Seq(S))
    PROVE  FlattenSeq(seqs) \in Seq(S)
<1> DEFINE N == Len(seqs)
           body(g, i) == IF i = 1 THEN seqs[i] ELSE g[i - 1] \o seqs[i]
           T == {n \in Nat : \E g : \A i \in 1 .. N :
                    i <= n => g[i] = body(g, i) /\ g[i] \in Seq(S)}
<1>1. N \in Nat /\ \A i \in 1 .. N : seqs[i] \in Seq(S)
  OBVIOUS
<1>2. 0 \in T
  BY <1>1
<1>3. ASSUME NEW n \in Nat, n \in T PROVE n + 1 \in T
  <2>1. PICK g : \A i \in 1 .. N : i <= n => g[i] = body(g, i) /\ g[i] \in Seq(S)
    BY <1>3
  <2> DEFINE h == [i \in 1 .. N |-> body(g, i)]
  <2>2. \A i \in 1 .. N : i <= n => h[i] = g[i]
    BY <2>1
  <2>3. ASSUME NEW i \in 1 .. N, i <= n + 1 PROVE h[i] = body(h, i) /\ h[i] \in Seq(S)
    <3>1. i # 1 => i - 1 \in 1 .. N /\ i - 1 <= n
      BY <1>1, <2>3
    <3>2. i # 1 => h[i - 1] = g[i - 1] /\ g[i - 1] \in Seq(S)
      BY <2>1, <2>2, <3>1
    <3>3. h[i] = body(g, i)
      OBVIOUS
    <3> HIDE DEF h, N
    <3>4. h[i] = body(h, i)
      BY <3>2, <3>3
    <3>5. body(h, i) \in Seq(S)
      BY <1>1, <3>2
    <3> QED BY <3>4, <3>5
  <2>4. \A i \in 1 .. N : i <= n + 1 => h[i] = body(h, i) /\ h[i] \in Seq(S)
    BY <2>3
  <2>5. n + 1 \in Nat
    OBVIOUS
  <2> HIDE DEF h
  <2> QED BY <2>4, <2>5
<1>4. N \in T
  <2> HIDE DEF T
  <2> QED BY <1>1, <1>2, <1>3, NaturalInduction
<1>5. PICK g : \A i \in 1 .. N : i <= N => g[i] = body(g, i) /\ g[i] \in Seq(S)
  BY <1>4
<1> DEFINE f == [i \in 1 .. N |-> g[i]]
           Unfolds(h) == h = [i \in 1 .. N |-> body(h, i)]
<1>6. \A i \in 1 .. N : f[i] = body(f, i)
  <2> TAKE i \in 1 .. N
  <2>1. f[i] = g[i] /\ (i # 1 => f[i - 1] = g[i - 1])
    BY <1>1
  <2>2. g[i] = body(g, i)
    BY <1>1, <1>5
  <2> HIDE DEF f
  <2> QED BY <2>1, <2>2
<1>7. Unfolds(f)
  <2>1. f = [i \in 1 .. N |-> f[i]]
    OBVIOUS
  <2> HIDE DEF f
  <2> QED BY <1>6, <2>1
<1> DEFINE flatten == CHOOSE h : Unfolds(h)
<1>8. Unfolds(flatten)
  <2> HIDE DEF f, Unfolds
  <2> QED BY <1>7
<1> HIDE DEF flatten
<1>9. \A i \in 1 .. N : flatten[i] \in Seq(S)
  <2> DEFINE U == {n \in Nat : n \in 1 .. N => flatten[n] \in Seq(S)}
  <2>1. 0 \in U
    OBVIOUS
  <2>2. ASSUME NEW n \in Nat, n \in U PROVE n + 1 \in U
    <3>1. n + 1 \in 1 .. N => flatten[n + 1] = body(flatten, n + 1)
      BY <1>8
    <3>2. n + 1 # 1 /\ n + 1 \in 1 .. N => (n + 1) - 1 = n /\ flatten[n] \in Seq(S)
      BY <1>1, <2>2
    <3>3. n + 1 \in 1 .. N => body(flatten, n + 1) \in Seq(S)
      <4> HIDE DEF N
      <4> QED BY <1>1, <3>2
    <3>4. n + 1 \in 1 .. N => flatten[n + 1] \in Seq(S)
      BY <3>1, <3>3
    <3>5. n + 1 \in Nat
      OBVIOUS
    <3> HIDE DEF N
    <3> QED BY <3>4, <3>5
  <2>3. Nat \subseteq U
    <3> HIDE DEF U
    <3> QED BY <2>1, <2>2, NaturalInduction
  <2> QED BY <1>1, <2>3
<1>10. CASE N = 0
  <2>1. FlattenSeq(seqs) = seqs
    BY <1>10 DEF FlattenSeq
  <2>2. seqs = << >>
    BY <1>10
  <2> QED BY <2>1, <2>2
<1>11. CASE N # 0
  <2>1. FlattenSeq(seqs) = flatten[N]
    BY <1>11 DEF FlattenSeq, flatten
  <2>2. N \in 1 .. N
    BY <1>1, <1>11
  <2> QED BY <1>9, <2>1, <2>2
<1> QED BY <1>10, <1>11

LEMMA PlanIsTyped == Planned \in Seq(Actions)
<1> DEFINE plans == [i \in DOMAIN Packet |-> PlannedFor(Packet[i])]
<1>1. ASSUME NEW c \in Claims PROVE PlannedFor(c) \in Seq(Actions)
  <2> DEFINE first == IF Recognize(c) \in Achieved(final) THEN << >> ELSE << Recognize(c) >>
             skipped == \/ c \in Returns
                        \/ Paid(Achieved(final), c)
                        \/ Recognize(c) \in Achieved(final) /\ c \in rejecting
             second == IF skipped THEN << >> ELSE << Withdraw(c) >>
  <2>1. Recognize(c) \in Actions /\ (c \notin Returns => Withdraw(c) \in Actions)
    BY DEF Actions
  <2>2. first \in Seq(Actions) /\ second \in Seq(Actions)
    <3> HIDE DEF skipped
    <3>1. ~ skipped => c \notin Returns
      BY DEF skipped
    <3> QED BY <2>1, <3>1
  <2>3. PlannedFor(c) = first \o second
    BY DEF PlannedFor
  <2> HIDE DEF first, second
  <2> QED BY <2>2, <2>3
<1>2. plans \in Seq(Seq(Actions))
  <2>1. Len(Packet) \in Nat /\ DOMAIN Packet = 1 .. Len(Packet)
    BY PacketAssumption
  <2>2. \A i \in DOMAIN Packet : Packet[i] \in Claims
    BY DEF Claims, Range
  <2> QED BY <1>1, <2>1, <2>2
<1> HIDE DEF plans
<1>3. FlattenSeq(plans) \in Seq(Actions)
  BY <1>2, FlattenIsTyped
<1> QED BY <1>3 DEF Planned, plans
-----------------------------------------------------------------------------
(* The invariant *)

LEMMA RunnerStarts == Init => RunnerInv
<1> SUFFICES ASSUME Init PROVE RunnerInv
  OBVIOUS
<1>1. sent = << >> /\ run = Stopped /\ journal = [a \in Actions |-> Unsent]
  BY DEF Init
<1>2. sent \in Seq(Actions) /\ DOMAIN sent = {}
  BY <1>1
<1>3. Stopped \in RunType /\ Stopped.at = "stopped"
  BY DEF Stopped, RunType
<1>4. Unsent \in EntryType /\ Unsent.hash = 0
  BY DEF Unsent, EntryType
<1> QED BY <1>1, <1>2, <1>3, <1>4 DEF RunnerInv, SentOnce

\* What happens outside the process.
LEMMA OutsideKeeps ==
    ASSUME RunnerInv, UNCHANGED <<sent, journal, run, lost>>
    PROVE  RunnerInv'
BY DEF RunnerInv, SentOnce, Entry, Current

\* A process may end anywhere but between sending and saving.
LEMMA EndKeeps ==
    ASSUME RunnerInv, UNCHANGED <<sent, journal, lost>>, run' = Stopped, run.at # "save"
    PROVE  RunnerInv'
<1>1. run' \in RunType /\ run'.at = "stopped"
  BY DEF Stopped, RunType
<1> QED BY <1>1 DEF RunnerInv, SentOnce

\* The process turns to another action, or to the same one's transaction.
LEMMA TurnKeeps ==
    ASSUME RunnerInv, UNCHANGED <<sent, journal, lost>>, run.at # "save",
           run' \in RunType, run'.at \in {"next", "wait", "check"},
           run'.at \in {"wait", "check"} =>
              run'.plan # << >> /\ journal[Head(run'.plan)].hash = run'.hash
    PROVE  RunnerInv'
BY DEF RunnerInv, SentOnce, Entry, Current

\* The action in hand is one of the treasury's, and the rest of the plan too.
LEMMA CurrentIsTyped ==
    ASSUME RunnerInv, run.plan # << >>
    PROVE  Current \in Actions /\ Tail(run.plan) \in Seq(Actions)
<1>1. run.plan \in Seq(Actions)
  BY DEF RunnerInv, RunType
<1> QED BY <1>1 DEF Current

LEMMA ContinueIsTyped ==
    ASSUME RunnerInv, run.plan # << >>, Continue
    PROVE  run' \in RunType /\ run'.at = "next"
BY CurrentIsTyped DEF RunnerInv, RunType, Continue

LEMMA SendKeeps ==
    ASSUME RunnerInv, Send
    PROVE  RunnerInv'
<1>1. /\ run.at = "next" /\ run.plan # << >> /\ Entry.state = "unsent"
      /\ Current \in Actions /\ sent \in Seq(Actions) /\ run \in RunType
  BY CurrentIsTyped DEF Send, At, RunnerInv
<1>2. CASE run.submitted < MaxActions /\ Succeeds(Current)
  <2> DEFINE n == Len(sent)
  <2>1. /\ sent' = Append(sent, Current) /\ run' = [run EXCEPT !.at = "save", !.hash = Len(sent')]
        /\ UNCHANGED <<journal, lost>>
    BY <1>2 DEF Send
  <2>2. /\ n \in Nat /\ sent' \in Seq(Actions) /\ Len(sent') = n + 1
        /\ DOMAIN sent = 1 .. n /\ DOMAIN sent' = 1 .. n + 1
        /\ sent'[n + 1] = Current /\ \A h \in 1 .. n : sent'[h] = sent[h]
    BY <1>1, <2>1
  <2>3. /\ run' \in RunType /\ run'.at = "save" /\ run'.hash = n + 1
        /\ run'.plan = run.plan /\ Current' = Current /\ Entry' = Entry
    <3>1. run' \in RunType /\ run'.at = "save" /\ run'.hash = n + 1 /\ run'.plan = run.plan
      <4>1. run \in RunType /\ n + 1 \in Nat
        BY <1>1, <2>2
      <4>2. run' = [run EXCEPT !.at = "save", !.hash = n + 1]
        BY <2>1, <2>2
      <4> HIDE DEF n
      <4> QED BY <4>1, <4>2 DEF RunType
    <3> QED BY <2>1, <3>1 DEF Current, Entry
  <2>4. \A a \in Actions : journal[a].hash # 0 =>
           journal[a].hash \in DOMAIN sent' /\ sent'[journal[a].hash] = a
    BY <2>2 DEF RunnerInv
  <2>5. SentOnce'
    <3> SUFFICES ASSUME NEW h \in DOMAIN sent'
                 PROVE  h \in lost \/ journal[sent'[h]].hash = h \/ h = n + 1
      BY <2>1, <2>3 DEF SentOnce
    <3>1. CASE h \in 1 .. n
      BY <1>1, <2>2, <3>1 DEF RunnerInv, SentOnce
    <3>2. CASE h \notin 1 .. n
      BY <2>2, <3>2
    <3> QED BY <3>1, <3>2
  <2>6. n + 1 \in DOMAIN sent'
    BY <2>2
  <2> QED BY <1>1, <2>1, <2>2, <2>3, <2>4, <2>5, <2>6 DEF RunnerInv
<1>3. CASE ~(run.submitted < MaxActions /\ Succeeds(Current))
  BY <1>1, <1>3, EndKeeps DEF Send, End
<1> QED BY <1>2, <1>3

LEMMA SaveKeeps ==
    ASSUME RunnerInv, Save
    PROVE  RunnerInv'
<1> DEFINE a == Current
<1>1. /\ run.at = "save" /\ run.plan # << >> /\ Entry.state = "unsent"
      /\ a \in Actions /\ run \in RunType /\ run.hash \in DOMAIN sent /\ sent[run.hash] = a
  BY CurrentIsTyped DEF Save, At, RunnerInv
<1>2. /\ journal' = [journal EXCEPT ![a] = Pending(run.hash)]
      /\ run' = [run EXCEPT !.at = "wait", !.submitted = @ + 1]
      /\ UNCHANGED <<sent, lost>>
  BY DEF Save, chainVars
<1>3. Pending(run.hash) \in EntryType
  BY <1>1 DEF Pending, EntryType, RunType
<1>4. /\ journal' \in [Actions -> EntryType]
      /\ journal'[a] = Pending(run.hash)
      /\ \A b \in Actions : b # a => journal'[b] = journal[b]
  <2> HIDE DEF a
  <2> QED BY <1>1, <1>2, <1>3 DEF RunnerInv
<1>5. /\ run' \in RunType /\ run'.at = "wait" /\ run'.hash = run.hash /\ run'.plan = run.plan
      /\ Current' = a
  <2>1. /\ run' \in RunType /\ run'.at = "wait" /\ run'.hash = run.hash
        /\ run'.plan = run.plan
    <3>1. run \in RunType /\ run.submitted + 1 \in Nat
      BY <1>1 DEF RunType
    <3>2. run' = [run EXCEPT !.at = "wait", !.submitted = run.submitted + 1]
      BY <1>2
    <3> QED BY <3>1, <3>2 DEF RunType
  <2> QED BY <2>1 DEF Current
<1>6. Entry'.hash = run'.hash
  BY <1>4, <1>5 DEF Entry, Pending
<1>7. journal[a].hash = 0
  BY <1>1 DEF RunnerInv, Entry
<1>8. SentOnce'
  <2> SUFFICES ASSUME NEW h \in DOMAIN sent
               PROVE  h \in lost \/ journal'[sent[h]].hash = h
    BY <1>2 DEF SentOnce
  <2>1. h \in Nat /\ h # 0 /\ sent[h] \in Actions
    BY DEF RunnerInv
  <2>2. h \in lost \/ journal[sent[h]].hash = h \/ h = run.hash
    BY <1>1 DEF RunnerInv, SentOnce
  <2>3. CASE sent[h] = a
    BY <1>4, <1>7, <2>1, <2>2, <2>3 DEF Pending
  <2>4. CASE sent[h] # a
    BY <1>1, <1>4, <2>1, <2>2, <2>4
  <2> QED BY <2>3, <2>4
<1>9. \A b \in Actions :
         /\ journal'[b].state = "unsent" => journal'[b].hash = 0
         /\ journal'[b].hash # 0 =>
               journal'[b].hash \in DOMAIN sent' /\ sent'[journal'[b].hash] = b
  <2> HIDE DEF a
  <2> QED BY <1>1, <1>2, <1>4 DEF RunnerInv, Pending
<1>10. sent' \in Seq(Actions)
  BY <1>2 DEF RunnerInv
<1> QED BY <1>1, <1>4, <1>5, <1>6, <1>8, <1>9, <1>10 DEF RunnerInv

LEMMA CheckKeeps ==
    ASSUME RunnerInv, Check
    PROVE  RunnerInv'
<1> DEFINE a == Current
<1>1. /\ run.at = "check" /\ run.plan # << >> /\ journal[a].hash = run.hash
      /\ a \in Actions /\ run \in RunType
  BY CurrentIsTyped DEF Check, At, RunnerInv, Entry
<1>2. CASE Readback(Current)
  <2>1. /\ journal' = [journal EXCEPT ![a] = Complete(run.hash)]
        /\ Continue /\ UNCHANGED <<sent, lost>>
    BY <1>2 DEF Check, chainVars
  <2>2. Complete(run.hash) \in EntryType
    BY <1>1 DEF Complete, EntryType, RunType
  <2>3. /\ journal' \in [Actions -> EntryType]
        /\ journal'[a] = Complete(run.hash)
        /\ \A b \in Actions : b # a => journal'[b] = journal[b]
    <3> HIDE DEF a
    <3> QED BY <1>1, <2>1, <2>2 DEF RunnerInv
  <2>4. \A b \in Actions :
           /\ journal'[b].hash = journal[b].hash
           /\ journal'[b].state = "unsent" => journal[b].state = "unsent"
    <3> HIDE DEF a
    <3> QED BY <1>1, <2>3 DEF Complete
  <2>5. run' \in RunType /\ run'.at = "next"
    BY <1>1, <2>1, ContinueIsTyped
  <2>6. SentOnce'
    <3> SUFFICES ASSUME NEW h \in DOMAIN sent
                 PROVE  h \in lost \/ journal'[sent[h]].hash = h
      BY <2>1 DEF SentOnce
    <3>1. sent[h] \in Actions
      BY DEF RunnerInv
    <3> QED BY <1>1, <2>4, <3>1 DEF RunnerInv, SentOnce
  <2>7. \A b \in Actions :
           /\ journal'[b].state = "unsent" => journal'[b].hash = 0
           /\ journal'[b].hash # 0 =>
                 journal'[b].hash \in DOMAIN sent' /\ sent'[journal'[b].hash] = b
    BY <2>1, <2>4 DEF RunnerInv
  <2> QED BY <2>1, <2>3, <2>5, <2>6, <2>7 DEF RunnerInv
<1>3. CASE ~ Readback(Current)
  BY <1>1, <1>3, EndKeeps DEF Check, End
<1> QED BY <1>2, <1>3

LEMMA WorksKeep ==
    ASSUME RunnerInv, Works
    PROVE  RunnerInv'
<1>1. CASE Start
  <2>1. run' \in RunType /\ run'.at = "next" /\ run.at # "save"
    BY <1>1, PlanIsTyped DEF Start, Stopped, RunType
  <2> QED BY <1>1, <2>1, TurnKeeps DEF Start
<1>2. CASE Finish
  BY <1>2, EndKeeps DEF Finish, End
<1>3. CASE Recheck
  <2>1. run.at # "save" /\ run.plan # << >>
    BY <1>3 DEF Recheck, At
  <2>2. CASE Succeeded(Entry.hash) /\ Readback(Current)
    <3>1. Continue /\ UNCHANGED <<sent, journal, lost>>
      BY <1>3, <2>2 DEF Recheck
    <3> QED BY <2>1, <3>1, ContinueIsTyped, TurnKeeps
  <2>3. CASE ~(Succeeded(Entry.hash) /\ Readback(Current))
    BY <1>3, <2>1, <2>3, EndKeeps DEF Recheck, End
  <2> QED BY <2>2, <2>3
<1>4. CASE Resume
  <2>1. run.at # "save" /\ run.plan # << >> /\ UNCHANGED <<sent, journal, lost>>
    BY <1>4 DEF Resume, At
  <2>2. CASE Succeeded(Entry.hash)
    <3>1. run' = [run EXCEPT !.at = "check", !.hash = Entry.hash]
      BY <1>4, <2>2 DEF Resume
    <3>2. run \in RunType /\ Entry \in EntryType
      BY <2>1, CurrentIsTyped DEF RunnerInv, Entry
    <3>3. /\ run' \in RunType /\ run'.at = "check" /\ run'.plan = run.plan
          /\ run'.hash = Entry.hash
      BY <3>1, <3>2 DEF RunType, EntryType
    <3>4. journal[Head(run'.plan)].hash = run'.hash
      BY <3>3 DEF Entry, Current
    <3> QED BY <2>1, <3>3, <3>4, TurnKeeps
  <2>3. CASE ~ Succeeded(Entry.hash)
    BY <1>4, <2>1, <2>3, EndKeeps DEF Resume
  <2> QED BY <2>2, <2>3
<1>5. CASE Send
  BY <1>5, SendKeeps
<1>6. CASE Save
  BY <1>6, SaveKeeps
<1>7. CASE Await
  <2>1. /\ run.at = "wait" /\ run.plan # << >> /\ UNCHANGED <<sent, journal, lost>>
        /\ Entry.hash = run.hash /\ run \in RunType
    BY <1>7 DEF Await, At, RunnerInv
  <2>2. CASE Succeeded(run.hash)
    <3>1. run' = [run EXCEPT !.at = "check"]
      BY <1>7, <2>2 DEF Await
    <3>2. /\ run' \in RunType /\ run'.at = "check" /\ run'.plan = run.plan
          /\ run'.hash = run.hash
      BY <2>1, <3>1 DEF RunType
    <3>3. journal[Head(run'.plan)].hash = run'.hash
      BY <2>1, <3>2 DEF Entry, Current
    <3> QED BY <2>1, <3>2, <3>3, TurnKeeps
  <2>3. CASE ~ Succeeded(run.hash)
    BY <1>7, <2>1, <2>3, EndKeeps DEF Await
  <2> QED BY <2>2, <2>3
<1>8. CASE Check
  BY <1>8, CheckKeeps
<1>9. CASE Interrupt
  BY <1>9, EndKeeps DEF Interrupt, At, End
<1> QED BY <1>1, <1>2, <1>3, <1>4, <1>5, <1>6, <1>7, <1>8, <1>9 DEF Works

LEMMA CrashKeeps ==
    ASSUME RunnerInv, Crash
    PROVE  RunnerInv'
<1>1. CASE run.at # "save"
  BY <1>1, EndKeeps DEF Crash
<1>2. CASE run.at = "save"
  <2>1. run' = Stopped /\ lost' = lost \cup {run.hash} /\ UNCHANGED <<sent, journal>>
    BY <1>2 DEF Crash
  <2>2. run' \in RunType /\ run'.at = "stopped"
    BY <2>1 DEF Stopped, RunType
  <2> QED BY <1>2, <2>1, <2>2 DEF RunnerInv, SentOnce
<1> QED BY <1>1, <1>2

\* The journal and the process agree on what has been sent, in every state.
THEOREM RunnerInvariant == Spec => []RunnerInv
<1>1. ASSUME RunnerInv, [Next]_vars PROVE RunnerInv'
  <2>1. CASE Works
    BY <1>1, <2>1, WorksKeep
  <2>2. CASE (\E h \in mempool : Include(h)) \/ Others \/ Finalize
    <3>1. UNCHANGED <<sent, journal, run, lost>>
      BY <2>2 DEF Include, Others, OtherRelays, Finalize
    <3> QED BY <1>1, <3>1, OutsideKeeps
  <2>3. CASE Faults
    <3>1. CASE Crash
      BY <1>1, <3>1, CrashKeeps
    <3>2. CASE ~ Crash
      <4>1. UNCHANGED <<sent, journal, run, lost>>
        BY <2>3, <3>2 DEF Faults, Reorganize, Drop, ChangeMind
      <4> QED BY <1>1, <4>1, OutsideKeeps
    <3> QED BY <3>1, <3>2
  <2>4. CASE UNCHANGED vars
    BY <1>1, <2>4, OutsideKeeps DEF vars
  <2> QED BY <1>1, <2>1, <2>2, <2>3, <2>4 DEF Next
<1> QED BY <1>1, RunnerStarts, PTL DEF Spec

\* However often it is restarted, the tool sends an action again only if the
\* process that sent it died before it saved the hash
\* (sdk/settlement-runner.ts, executeSettlementPlan).
THEOREM NothingSentTwice == Spec => []SentOnce
<1>1. RunnerInv => SentOnce
  BY DEF RunnerInv
<1> QED BY <1>1, RunnerInvariant, PTL
=============================================================================
