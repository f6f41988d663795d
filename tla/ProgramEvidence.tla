--------------------------- MODULE ProgramEvidence ---------------------------
(***************************************************************************)
(* The collection of a program's evidence from both ledgers                *)
(* (sdk/program-collector.ts), the verdict on it (sdk/program-closeout.ts) *)
(* and the payment record selected from several programs                   *)
(* (sdk/payment-history.ts).                                               *)
(*                                                                         *)
(* A ledger is a history of events; a history per fork is given, and an    *)
(* RPC answers from the fork and up to the finalized height it has now.    *)
(* A block hash names the history that leads to it, so it is that prefix.  *)
(* Reads are by block number, and the hashes are compared at the end.      *)
(* What the contracts guarantee of one ledger (conservation, the root of   *)
(* the allocation prefix, native authentication below the frontier) is     *)
(* proved or checked in the modules of the contracts.                      *)
(***************************************************************************)
EXTENDS Naturals, SequencesExt

CONSTANTS
    SourceHistory,   \* fork -> the events of the source ledger
    TargetHistory    \* fork -> the events of the treasury

Allocated(epoch, id, kind) == [event |-> "allocated", epoch |-> epoch, id |-> id, kind |-> kind]
Closed(epoch) == [event |-> "closed", epoch |-> epoch]
Recognized(epoch, id, kind) == [event |-> "recognized", epoch |-> epoch, id |-> id, kind |-> kind]
Withdrawn(epoch, id) == [event |-> "withdrawn", epoch |-> epoch, id |-> id]

ASSUME HistoriesAssumption ==
    /\ \A history \in {SourceHistory, TargetHistory} :
          /\ DOMAIN history = {"a", "b"} /\ Len(history["a"]) = Len(history["b"])
          /\ \A fork \in DOMAIN history : history[fork] \in Seq(Range(history[fork]))
    /\ \A fork \in DOMAIN SourceHistory : \A e \in Range(SourceHistory[fork]) :
          e = Closed(e.epoch) \/ e = Allocated(e.epoch, e.id, e.kind)
    /\ \A fork \in DOMAIN TargetHistory : \A e \in Range(TargetHistory[fork]) :
          e = Withdrawn(e.epoch, e.id) \/ e = Recognized(e.epoch, e.id, e.kind)

AllocationIds ==
    {e.id : e \in {x \in UNION {Range(SourceHistory[f]) : f \in DOMAIN SourceHistory} : x.event = "allocated"}}

View(history, node) == SubSeq(history[node.fork], 1, node.height)

Rows(prefix, epoch, event) == {e \in Range(prefix) : e.event = event /\ e.epoch = epoch}
AllocationOf(row) == [id |-> row.id, kind |-> row.kind]

-----------------------------------------------------------------------------
(* One collection: two pinned blocks, the rows read, the comparison *)

\* The finalized block: its hash, which is the history up to it.
Pin(history, node) == View(history, node)

\* Reading at the pinned number, from whatever the node has there now.
AtNumber(history, node, pin) == SubSeq(history[node.fork], 1, Len(pin))
Has(node, pin) == node.height >= Len(pin)

SourceRows(prefix, epoch) ==
    [allocations |-> {AllocationOf(e) : e \in Rows(prefix, epoch, "allocated")},
     closed |-> Rows(prefix, epoch, "closed") # {}]
TargetRows(prefix, epoch) ==
    [recognized |-> {AllocationOf(e) : e \in Rows(prefix, epoch, "recognized")},
     withdrawn |-> {e.id : e \in Rows(prefix, epoch, "withdrawn")}]

\* Mutant (ReportsAreFaithful): the pinned number need only be finalized still.
StillFinalized(history, node, pin) == Has(node, pin)

\* assertStableFinalizedSnapshots: the number still has the pinned hash and is finalized.
Stable(history, node, pin) == Has(node, pin) /\ AtNumber(history, node, pin) = pin

-----------------------------------------------------------------------------
(* The verdict; unread are recognitions whose receipts the RPC did not give *)

Seen(observed) ==
    {a \in observed.source.allocations \cap observed.target.recognized : a.id \notin observed.unread}

Claims(observed) == {a \in observed.source.allocations : a.kind # "RETURN"}

Contradictory(observed) ==
    \/ observed.unread # {}                            \* the recognized sum falls short of the treasury's
    \/ \E a \in observed.target.recognized : a \notin observed.source.allocations
Settled(observed) ==
    /\ observed.source.closed
    /\ observed.source.allocations \subseteq Seen(observed)
    /\ \A a \in Claims(observed) : a.id \in observed.target.withdrawn

Accounting(observed) ==
    CASE Contradictory(observed) -> "invalid"
      [] ~Settled(observed) -> "incomplete"
      [] OTHER -> "complete"

\* A gap in the provenance of a row makes a complete accounting incomplete.
EvidenceStatus(observed) ==
    IF Accounting(observed) = "complete" /\ observed.gaps # {} THEN "incomplete"
    ELSE Accounting(observed)

-----------------------------------------------------------------------------
(* The payment record of the selected epochs *)

Paid(observed) ==
    {a \in Claims(observed) :
        /\ a \in Seen(observed)
        /\ a.id \in observed.target.withdrawn
        /\ a.id \notin observed.gaps}

PaymentRecords(epochs, observed) ==
    UNION {{[epoch |-> e, id |-> a.id, kind |-> a.kind] : a \in Paid(observed[e])} : e \in epochs}

PaymentHistory(epochs, observed) ==
    IF \E e \in epochs : Contradictory(observed[e]) THEN [status |-> "invalid", records |-> {}]
    ELSE [status |-> IF \E e \in epochs :
                            Claims(observed[e]) = {} \/ Claims(observed[e]) # Paid(observed[e])
                     THEN "partial" ELSE "verified",
          records |-> PaymentRecords(epochs, observed)]
=============================================================================
