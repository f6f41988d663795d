--------------------------- MODULE ParticipantWork ---------------------------
(***************************************************************************)
(* The participant SDK (ui/participant-work.ts, sdk/work-authorization.ts) *)
(* as the web app uses it: what a worker or a buyer is told of a work      *)
(* file by one hash-pinned read of the source, which delivery that read    *)
(* allows, and the list of work files kept on the device.                  *)
(*                                                                         *)
(* All reads of one call are at one block, whose hash is compared again at *)
(* the end, so a read either sees one state of the source or fails.  The   *)
(* bytes of a packet are its order id: the hash of the terms is the order. *)
(***************************************************************************)
EXTENDS Naturals, SequencesExt

CONSTANTS
    Nothing,      \* no value: null in the code
    Terms,        \* the orders' terms: worker, acceptance deadline, milestones
    Contents,     \* what can be typed as a delivery, "" among it
    StoreLimit    \* PARTICIPANT_WORK_STORE_LIMIT

ASSUME TermsAssumption ==
    \A order \in DOMAIN Terms :
        \A m \in DOMAIN Terms[order].steps :
            LET step == Terms[order].steps[m]
            IN  /\ Terms[order].accept < step.deliver
                /\ step.deliver < step.review /\ step.review < step.rule
ASSUME StoreAssumption == StoreLimit \in Nat \ {0} /\ "" \in Contents

Statuses == {"unknown", "offered", "agreed", "delivered", "challenged", "final"}
Orders == DOMAIN Terms
Milestones(order) == DOMAIN Terms[order].steps

\* A work file: the order, and whether the worker has signed it.
Packet(order, signed) == [order |-> order, signed |-> signed]
Packets == [order : Orders, signed : BOOLEAN]

-----------------------------------------------------------------------------
(* What a read of the source says *)

\* The epoch is active and funded, has capacity for the order and its nonce is unused.
Eligible(order, source) == source.room /\ source.head < Terms[order].accept

\* The worker's account confirms the signature at the block that is read: always
\* if the account is a key, and as long as its code says so if it is a contract.
Honoured(packet, source) == packet.signed /\ packet.order \in source.honoured

\* What of a file stays true: a signed one may be inspected whatever became of it,
\* for its signature held at the block it names; an unsigned one must be eligible.
Reviewable(packet, source) == packet.signed \/ Eligible(packet.order, source)

AcceptanceStage(order, source) ==
    IF source.head < Terms[order].accept THEN "awaiting-acceptance" ELSE "acceptance-expired"

UnknownStage(packet, source) ==
    CASE source.head >= Terms[packet.order].accept -> "acceptance-expired"
      [] ~Eligible(packet.order, source) -> "acceptance-blocked"
      [] packet.signed -> "awaiting-acceptance"
      [] OTHER -> "unsigned-review"

Stage(packet, m, source) ==
    LET step == Terms[packet.order].steps[m]
        status == source.work[packet.order][m]
    IN  CASE status = "unknown" -> UnknownStage(packet, source)
          [] status = "final" -> "source-final"
          [] status = "offered" -> AcceptanceStage(packet.order, source)
          [] status = "agreed" /\ source.head < step.deliver -> "ready-to-deliver"
          [] status = "delivered" /\ source.head < step.deliver -> "ready-to-revise"
          [] status = "delivered" /\ source.head < step.review -> "awaiting-buyer-review"
          [] status = "challenged" /\ source.head < step.rule -> "awaiting-committee"
          [] OTHER -> "awaiting-source-finalization"

ReadWork(packet, m, source) ==
    [packet |-> packet, milestone |-> m, stage |-> Stage(packet, m, source)]

-----------------------------------------------------------------------------
(* Delivery *)

DeliverCall(order, m, content) ==
    [name |-> "deliver", order |-> order, milestone |-> m, content |-> content]

Deliverable(read, content) ==
    read.stage \in {"ready-to-deliver", "ready-to-revise"} /\ content # ""

\* The delivery prepared from a read; the commitment stands for its content.
PrepareDelivery(read, content) == DeliverCall(read.packet.order, read.milestone, content)

-----------------------------------------------------------------------------
(* The work files on the device, the newest first *)

Record(packet, m) == [packet |-> packet, milestone |-> m]
Stored(store, order) == SelectSeq(store, LAMBDA r : r.packet.order = order)
Others(store, order) == SelectSeq(store, LAMBDA r : r.packet.order # order)

\* A signed file is not replaced by an unsigned one of the same order.
Upsert(store, packet, m) ==
    LET signed == packet.signed \/ \E r \in Range(Stored(store, packet.order)) : r.packet.signed
        records == <<Record(Packet(packet.order, signed), m)>> \o Others(store, packet.order)
    IN  IF Len(records) > StoreLimit THEN Front(records) ELSE records
=============================================================================
