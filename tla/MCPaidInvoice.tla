--------------------------- MODULE MCPaidInvoice ---------------------------
(* The invoice book beside the treasury, over the history of MCTreasury. *)
EXTENDS PaidInvoiceBook, MCTreasury
=============================================================================
