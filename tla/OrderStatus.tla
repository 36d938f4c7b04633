---------------------------- MODULE OrderStatus ----------------------------
(***************************************************************************)
(* Child-order statuses and the rule that merges a venue report into them. *)
(* Models backend/engine/orders/order_state_machine.py; the status values  *)
(* are the OrderStatus enum of backend/common/enums.py.                    *)
(***************************************************************************)

Status == {"NEW", "ACK", "PARTIAL", "FILLED", "CANCELLED", "REJECTED", "EXPIRED"}

TerminalStatus == {"FILLED", "CANCELLED", "REJECTED", "EXPIRED"}

WorkingStatus == {"NEW", "ACK", "PARTIAL"}

\* What each working status may become; a terminal status has no row.
Allowed == [NEW     |-> Status,
            ACK     |-> Status \ {"NEW"},
            PARTIAL |-> Status \ {"NEW", "ACK"}]

\* The status an order takes when `incoming` is reported while it is `current`:
\* a terminal order keeps its status, an illegal transition is ignored.
MergeOrderStatus(current, incoming) ==
  IF current \in TerminalStatus \/ incoming \notin Allowed[current]
  THEN current
  ELSE incoming

\* The venue's own words for an order's state, "none" while it has no such order.
VenueStatus == {"none", "NEW", "PARTIALLY_FILLED", "FILLED", "CANCELED", "EXPIRED"}

\* A raw venue status in the engine's terms; one that is not in the table is ACK.
Mapping == [NEW              |-> "ACK",
            PARTIALLY_FILLED |-> "PARTIAL",
            FILLED           |-> "FILLED",
            CANCELED         |-> "CANCELLED",
            REJECTED         |-> "REJECTED",
            EXPIRED          |-> "EXPIRED"]

MapStatus(raw) == IF raw \in DOMAIN Mapping THEN Mapping[raw] ELSE "ACK"
=============================================================================
