------------------------------ MODULE OrderFSM ------------------------------
(***************************************************************************)
(* The order state machine: src/modules/orders/order-state-machine.ts.     *)
(* Every status write of the program is checked against this table, or by  *)
(* a WHERE clause that must agree with it (initiatePayment, cancelOrder).  *)
(***************************************************************************)

\* OrderStatus, the values a row's status column can hold.
OrderStatus ==
  {"PENDING", "RESERVED", "PAID", "COMPLETED", "FAILED", "CANCELLED"}

\* The adjacency table: the statuses each status may move to.
ORDER_TRANSITIONS ==
  [PENDING   |-> {"RESERVED", "FAILED", "CANCELLED"},
   RESERVED  |-> {"PAID", "FAILED", "CANCELLED"},
   PAID      |-> {"COMPLETED"},
   COMPLETED |-> {},
   FAILED    |-> {},
   CANCELLED |-> {}]

isTransitionAllowed(from, to) == to \in ORDER_TRANSITIONS[from]

isTerminalStatus(status) == ORDER_TRANSITIONS[status] = {}

=============================================================================
