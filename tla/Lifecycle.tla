------------------------------ MODULE Lifecycle ------------------------------
(***************************************************************************)
(* The canonical state machines of model/model.go.                         *)
(***************************************************************************)
EXTENDS Integers

Classifications == {"SHIPMENT", "INVOICE", "UNCLASSIFIED"}

ShipmentStates == {"PICKED_UP", "IN_TRANSIT", "OUT_FOR_DELIVERY", "DELIVERED"}

\* 0 stands for every state that is not a shipment state.
ShipmentRank(state) ==
  CASE state = "PICKED_UP"        -> 1
    [] state = "IN_TRANSIT"       -> 2
    [] state = "OUT_FOR_DELIVERY" -> 3
    [] state = "DELIVERED"        -> 4
    [] OTHER                      -> 0

invoiceTransitions ==
  [ISSUED |-> {"PAID", "VOIDED"}, PAID |-> {"REFUNDED"}, VOIDED |-> {}, REFUNDED |-> {}]

InvoiceStates == DOMAIN invoiceTransitions

\* A state that is no key of the map has no successors.
InvoiceTransitionAllowed(from, to) ==
  from \in InvoiceStates /\ to \in invoiceTransitions[from]
=============================================================================
