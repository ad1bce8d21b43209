----------------------------- MODULE MCCommerce -----------------------------
(***************************************************************************)
(* Instances of Commerce and of OrderPanel over it, one or the other by the *)
(* first choice: how an order comes about, and what becomes of it.          *)
(*                                                                         *)
(* Settlement: one browser that places two orders, and two concurrent      *)
(* notifications of two events. Orders: the panel of that account, with two *)
(* offers and two requests at a time.                                       *)
(***************************************************************************)
EXTENDS OrderPanel, TLC

CONSTANTS ann, b1, b2, k1, k2, monthly, annual, o1, o2, e1, e2, d1, d2

VARIABLES part    \* "settlement" or "orders"

MCOwners == {ann}
MCOwner == [c \in Clients |-> ann]
MCAmount == [f \in Offers |-> IF f = monthly THEN 1 ELSE 2]
MCAmounts == {1, 2}
MCTerm == [f \in Offers |-> IF f = monthly THEN 1 ELSE 2]

(* The bound of the settlement. *)
OneBrowser ==
    /\ client[b2].pc = "idle" /\ b2 \in live
    /\ client[b1].pc # "idle" => client[b1].offer = monthly

(* The panel stays as it was mounted while payments are settled. *)
EitherInit ==
    /\ part \in {"settlement", "orders"}
    /\ Init /\ PanelInit
    /\ part = "orders" \/ panel.chosen = monthly

EitherNext ==
    \/ part = "settlement" /\ Next /\ OneBrowser' /\ UNCHANGED <<part, panel, tried>>
    \/ part = "orders" /\ PanelNext /\ UNCHANGED part

EitherSpec == EitherInit /\ [][EitherNext]_<<part, vars, panel, tried>>

Symmetry == Permutations(OrderIds) \cup Permutations(Events)
            \cup Permutations(Deliveries) \cup Permutations(Keys)
=============================================================================
