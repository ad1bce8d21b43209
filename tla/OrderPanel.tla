----------------------------- MODULE OrderPanel -----------------------------
(***************************************************************************)
(* The order panel of the account pages (AccountCommerce.jsx with          *)
(* accountCommerce.js) over the order store of Commerce: one panel of one   *)
(* account, whose requests the Worker serves as Commerce says, each in a    *)
(* session (a client of Commerce) of its own.                               *)
(*                                                                         *)
(* The panel is mounted anew when the reader changes the section and        *)
(* whenever the account page checks the account again; a request outlives   *)
(* the panel that sent it, and the page gives up a request the Worker goes  *)
(* on with (accountJson, twelve seconds).                                   *)
(***************************************************************************)
EXTENDS Commerce

CONSTANTS NoKey, NoClient, NobodysOrder   \* absent values

(* The sessions are those of the account whose panel it is. *)
ASSUME PanelAssumption ==
    /\ \A c, d \in Clients : Owner[c] = Owner[d]
    /\ NoKey \notin Keys /\ NoClient \notin Clients /\ NobodysOrder \notin OrderIds

VARIABLES
    panel,
    tried    \* history: the keys sent for the choice the panel shows

(* attempt is the key kept for a retry, and sent the request in flight.     *)
Mounted(f) ==
    [read |-> "loading", chosen |-> f, attempt |-> NoKey, sent |-> NoClient,
     created |-> NobodysOrder, failed |-> FALSE]

PanelInit ==
    /\ \E f \in Offers : panel = Mounted(f)
    /\ tried = {}

(* crypto.randomUUID *)
FreshKeys ==
    Keys \ ({panel.attempt} \cup tried \cup {orders[o].key : o \in {p \in OrderIds : Placed(p)}}
            \cup {client[c].key : c \in {d \in Clients : client[d].pc # "idle"}})

-----------------------------------------------------------------------------
(* The read of the records, of which the effect keeps the last. *)

(* A mount forgets the attempt, and the first offer is selected. *)
Mount ==
    /\ \E f \in Offers : panel' = Mounted(f)
    /\ tried' = {}
    /\ UNCHANGED vars

ReadEnds ==
    /\ panel.read = "loading"
    /\ \E read \in {"error"} \cup (IF live # {} THEN {"shown"} ELSE {}) :
          panel' = [panel EXCEPT !.read = read]
    /\ UNCHANGED <<vars, tried>>

Refresh ==
    /\ panel.read # "loading" /\ panel.sent = NoClient
    /\ panel' = [panel EXCEPT !.read = "loading"]
    /\ UNCHANGED <<vars, tried>>

-----------------------------------------------------------------------------
(* The form *)

Choose(f) ==
    /\ panel.read = "shown" /\ panel.sent = NoClient /\ f # panel.chosen
    /\ panel' = [panel EXCEPT !.chosen = f, !.created = NobodysOrder, !.failed = FALSE,
                              !.attempt = NoKey]
    /\ tried' = {}
    /\ UNCHANGED vars

(* Fault: each submission draws a key. *)
AttemptFault == FreshKeys

(* A retry of the same choice sends the same key. *)
Attempt == IF panel.attempt = NoKey THEN FreshKeys ELSE {panel.attempt}

Submit ==
    /\ panel.read = "shown" /\ panel.sent = NoClient /\ panel.created = NobodysOrder
    /\ \E k \in Attempt, c \in Clients :
          /\ RequestOrder(c, k, panel.chosen)
          /\ panel' = [panel EXCEPT !.attempt = k, !.sent = c, !.failed = FALSE]
          /\ tried' = tried \cup {k}

(* The order is shown, and the records are read again. *)
Answered ==
    /\ panel.sent # NoClient /\ client[panel.sent].pc = "answered"
    /\ panel' = [panel EXCEPT !.created = client[panel.sent].order, !.sent = NoClient,
                              !.read = "loading"]
    /\ client' = [client EXCEPT ![panel.sent] = [pc |-> "idle"]]
    /\ UNCHANGED <<store, live, delivery, granted, now, tried>>

(* Refused, lost, or given up while the Worker goes on. *)
Unanswered ==
    /\ panel.sent # NoClient
    /\ panel' = [panel EXCEPT !.failed = TRUE, !.sent = NoClient]
    /\ UNCHANGED <<vars, tried>>

-----------------------------------------------------------------------------
(* The Worker and the sessions *)

Serve(c) ==
    /\ InsertOrder(c) \/ SelectOrder(c) \/ ConfirmOrder(c)
    /\ UNCHANGED <<panel, tried>>

(* The Worker dies under a request, or answers one nobody waits for. *)
Drop(c) == Abandon(c) /\ c # panel.sent /\ UNCHANGED <<panel, tried>>

Lose(c) ==
    /\ c = panel.sent
    /\ Abandon(c)
    /\ panel' = [panel EXCEPT !.failed = TRUE, !.sent = NoClient]
    /\ UNCHANGED tried

Session(c) == (EndSession(c) \/ SignIn(c)) /\ UNCHANGED <<panel, tried>>

PanelNext ==
    \/ Mount \/ ReadEnds \/ Refresh \/ Submit \/ Answered \/ Unanswered
    \/ \E f \in Offers : Choose(f)
    \/ \E c \in Clients : Serve(c) \/ Drop(c) \/ Lose(c) \/ Session(c)

PanelSpec == Init /\ PanelInit /\ [][PanelNext]_<<vars, panel, tried>>

-----------------------------------------------------------------------------
(* Properties *)

OrdersTried == {o \in OrderIds : Placed(o) /\ orders[o].key \in tried}

(* However often a choice is submitted again after answers that were lost,  *)
(* late or refused, it makes one order; and the order shown as saved is     *)
(* that one, for the offer on view (AccountCommerce.jsx:41-43,              *)
(* commerce.js:75-80).                                                      *)
OneOrderPerChoice ==
    /\ Cardinality(OrdersTried) <= 1
    /\ panel.created # NobodysOrder =>
          OrdersTried = {panel.created} /\ orders[panel.created].offer = panel.chosen
=============================================================================
