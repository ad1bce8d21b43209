------------------------------ MODULE Commerce ------------------------------
(***************************************************************************)
(* The sandbox commerce of the account Worker                              *)
(* (public-web/worker/commerce.js): orders placed under an idempotency     *)
(* key, and settleSandboxPayment, which turns a verified payment           *)
(* notification into a provisioned order and an extended subscription.     *)
(*                                                                         *)
(* Every D1 statement or batch is a step, and so is every call of the      *)
(* provisioner: several notifications, of one event or of several, of one  *)
(* order or of several, interleave at these points, the Worker may die at  *)
(* any of them, and D1 may commit a batch and lose its answer.             *)
(***************************************************************************)
EXTENDS Integers, FiniteSets, FiniteSetsExt

CONSTANTS
    Owners, Clients, Owner,      \* accounts, browser sessions, whose session
    Keys,                        \* idempotency keys a browser draws
    Offers, Amount, Term,        \* price and length of each offer
    Amounts,                     \* amounts a notification may carry
    OrderIds,                    \* identifiers a Worker may mint
    Events,                      \* event ids of the payment provider
    Deliveries,                  \* notifications handled at the same time
    MaxNow                       \* last instant of the modelled clock

ASSUME CommerceAssumption ==
    /\ Owner \in [Clients -> Owners] /\ IsFiniteSet(OrderIds)
    /\ Amount \in [Offers -> Nat]
    /\ Term \in [Offers -> Nat \ {0}]
    /\ Amounts \subseteq Nat
    /\ MaxNow \in Nat

NoOrder == [owner |-> "none"]
NoSub   == [starts |-> -1]

ProvisionStates == {"none", "pending", "active", "failed"}

OrderRows == [owner: Owners, key: Keys, offer: Offers,
              payment: {"pending", "verified_paid"},
              provisioning: {"not_provisioned", "pending", "active", "failed"}]

EventRows == [event: Events, order: OrderIds, amount: Nat]

SubRows == [starts: Nat, expires: Nat]

VARIABLES
    orders,       \* commerce_orders
    events,       \* commerce_events
    provisions,   \* commerce_provisions: the state column
    subs,         \* commerce_subscriptions
    live,         \* sessions the identity store still accepts
    client,       \* the request each browser has in flight
    delivery,     \* the notification each settlement call works on
    granted,      \* idempotency keys the provisioner has honoured (external)
    now

vars == <<orders, events, provisions, subs, live, client, delivery, granted, now>>
store == <<orders, events, provisions, subs>>

Placed(o) == orders[o] # NoOrder

Init ==
    /\ orders = [o \in OrderIds |-> NoOrder]
    /\ events = {}
    /\ provisions = [o \in OrderIds |-> "none"]
    /\ subs = [w \in Owners |-> NoSub]
    /\ live = Clients
    /\ client = [c \in Clients |-> [pc |-> "idle"]]
    /\ delivery = [d \in Deliveries |-> [pc |-> "idle"]]
    /\ granted = {}
    /\ now = 0

-----------------------------------------------------------------------------
(* POST /api/account/orders *)

(* The session is authorised and the offer is a current one. *)
RequestOrder(c, k, f) ==
    /\ client[c].pc = "idle"
    /\ c \in live
    /\ client' = [client EXCEPT ![c] = [pc |-> "insert", key |-> k, offer |-> f]]
    /\ UNCHANGED <<store, live, delivery, granted, now>>

RowsOf(c) ==
    {o \in OrderIds : Placed(o) /\ orders[o].owner = Owner[c]
                                /\ orders[o].key = client[c].key}

(* INSERT ... ON CONFLICT(owner_id,idempotency_key) DO NOTHING *)
InsertOrder(c) ==
    /\ client[c].pc = "insert"
    /\ \/ /\ RowsOf(c) # {}
          /\ client' = [client EXCEPT ![c] =
                 [pc |-> "select", key |-> @.key, offer |-> @.offer, minted |-> {}]]
          /\ UNCHANGED orders
       \/ /\ RowsOf(c) = {}
          /\ \E o \in OrderIds :
                /\ ~Placed(o)
                /\ orders' = [orders EXCEPT ![o] =
                       [owner |-> Owner[c], key |-> client[c].key,
                        offer |-> client[c].offer, payment |-> "pending",
                        provisioning |-> "not_provisioned"]]
                /\ client' = [client EXCEPT ![c] =
                       [pc |-> "select", key |-> @.key, offer |-> @.offer,
                        minted |-> {o}]]
    /\ UNCHANGED <<events, provisions, subs, live, delivery, granted, now>>

(* The stored row answers the request only when it is for the same offer;   *)
(* otherwise idempotency_conflict.                                          *)
SelectOrder(c) ==
    /\ client[c].pc = "select"
    /\ \E o \in RowsOf(c) :
        client' = [client EXCEPT ![c] =
            IF orders[o].offer = @.offer
            THEN [pc |-> "confirm", key |-> @.key, offer |-> @.offer,
                  minted |-> @.minted, order |-> o]
            ELSE [pc |-> "idle"]]
    /\ UNCHANGED <<store, live, delivery, granted, now>>

(* The session is checked once more; 201 when this request minted the row,  *)
(* 200 when it found it.                                                    *)
ConfirmOrder(c) ==
    /\ client[c].pc = "confirm"
    /\ client' = [client EXCEPT ![c] =
           IF c \in live
           THEN [pc |-> "answered", key |-> @.key, offer |-> @.offer, order |-> @.order,
                 status |-> IF @.order \in @.minted THEN 201 ELSE 200]
           ELSE [pc |-> "idle"]]
    /\ UNCHANGED <<store, live, delivery, granted, now>>

(* The browser drops a request or its answer; the Worker dies under it. *)
Abandon(c) ==
    /\ client[c].pc # "idle"
    /\ client' = [client EXCEPT ![c] = [pc |-> "idle"]]
    /\ UNCHANGED <<store, live, delivery, granted, now>>

(* Sign-out, expiry or deletion ends a session; a browser signs in again. *)
EndSession(c) ==
    /\ c \in live
    /\ live' = live \ {c}
    /\ UNCHANGED <<store, client, delivery, granted, now>>

SignIn(c) ==
    /\ c \notin live
    /\ client[c].pc = "idle"
    /\ live' = live \cup {c}
    /\ UNCHANGED <<store, client, delivery, granted, now>>

-----------------------------------------------------------------------------
(* settleSandboxPayment *)

Conflicting(e, o, a) ==
    \E r \in events : r.event = e /\ (r.order # o \/ r.amount # a)

(* A verified notification: the order is looked up, the amount compared and *)
(* an earlier event of this id must agree. The rows read are immutable in   *)
(* the columns compared, so the lookups are one step. A refused             *)
(* notification changes nothing.                                            *)
Deliver(d, e, o, a) ==
    /\ delivery[d].pc = "idle"
    /\ Placed(o)
    /\ a = Amount[orders[o].offer]
    /\ ~Conflicting(e, o, a)
    /\ delivery' = [delivery EXCEPT ![d] =
           [pc |-> "record", event |-> e, order |-> o, amount |-> a]]
    /\ UNCHANGED <<store, live, client, granted, now>>

Inserted(d) ==
    IF \E r \in events : r.event = delivery[d].event
    THEN events
    ELSE events \cup {[event |-> delivery[d].event, order |-> delivery[d].order,
                       amount |-> delivery[d].amount]}

(* Fault: the order is marked paid even when its event went to another one. *)
RecordWithoutEvent(d) ==
    LET o == delivery[d].order
    IN  /\ delivery[d].pc = "record"
        /\ events' = Inserted(d)
        /\ orders' = [orders EXCEPT
               ![o].payment = "verified_paid",
               ![o].provisioning = IF @ = "active" THEN "active" ELSE "pending"]
        /\ provisions' = [provisions EXCEPT ![o] = IF @ = "none" THEN "pending" ELSE @]
        /\ delivery' = [delivery EXCEPT ![d].pc = "check"]
        /\ UNCHANGED <<subs, live, client, granted, now>>

(* One batch: the event unless its id is taken; the order paid if the event *)
(* row is this order's; the provision row once the order is paid.           *)
Record(d) ==
    LET o == delivery[d].order
    IN  /\ delivery[d].pc = "record"
        /\ events' = Inserted(d)
        /\ orders' = IF \E r \in Inserted(d) : r.event = delivery[d].event /\ r.order = o
                     THEN [orders EXCEPT
                             ![o].payment = "verified_paid",
                             ![o].provisioning = IF @ = "active" THEN "active"
                                                 ELSE "pending"]
                     ELSE orders
        /\ provisions' = [provisions EXCEPT ![o] =
               IF @ = "none" /\ orders'[o].payment = "verified_paid" THEN "pending" ELSE @]
        /\ delivery' = [delivery EXCEPT ![d].pc = "check"]
        /\ UNCHANGED <<subs, live, client, granted, now>>

(* The event must have been stored for this order, and an order already     *)
(* active is answered without a call. (The attempts counter is left out.)   *)
Check(d) ==
    LET v == delivery[d]
    IN  /\ v.pc = "check"
        /\ delivery' = [delivery EXCEPT ![d] =
               IF \/ \E r \in events : r.event = v.event /\ r.order # v.order
                  \/ provisions[v.order] = "active"
               THEN [pc |-> "idle"]
               ELSE [v EXCEPT !.pc = "provision"]]
        /\ UNCHANGED <<store, live, client, granted, now>>

(* The provisioner honours the order's key, and confirms it or not: it may  *)
(* have honoured a key whose confirmation never arrives. The time of the    *)
(* activation is read on its answer.                                        *)
Confirmed(d) ==
    /\ delivery[d].pc = "provision"
    /\ granted' = granted \cup {delivery[d].order}
    /\ delivery' = [delivery EXCEPT ![d] =
           [pc |-> "activate", event |-> @.event, order |-> @.order,
            amount |-> @.amount, time |-> now]]
    /\ UNCHANGED <<store, live, client, now>>

Unconfirmed(d) ==
    /\ delivery[d].pc = "provision"
    /\ granted' \in {granted, granted \cup {delivery[d].order}}
    /\ delivery' = [delivery EXCEPT ![d].pc = "fail"]
    /\ UNCHANGED <<store, live, client, now>>

Later(a, b) == IF a >= b THEN a ELSE b

(* The subscription of an owner after one more term: the term is appended   *)
(* to what is left of the old one, or starts at time t.                     *)
Extended(s, t, n) ==
    IF s = NoSub THEN [starts |-> t, expires |-> t + n]
    ELSE [s EXCEPT !.expires = Later(@, t) + n]

(* Fault: the subscription is extended whatever the provision's state. *)
ActivatedTwice(d) ==
    LET o == delivery[d].order
        f == orders[o].offer
        w == orders[o].owner
    IN  /\ subs' = [subs EXCEPT ![w] = Extended(@, delivery[d].time, Term[f])]
        /\ provisions' = [provisions EXCEPT ![o] = "active"]
        /\ orders' = [orders EXCEPT ![o].provisioning = "active"]

(* The activation batch: the term is granted only while the provision is    *)
(* not yet active, and the provision and the order become active with it.   *)
Activated(d) ==
    LET o == delivery[d].order
        f == orders[o].offer
        w == orders[o].owner
    IN  /\ subs' = IF provisions[o] \in {"pending", "failed"}
                   THEN [subs EXCEPT ![w] = Extended(@, delivery[d].time, Term[f])]
                   ELSE subs
        /\ provisions' = [provisions EXCEPT ![o] = "active"]
        /\ orders' = [orders EXCEPT ![o].provisioning = "active"]

Activate(d) ==
    /\ delivery[d].pc = "activate"
    /\ Activated(d)
    /\ delivery' = [delivery EXCEPT ![d] = [pc |-> "idle"]]
    /\ UNCHANGED <<events, live, client, granted, now>>

(* D1 reports an error for a batch it committed, or did not. *)
ActivateErrs(d) ==
    /\ delivery[d].pc = "activate"
    /\ Activated(d) \/ UNCHANGED <<subs, provisions, orders>>
    /\ delivery' = [delivery EXCEPT ![d].pc = "fail"]
    /\ UNCHANGED <<events, live, client, granted, now>>

(* Fault: the failure of one delivery overwrites the success of another. *)
FailAlways(d) ==
    LET o == delivery[d].order
    IN  /\ delivery[d].pc = "fail"
        /\ provisions' = [provisions EXCEPT ![o] = "failed"]
        /\ orders' = [orders EXCEPT ![o].provisioning = "failed"]
        /\ delivery' = [delivery EXCEPT ![d] = [pc |-> "idle"]]
        /\ UNCHANGED <<events, subs, live, client, granted, now>>

(* The failure batch never leaves "active". *)
Fail(d) ==
    LET o == delivery[d].order
    IN  /\ delivery[d].pc = "fail"
        /\ provisions' = [provisions EXCEPT ![o] = IF @ = "active" THEN @ ELSE "failed"]
        /\ orders' = [orders EXCEPT ![o].provisioning =
                          IF @ = "active" THEN @ ELSE "failed"]
        /\ delivery' = [delivery EXCEPT ![d] = [pc |-> "idle"]]
        /\ UNCHANGED <<events, subs, live, client, granted, now>>

(* The Worker dies, or a statement outside the try rejects. *)
Crash(d) ==
    /\ delivery[d].pc # "idle"
    /\ delivery' = [delivery EXCEPT ![d] = [pc |-> "idle"]]
    /\ UNCHANGED <<store, live, client, granted, now>>

Tick ==
    /\ now < MaxNow
    /\ now' = now + 1
    /\ UNCHANGED <<store, live, client, delivery, granted>>

ClientStep(c) ==
    \/ \E k \in Keys, f \in Offers : RequestOrder(c, k, f)
    \/ InsertOrder(c)
    \/ SelectOrder(c)
    \/ ConfirmOrder(c)
    \/ Abandon(c)
    \/ EndSession(c)
    \/ SignIn(c)

Settle(d) ==
    \/ Record(d)
    \/ Check(d)
    \/ Confirmed(d)
    \/ Activate(d)
    \/ Fail(d)

Misfortune(d) ==
    \/ Unconfirmed(d)
    \/ ActivateErrs(d)
    \/ Crash(d)

Notify(d) ==
    \E e \in Events, o \in OrderIds, a \in Amounts : Deliver(d, e, o, a)

Next ==
    \/ \E c \in Clients : ClientStep(c)
    \/ \E d \in Deliveries : Notify(d) \/ Settle(d) \/ Misfortune(d)
    \/ Tick

Spec == Init /\ [][Next]_vars

-----------------------------------------------------------------------------
(* Types *)

InsertStates == [pc: {"insert"}, key: Keys, offer: Offers]
SelectStates == [pc: {"select"}, key: Keys, offer: Offers, minted: SUBSET OrderIds]
ConfirmStates == [pc: {"confirm"}, key: Keys, offer: Offers,
                  minted: SUBSET OrderIds, order: OrderIds]
AnswerStates == [pc: {"answered"}, key: Keys, offer: Offers, order: OrderIds,
                 status: {200, 201}]
ClientStates == {[pc |-> "idle"]} \cup InsertStates \cup SelectStates
                \cup ConfirmStates \cup AnswerStates

WorkStates == [pc: {"record", "check", "provision", "fail"}, event: Events,
               order: OrderIds, amount: Nat]
ActivateStates == [pc: {"activate"}, event: Events, order: OrderIds,
                   amount: Nat, time: Nat]
FailStates == [pc: {"fail"}, event: Events, order: OrderIds, amount: Nat, time: Nat]
DeliveryStates == {[pc |-> "idle"]} \cup WorkStates \cup ActivateStates \cup FailStates

(* Every table, request and notification has the shape of its code. *)
TypeOK ==
    /\ orders \in [OrderIds -> OrderRows \cup {NoOrder}]
    /\ events \in SUBSET EventRows
    /\ provisions \in [OrderIds -> ProvisionStates]
    /\ subs \in [Owners -> SubRows \cup {NoSub}]
    /\ live \in SUBSET Clients
    /\ client \in [Clients -> ClientStates]
    /\ delivery \in [Deliveries -> DeliveryStates]
    /\ granted \in SUBSET OrderIds
    /\ now \in Nat

-----------------------------------------------------------------------------
(* Properties *)

(* What an order has added to the subscription of w: its term, once active. *)
PaidTerm(w) ==
    [o \in OrderIds |->
        IF Placed(o) /\ orders[o].owner = w /\ provisions[o] = "active"
        THEN Term[orders[o].offer] ELSE 0]

PaidTerms(w) == SumFunction(PaidTerm(w))

(* Every active order has lengthened its owner's subscription by its term,  *)
(* once: the subscription covers all the paid terms and not a day more,     *)
(* however many notifications, duplicates, failures and crashes it took     *)
(* (the activation batch, commerce.js:118-124).                             *)
EachOrderExtendsOnce ==
    \A w \in Owners :
        IF subs[w] = NoSub THEN PaidTerms(w) = 0
        ELSE /\ subs[w].starts + PaidTerms(w) =< subs[w].expires
             /\ subs[w].expires =< now + PaidTerms(w)

(* An order is active only after an event of its own, for its own amount,   *)
(* was stored and the provisioner honoured its key; an order is paid, and   *)
(* has a provision row, only with such an event (commerce.js:96-117).       *)
PaidBeforeActive ==
    \A o \in OrderIds :
        /\ provisions[o] # "none" =>
              /\ Placed(o)
              /\ orders[o].payment = "verified_paid"
              /\ \E r \in events : r.order = o /\ r.amount = Amount[orders[o].offer]
        /\ provisions[o] = "active" => o \in granted

(* The order the customer sees and the provision row agree on what is       *)
(* active; batches of several deliveries never leave them apart             *)
(* (commerce.js:102-104, 118-131).                                          *)
ProvisioningAgrees ==
    \A o \in OrderIds :
        Placed(o) => ((orders[o].provisioning = "active") <=> (provisions[o] = "active"))

(* Once active, an order stays active and its row keeps its offer: a late   *)
(* failure, a repeated event or a lost answer never takes it back           *)
(* (commerce.js:126-131), and no order row is ever removed or re-owned.     *)
ActiveIsFinal ==
    [][\A o \in OrderIds :
        /\ provisions[o] = "active" => provisions'[o] = "active"
        /\ Placed(o) => /\ orders'[o].owner = orders[o].owner
                        /\ orders'[o].offer = orders[o].offer
                        /\ orders[o].payment = "verified_paid"
                              => orders'[o].payment = "verified_paid"]_vars

Activation(o) == provisions[o] # "active" /\ provisions'[o] = "active"

(* The activation of an order and the one term it pays for are one step: no *)
(* activation without the term, and no longer subscription without an       *)
(* activation of one of its owner's orders (commerce.js:118-125).           *)
OneTermPerActivation ==
    [][/\ \A o \in OrderIds : Activation(o) =>
            \E t \in 0..now : subs'[orders[o].owner] =
                Extended(subs[orders[o].owner], t, Term[orders[o].offer])
       /\ \A w \in Owners : subs'[w] # subs[w] =>
            \E o \in OrderIds : orders[o].owner = w /\ Activation(o)]_vars

(* What was activated stays so, and was paid for by its one term.           *)
ActivationsAreFinal == ActiveIsFinal /\ OneTermPerActivation
=============================================================================
