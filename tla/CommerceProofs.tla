--------------------------- MODULE CommerceProofs ---------------------------
(***************************************************************************)
(* Proofs about sandbox commerce and the panel of its orders, for any       *)
(* owners, orders, offers, events and any number of notifications handled   *)
(* at the same time.                                                        *)
(***************************************************************************)
EXTENDS OrderPanel, FiniteSetTheorems, WellFoundedInduction, TLAPS

\* Stored events belong to a placed order and carry its amount.
EventsMatch ==
    \A r \in events : Placed(r.order) /\ r.amount = Amount[orders[r.order].offer]

\* What a settlement knows of its order at each point.
Knows(v) ==
    /\ v.pc # "idle" => Placed(v.order) /\ v.amount = Amount[orders[v.order].offer]
    /\ v.pc = "check" =>
          \E r \in events : /\ r.event = v.event
                            /\ r.order = v.order => provisions[v.order] # "none"
    /\ v.pc \in {"provision", "activate", "fail"} => provisions[v.order] # "none"
    /\ v.pc = "activate" => v.order \in granted /\ v.time \in 0..now

WorkMatches == \A d \in Deliveries : Knows(delivery[d])

\* An order is marked paid only beside an event of its own.
PaidByEvent ==
    \A o \in OrderIds :
        Placed(o) /\ orders[o].payment = "verified_paid" => \E r \in events : r.order = o

CommerceInv ==
    TypeOK /\ EventsMatch /\ PaidByEvent /\ WorkMatches /\ PaidBeforeActive /\ ProvisioningAgrees

-----------------------------------------------------------------------------
(* Rows that are placed keep what the other tables refer to.               *)

\* An order stays placed, with its owner and its offer, and stays paid.
Kept ==
    \A o \in OrderIds :
        Placed(o) => /\ orders'[o] # NoOrder
                     /\ orders'[o].owner = orders[o].owner
                     /\ orders'[o].offer = orders[o].offer
                     /\ orders[o].payment = "verified_paid"
                           => orders'[o].payment = "verified_paid"

\* A row of a placed order is a row, and the absent one is not.
LEMMA RowFacts ==
    ASSUME TypeOK, NEW o \in OrderIds
    PROVE  /\ Placed(o) <=> orders[o] \in OrderRows
           /\ Placed(o) => /\ orders[o].owner \in Owners
                           /\ orders[o].offer \in Offers
                           /\ orders[o].key \in Keys
           /\ NoOrder \notin OrderRows
<1>1. NoOrder \notin OrderRows
  <2> SUFFICES ASSUME NoOrder \in OrderRows PROVE FALSE
    OBVIOUS
  <2>1. DOMAIN NoOrder = {"owner"}
    BY DEF NoOrder
  <2>2. "key" \in DOMAIN NoOrder
    BY DEF OrderRows
  <2> QED BY <2>1, <2>2
<1>2. orders[o] \in OrderRows \cup {NoOrder}
  BY DEF TypeOK
<1> QED BY <1>1, <1>2 DEF Placed, OrderRows

\* A settlement at work has an event, an order and an amount.
LEMMA WorkFacts ==
    ASSUME TypeOK, NEW d \in Deliveries, delivery[d].pc # "idle"
    PROVE  /\ delivery[d].event \in Events
           /\ delivery[d].order \in OrderIds
           /\ delivery[d].amount \in Nat
           /\ delivery[d].pc = "activate" =>
                 delivery[d] \in ActivateStates /\ delivery[d].time \in Nat
           /\ delivery[d].pc \in {"record", "check", "provision"} => delivery[d] \in WorkStates
           /\ delivery[d].pc = "fail" => delivery[d] \in WorkStates \cup FailStates
<1>1. delivery[d] \in DeliveryStates
  BY DEF TypeOK
<1>2. delivery[d] \in WorkStates \cup ActivateStates \cup FailStates
  BY <1>1 DEF DeliveryStates
<1> QED BY <1>2 DEF WorkStates, ActivateStates, FailStates

-----------------------------------------------------------------------------
(* Steps of the browsers.                                                  *)

\* A step that leaves the store, the settlements and the clock alone.
LEMMA ClientOnly ==
    ASSUME CommerceInv, UNCHANGED <<store, delivery, granted, now>>,
           client' \in [Clients -> ClientStates], live' \in SUBSET Clients
    PROVE  CommerceInv'
<1> USE DEF store
<1>1. TypeOK'
  BY DEF CommerceInv, TypeOK
<1>2. EventsMatch'
  BY DEF CommerceInv, EventsMatch, Placed
<1>3. WorkMatches'
  BY DEF CommerceInv, WorkMatches, Knows, Placed
<1>4. PaidBeforeActive'
  BY DEF CommerceInv, PaidBeforeActive, Placed
<1>5. ProvisioningAgrees'
  BY DEF CommerceInv, ProvisioningAgrees, Placed
<1>6. PaidByEvent'
  BY DEF CommerceInv, PaidByEvent, Placed
<1> QED BY <1>1, <1>2, <1>3, <1>4, <1>5, <1>6 DEF CommerceInv

\* The request of a browser, by the point it has reached.
LEMMA ClientFacts ==
    ASSUME TypeOK, NEW c \in Clients
    PROVE  /\ client[c] \in ClientStates
           /\ client[c].pc = "insert" => client[c] \in InsertStates
           /\ client[c].pc = "select" => client[c] \in SelectStates
           /\ client[c].pc = "confirm" => client[c] \in ConfirmStates
<1>1. client[c] \in ClientStates
  BY DEF TypeOK
<1> QED BY <1>1 DEF ClientStates, InsertStates, SelectStates, ConfirmStates, AnswerStates

\* Placing a new order disturbs no other order.
LEMMA InsertKeepsInv ==
    ASSUME CommerceInv, NEW c \in Clients, InsertOrder(c)
    PROVE  CommerceInv'
<1>1. client[c] \in InsertStates
  BY ClientFacts DEF InsertOrder, CommerceInv
<1>2. client[c].key \in Keys /\ client[c].offer \in Offers
  BY <1>1 DEF InsertStates
<1>3. CASE RowsOf(c) # {}
  <2>1. client' = [client EXCEPT ![c] =
            [pc |-> "select", key |-> client[c].key, offer |-> client[c].offer,
             minted |-> {}]] /\ UNCHANGED orders
    BY <1>3 DEF InsertOrder
  <2>2. [pc |-> "select", key |-> client[c].key, offer |-> client[c].offer,
         minted |-> {}] \in ClientStates
    BY <1>2 DEF ClientStates, SelectStates
  <2>3. client' \in [Clients -> ClientStates]
    BY <2>1, <2>2 DEF CommerceInv, TypeOK
  <2> QED BY <2>1, <2>3, ClientOnly DEF InsertOrder, store, CommerceInv, TypeOK
<1>4. CASE RowsOf(c) = {}
  <2> DEFINE row == [owner |-> Owner[c], key |-> client[c].key,
                     offer |-> client[c].offer, payment |-> "pending",
                     provisioning |-> "not_provisioned"]
  <2>1. PICK o \in OrderIds :
           /\ ~Placed(o)
           /\ orders' = [orders EXCEPT ![o] = row]
           /\ client' = [client EXCEPT ![c] =
                  [pc |-> "select", key |-> client[c].key, offer |-> client[c].offer,
                   minted |-> {o}]]
    BY <1>4 DEF InsertOrder
  <2>2. row \in OrderRows
    <3>1. Owner[c] \in Owners
      BY CommerceAssumption
    <3> QED BY <1>2, <3>1 DEF OrderRows
  <2>3. UNCHANGED <<events, provisions, subs, live, delivery, granted, now>>
    BY DEF InsertOrder
  <2>4. TypeOK'
    <3>1. [pc |-> "select", key |-> client[c].key, offer |-> client[c].offer,
           minted |-> {o}] \in ClientStates
      BY <1>2 DEF ClientStates, SelectStates
    <3>2. client' \in [Clients -> ClientStates]
      BY <2>1, <3>1 DEF CommerceInv, TypeOK
    <3>3. orders' \in [OrderIds -> OrderRows \cup {NoOrder}]
      BY <2>1, <2>2 DEF CommerceInv, TypeOK
    <3> QED BY <2>3, <3>2, <3>3 DEF CommerceInv, TypeOK
  <2>5. /\ \A p \in OrderIds : p # o => orders'[p] = orders[p]
        /\ orders'[o] = row
    BY <2>1 DEF CommerceInv, TypeOK
  <2>6. \A p \in OrderIds : Placed(p) => p # o /\ Placed(p)' /\ orders'[p] = orders[p]
    BY <2>1, <2>5 DEF Placed
  <2>7. EventsMatch'
    BY <2>3, <2>6 DEF CommerceInv, TypeOK, EventRows, EventsMatch
  <2>8. WorkMatches'
    <3> SUFFICES ASSUME NEW d \in Deliveries, delivery[d].pc # "idle"
                 PROVE  /\ orders'[delivery[d].order] # NoOrder
                        /\ orders'[delivery[d].order] = orders[delivery[d].order]
      BY <2>3 DEF CommerceInv, WorkMatches, Knows, Placed
    <3>1. delivery[d].order \in OrderIds
      BY WorkFacts DEF CommerceInv
    <3> QED BY <2>6, <3>1 DEF CommerceInv, WorkMatches, Knows, Placed
  <2>9. provisions[o] = "none"
    BY <2>1 DEF CommerceInv, PaidBeforeActive
  <2>10. PaidBeforeActive'
    BY <2>3, <2>6, <2>9 DEF CommerceInv, PaidBeforeActive
  <2>11. ProvisioningAgrees'
    BY <2>3, <2>5, <2>9 DEF CommerceInv, ProvisioningAgrees, Placed
  <2>12. PaidByEvent'
    BY <2>3, <2>5 DEF CommerceInv, PaidByEvent, Placed
  <2> QED BY <2>4, <2>7, <2>8, <2>10, <2>11, <2>12 DEF CommerceInv
<1> QED BY <1>3, <1>4

\* Every other step of a browser changes only its request or its session.
LEMMA ClientKeepsInv ==
    ASSUME CommerceInv, NEW c \in Clients, ClientStep(c)
    PROVE  CommerceInv'
<1>1. client \in [Clients -> ClientStates] /\ live \in SUBSET Clients
  BY DEF CommerceInv, TypeOK
<1>2. [pc |-> "idle"] \in ClientStates
  BY DEF ClientStates
<1>3. ASSUME NEW k \in Keys, NEW f \in Offers, RequestOrder(c, k, f)
      PROVE  CommerceInv'
  <2>1. [pc |-> "insert", key |-> k, offer |-> f] \in ClientStates
    BY DEF ClientStates, InsertStates
  <2>2. client' \in [Clients -> ClientStates]
    BY <1>1, <1>3, <2>1 DEF RequestOrder
  <2> QED BY <1>1, <1>3, <2>2, ClientOnly DEF RequestOrder
<1>4. CASE SelectOrder(c)
  <2>1. client[c] \in SelectStates
    BY <1>4, ClientFacts DEF SelectOrder, CommerceInv
  <2>2. PICK o \in RowsOf(c) :
           client' = [client EXCEPT ![c] =
               IF orders[o].offer = client[c].offer
               THEN [pc |-> "confirm", key |-> client[c].key, offer |-> client[c].offer,
                     minted |-> client[c].minted, order |-> o]
               ELSE [pc |-> "idle"]]
    BY <1>4 DEF SelectOrder
  <2>3. [pc |-> "confirm", key |-> client[c].key, offer |-> client[c].offer,
         minted |-> client[c].minted, order |-> o] \in ClientStates
    BY <2>1 DEF ClientStates, SelectStates, ConfirmStates, RowsOf
  <2>4. client' \in [Clients -> ClientStates]
    BY <1>1, <1>2, <2>2, <2>3
  <2> QED BY <1>1, <1>4, <2>4, ClientOnly DEF SelectOrder
<1>5. CASE ConfirmOrder(c)
  <2>1. client[c] \in ConfirmStates
    BY <1>5, ClientFacts DEF ConfirmOrder, CommerceInv
  <2> DEFINE ans == [pc |-> "answered", key |-> client[c].key, offer |-> client[c].offer,
                     order |-> client[c].order,
                     status |-> IF client[c].order \in client[c].minted THEN 201 ELSE 200]
  <2>2. ans \in ClientStates
    BY <2>1 DEF ClientStates, ConfirmStates, AnswerStates
  <2>3. client' = [client EXCEPT ![c] = IF c \in live THEN ans ELSE [pc |-> "idle"]]
    BY <1>5 DEF ConfirmOrder
  <2>4. client' \in [Clients -> ClientStates]
    BY <1>1, <1>2, <2>2, <2>3
  <2> QED BY <1>1, <1>5, <2>4, ClientOnly DEF ConfirmOrder
<1>6. CASE Abandon(c)
  <2>1. client' \in [Clients -> ClientStates]
    BY <1>1, <1>2, <1>6 DEF Abandon
  <2> QED BY <1>1, <1>6, <2>1, ClientOnly DEF Abandon
<1>7. CASE EndSession(c)
  BY <1>1, <1>7, ClientOnly DEF EndSession
<1>8. CASE SignIn(c)
  BY <1>1, <1>8, ClientOnly DEF SignIn
<1> QED BY <1>3, <1>4, <1>5, <1>6, <1>7, <1>8, InsertKeepsInv DEF ClientStep

-----------------------------------------------------------------------------
(* Steps of the settlements.                                               *)

\* What only grows: orders are kept, events and grants added, provision rows
\* never removed, and time goes on.
Grows ==
    /\ Kept
    /\ events \subseteq events'
    /\ granted \subseteq granted'
    /\ now' \in Nat /\ now =< now'
    /\ \A o \in OrderIds : provisions[o] # "none" => provisions'[o] # "none"

\* What a settlement knows stays true while others only add to the store.
LEMMA KnowsKept ==
    ASSUME CommerceInv, Grows, NEW d \in Deliveries, delivery'[d] = delivery[d]
    PROVE  Knows(delivery[d])'
<1> DEFINE v == delivery[d]
<1>1. Knows(v)
  BY DEF CommerceInv, WorkMatches
<1>2. CASE v.pc = "idle"
  BY <1>2 DEF Knows
<1>3. CASE v.pc # "idle"
  <2>1. v.order \in OrderIds /\ (v.pc = "activate" => v.time \in Nat)
    BY <1>3, WorkFacts DEF CommerceInv
  <2>2. /\ orders'[v.order] # NoOrder
        /\ v.amount = Amount[orders'[v.order].offer]
    BY <1>1, <1>3, <2>1 DEF Knows, Grows, Kept, Placed
  <2>3. v.pc = "check" =>
          \E r \in events' : /\ r.event = v.event
                             /\ r.order = v.order => provisions'[v.order] # "none"
    BY <1>1, <2>1 DEF Knows, Grows
  <2>4. v.pc \in {"provision", "activate", "fail"} => provisions'[v.order] # "none"
    BY <1>1, <2>1 DEF Knows, Grows
  <2>5. v.pc = "activate" => v.order \in granted' /\ v.time \in 0..now'
    BY <1>1, <2>1 DEF Knows, Grows, CommerceInv, TypeOK
  <2> QED BY <2>2, <2>3, <2>4, <2>5 DEF Knows, Placed
<1> QED BY <1>2, <1>3

\* A step that moves one settlement and leaves the tables alone.
LEMMA DeliveryOnly ==
    ASSUME CommerceInv, NEW d \in Deliveries,
           UNCHANGED <<store, live, client, now>>,
           granted' \in SUBSET OrderIds, granted \subseteq granted',
           delivery' = [delivery EXCEPT ![d] = delivery'[d]],
           delivery'[d] \in DeliveryStates, Knows(delivery[d])'
    PROVE  CommerceInv'
<1> USE DEF store
<1>1. TypeOK'
  BY DEF CommerceInv, TypeOK
<1>2. EventsMatch'
  BY DEF CommerceInv, EventsMatch, Placed
<1>3. Grows
  BY DEF CommerceInv, TypeOK, Grows, Kept, Placed
<1>4. WorkMatches'
  <2> SUFFICES ASSUME NEW e \in Deliveries PROVE Knows(delivery[e])'
    BY DEF WorkMatches
  <2>1. CASE e = d
    BY <2>1
  <2>2. CASE e # d
    <3>1. delivery'[e] = delivery[e]
      BY <2>2 DEF CommerceInv, TypeOK
    <3> QED BY <1>3, <3>1, KnowsKept
  <2> QED BY <2>1, <2>2
<1>5. PaidBeforeActive'
  BY DEF CommerceInv, PaidBeforeActive, Placed
<1>6. ProvisioningAgrees'
  BY DEF CommerceInv, ProvisioningAgrees, Placed
<1>7. PaidByEvent'
  BY DEF CommerceInv, PaidByEvent, Placed
<1> QED BY <1>1, <1>2, <1>4, <1>5, <1>6, <1>7 DEF CommerceInv

\* Ending a settlement, at any point.
LEMMA EndKeepsInv ==
    ASSUME CommerceInv, NEW d \in Deliveries,
           UNCHANGED <<store, live, client, granted, now>>,
           delivery' = [delivery EXCEPT ![d] = [pc |-> "idle"]]
    PROVE  CommerceInv'
<1>1. delivery'[d] = [pc |-> "idle"]
  BY DEF CommerceInv, TypeOK
<1>2. delivery'[d] \in DeliveryStates /\ Knows(delivery[d])'
  BY <1>1 DEF DeliveryStates, Knows
<1> QED BY <1>1, <1>2, DeliveryOnly DEF CommerceInv, TypeOK

\* A notification that passes the checks knows its order and its amount.
LEMMA DeliverKeepsInv ==
    ASSUME CommerceInv, NEW d \in Deliveries, NEW e \in Events, NEW o \in OrderIds,
           NEW a \in Amounts, Deliver(d, e, o, a)
    PROVE  CommerceInv'
<1>1. delivery'[d] = [pc |-> "record", event |-> e, order |-> o, amount |-> a]
  BY DEF Deliver, CommerceInv, TypeOK
<1>2. a \in Nat
  BY CommerceAssumption
<1>3. delivery'[d] \in DeliveryStates
  BY <1>1, <1>2 DEF DeliveryStates, WorkStates
<1>4. Knows(delivery[d])'
  BY <1>1 DEF Deliver, store, Knows, Placed
<1> QED BY <1>1, <1>3, <1>4, DeliveryOnly DEF Deliver, CommerceInv, TypeOK

\* The recording batch.
LEMMA RecordKeepsInv ==
    ASSUME CommerceInv, NEW d \in Deliveries, Record(d)
    PROVE  CommerceInv' /\ Kept
<1> DEFINE v == delivery[d]
           o == v.order
           mine == \E r \in Inserted(d) : r.event = v.event /\ r.order = o
<1>1. /\ v \in WorkStates /\ v.pc = "record"
      /\ v.event \in Events /\ o \in OrderIds /\ v.amount \in Nat
  BY WorkFacts DEF Record, CommerceInv
<1>2. /\ Placed(o) /\ v.amount = Amount[orders[o].offer]
      /\ orders[o] \in OrderRows /\ NoOrder \notin OrderRows
  BY <1>1, RowFacts DEF CommerceInv, WorkMatches, Knows
<1>3. UNCHANGED <<subs, live, client, granted, now>>
  BY DEF Record
<1>4. events' = Inserted(d) /\ events \subseteq events'
  BY DEF Record, Inserted
<1>5. /\ \A p \in OrderIds : p # o => orders'[p] = orders[p]
      /\ ~mine => orders' = orders
      /\ mine => orders'[o] = [orders[o] EXCEPT
                     !.payment = "verified_paid",
                     !.provisioning = IF orders[o].provisioning = "active" THEN "active"
                                      ELSE "pending"]
      /\ orders' \in [OrderIds -> OrderRows \cup {NoOrder}]
  <2>1. CASE ~mine
    BY <2>1 DEF Record, CommerceInv, TypeOK
  <2>2. CASE mine
    <3> DEFINE row == [orders[o] EXCEPT
                     !.payment = "verified_paid",
                     !.provisioning = IF orders[o].provisioning = "active" THEN "active"
                                      ELSE "pending"]
    <3>1. orders' = [orders EXCEPT ![o] = row]
      BY <2>2 DEF Record
    <3>2. row \in OrderRows
      BY <1>2 DEF OrderRows
    <3> QED BY <1>1, <2>2, <3>1, <3>2 DEF CommerceInv, TypeOK
  <2> QED BY <2>1, <2>2
<1>6. /\ Kept
      /\ orders'[o] \in OrderRows
      /\ orders'[o].provisioning = "active" <=> orders[o].provisioning = "active"
      /\ mine => orders'[o].payment = "verified_paid"
  <2>1. CASE ~mine
    BY <1>1, <1>2, <1>5, <2>1 DEF Kept, Placed
  <2>2. CASE mine
    <3>1. /\ orders'[o] \in OrderRows
          /\ orders'[o].owner = orders[o].owner /\ orders'[o].offer = orders[o].offer
          /\ orders'[o].payment = "verified_paid"
          /\ orders'[o].provisioning = "active" <=> orders[o].provisioning = "active"
      BY <1>2, <1>5, <2>2 DEF OrderRows
    <3>2. Kept
      BY <1>2, <1>5, <3>1 DEF Kept, Placed
    <3> QED BY <3>1, <3>2
  <2> QED BY <2>1, <2>2
<1>7. /\ provisions' = [provisions EXCEPT ![o] =
             IF provisions[o] = "none" /\ orders'[o].payment = "verified_paid"
             THEN "pending" ELSE provisions[o]]
      /\ provisions' \in [OrderIds -> ProvisionStates]
  <2>1. provisions' = [provisions EXCEPT ![o] =
             IF provisions[o] = "none" /\ orders'[o].payment = "verified_paid"
             THEN "pending" ELSE provisions[o]]
    BY DEF Record
  <2> QED BY <1>1, <2>1 DEF CommerceInv, TypeOK, ProvisionStates
<1>8. \A p \in OrderIds : /\ p # o => provisions'[p] = provisions[p]
                          /\ provisions[p] # "none" => provisions'[p] = provisions[p]
                          /\ provisions'[p] = "active" <=> provisions[p] = "active"
  BY <1>1, <1>7 DEF CommerceInv, TypeOK
<1>9. /\ delivery' = [delivery EXCEPT ![d] = delivery'[d]]
      /\ delivery'[d] = [v EXCEPT !.pc = "check"]
      /\ delivery'[d] \in DeliveryStates
  <2>1. delivery' = [delivery EXCEPT ![d] = [v EXCEPT !.pc = "check"]]
    BY DEF Record
  <2>2. [v EXCEPT !.pc = "check"] \in WorkStates
    BY <1>1 DEF WorkStates
  <2> QED BY <2>1, <2>2 DEF CommerceInv, TypeOK, DeliveryStates
<1>10. events' \in SUBSET EventRows
  BY <1>1, <1>4 DEF Inserted, EventRows, CommerceInv, TypeOK
<1>11. TypeOK'
  BY <1>3, <1>5, <1>7, <1>9, <1>10 DEF CommerceInv, TypeOK
<1>12. EventsMatch'
  <2> SUFFICES ASSUME NEW r \in events'
               PROVE  /\ orders'[r.order] # NoOrder
                      /\ r.amount = Amount[orders'[r.order].offer]
    BY DEF EventsMatch, Placed
  <2>1. r \in events \/ r = [event |-> v.event, order |-> o, amount |-> v.amount]
    BY <1>4 DEF Inserted
  <2>2. r.order \in OrderIds
    BY <1>10 DEF EventRows
  <2>3. Placed(r.order) /\ r.amount = Amount[orders[r.order].offer]
    BY <1>2, <2>1 DEF CommerceInv, EventsMatch
  <2> QED BY <1>6, <2>2, <2>3 DEF Kept
<1>13. Grows
  BY <1>3, <1>4, <1>6, <1>8 DEF Grows, CommerceInv, TypeOK
<1>14. Knows(delivery[d])'
  <2>1. PICK r \in events' : r.event = v.event
    <3>1. CASE \E r \in events : r.event = v.event
      BY <1>4, <3>1
    <3>2. CASE ~\E r \in events : r.event = v.event
      <4>1. [event |-> v.event, order |-> o, amount |-> v.amount] \in events'
        BY <1>4, <3>2 DEF Inserted
      <4> QED BY <4>1
    <3> QED BY <3>1, <3>2
  <2>2. r.order = o => provisions'[o] # "none"
    <3> SUFFICES ASSUME r.order = o PROVE provisions'[o] # "none"
      OBVIOUS
    <3>1. orders'[o].payment = "verified_paid"
      BY <1>4, <1>6, <2>1
    <3> QED BY <1>1, <1>7, <3>1 DEF CommerceInv, TypeOK
  <2>3. /\ delivery'[d].pc = "check" /\ delivery'[d].order = o
        /\ delivery'[d].event = v.event /\ delivery'[d].amount = v.amount
    BY <1>1, <1>9 DEF WorkStates
  <2>4. orders'[o] # NoOrder /\ v.amount = Amount[orders'[o].offer]
    BY <1>1, <1>2, <1>6 DEF Kept
  <2> QED BY <2>1, <2>2, <2>3, <2>4 DEF Knows, Placed
<1>15. WorkMatches'
  <2> SUFFICES ASSUME NEW e \in Deliveries PROVE Knows(delivery[e])'
    BY DEF WorkMatches
  <2>1. CASE e # d
    <3>1. delivery'[e] = delivery[e]
      BY <1>9, <2>1 DEF CommerceInv, TypeOK
    <3> QED BY <1>13, <3>1, KnowsKept
  <2> QED BY <1>14, <2>1
<1>16. PaidBeforeActive'
  <2> SUFFICES ASSUME NEW p \in OrderIds
               PROVE  /\ provisions'[p] # "none" =>
                            /\ orders'[p] # NoOrder
                            /\ orders'[p].payment = "verified_paid"
                            /\ \E r \in events' :
                                  r.order = p /\ r.amount = Amount[orders'[p].offer]
                      /\ provisions'[p] = "active" => p \in granted'
    BY DEF PaidBeforeActive, Placed
  <2>1. provisions'[p] = "active" => p \in granted'
    BY <1>3, <1>8 DEF CommerceInv, PaidBeforeActive
  <2>2. CASE provisions[p] # "none"
    <3>1. /\ Placed(p) /\ orders[p].payment = "verified_paid"
          /\ \E r \in events : r.order = p /\ r.amount = Amount[orders[p].offer]
      BY <2>2 DEF CommerceInv, PaidBeforeActive
    <3> QED BY <1>4, <1>6, <2>1, <3>1 DEF Kept
  <2>3. CASE provisions[p] = "none" /\ provisions'[p] # "none"
    <3>1. p = o /\ orders'[o].payment = "verified_paid"
      BY <1>1, <1>7, <1>8, <2>3 DEF CommerceInv, TypeOK
    <3>2. \E r \in events' : r.order = o
      <4>1. CASE mine
        BY <1>4, <4>1
      <4>2. CASE ~mine
        \* The row was paid before: the payment column is set only with an event.
        BY <1>1, <1>2, <1>4, <1>5, <3>1, <4>2 DEF CommerceInv, PaidByEvent
      <4> QED BY <4>1, <4>2
    <3>3. \E r \in events' : r.order = o /\ r.amount = Amount[orders'[o].offer]
      BY <1>12, <3>2 DEF EventsMatch
    <3> QED BY <1>1, <1>2, <1>6, <2>1, <3>1, <3>3 DEF Kept
  <2> QED BY <2>1, <2>2, <2>3
<1>17. ProvisioningAgrees'
  <2> SUFFICES ASSUME NEW p \in OrderIds, orders'[p] # NoOrder
               PROVE  (orders'[p].provisioning = "active") <=> (provisions'[p] = "active")
    BY DEF ProvisioningAgrees, Placed
  <2>1. Placed(p) /\ (orders'[p].provisioning = "active" <=> orders[p].provisioning = "active")
    BY <1>2, <1>5, <1>6 DEF Placed
  <2> QED BY <1>8, <2>1 DEF CommerceInv, ProvisioningAgrees
<1>18. PaidByEvent'
  <2> SUFFICES ASSUME NEW p \in OrderIds, orders'[p] # NoOrder,
                      orders'[p].payment = "verified_paid"
               PROVE  \E r \in events' : r.order = p
    BY DEF PaidByEvent, Placed
  <2>1. CASE p = o /\ mine
    BY <1>4, <2>1
  <2>2. CASE ~(p = o /\ mine)
    BY <1>4, <1>5, <2>2 DEF CommerceInv, PaidByEvent, Placed
  <2> QED BY <2>1, <2>2
<1> QED BY <1>6, <1>11, <1>12, <1>15, <1>16, <1>17, <1>18 DEF CommerceInv

\* After the check, the event is known to be the order's own.
LEMMA CheckKeepsInv ==
    ASSUME CommerceInv, NEW d \in Deliveries, Check(d)
    PROVE  CommerceInv'
<1> DEFINE v == delivery[d]
           stop == \/ \E r \in events : r.event = v.event /\ r.order # v.order
                   \/ provisions[v.order] = "active"
<1>1. v \in WorkStates /\ v.pc = "check"
  BY WorkFacts DEF Check, CommerceInv
<1>2. delivery' = [delivery EXCEPT ![d] =
          IF stop THEN [pc |-> "idle"] ELSE [v EXCEPT !.pc = "provision"]]
  BY DEF Check
<1>3. UNCHANGED <<store, live, client, granted, now>>
  BY DEF Check
<1>4. CASE stop
  BY <1>2, <1>3, <1>4, EndKeepsInv
<1>5. CASE ~stop
  <2>1. delivery'[d] = [v EXCEPT !.pc = "provision"]
    BY <1>2, <1>5 DEF CommerceInv, TypeOK
  <2>2. /\ delivery'[d] \in DeliveryStates
        /\ delivery'[d].pc = "provision" /\ delivery'[d].order = v.order
        /\ delivery'[d].amount = v.amount
    BY <1>1, <2>1 DEF DeliveryStates, WorkStates
  <2>3. provisions[v.order] # "none"
    BY <1>1, <1>5 DEF CommerceInv, WorkMatches, Knows
  <2>4. Placed(v.order) /\ v.amount = Amount[orders[v.order].offer]
    BY <1>1 DEF CommerceInv, WorkMatches, Knows
  <2>5. Knows(delivery[d])'
    BY <1>3, <2>2, <2>3, <2>4 DEF Knows, Placed, store
  <2> QED BY <1>2, <1>3, <2>1, <2>2, <2>5, DeliveryOnly DEF CommerceInv, TypeOK
<1> QED BY <1>4, <1>5

\* The answers of the provisioner.
LEMMA ProvisionKeepsInv ==
    ASSUME CommerceInv, NEW d \in Deliveries, Confirmed(d) \/ Unconfirmed(d)
    PROVE  CommerceInv'
<1> DEFINE v == delivery[d]
<1>1. /\ v \in WorkStates /\ v.pc = "provision"
      /\ v.event \in Events /\ v.order \in OrderIds /\ v.amount \in Nat
  BY WorkFacts DEF Confirmed, Unconfirmed, CommerceInv
<1>2. /\ Placed(v.order) /\ v.amount = Amount[orders[v.order].offer]
      /\ provisions[v.order] # "none"
  BY <1>1 DEF CommerceInv, WorkMatches, Knows
<1>3. UNCHANGED <<store, live, client, now>>
  BY DEF Confirmed, Unconfirmed
<1>4. granted' \in SUBSET OrderIds /\ granted \subseteq granted'
  BY <1>1 DEF Confirmed, Unconfirmed, CommerceInv, TypeOK
<1>5. CASE Confirmed(d)
  <2>1. delivery'[d] = [pc |-> "activate", event |-> v.event, order |-> v.order,
                        amount |-> v.amount, time |-> now]
    BY <1>5 DEF Confirmed, CommerceInv, TypeOK
  <2>2. now \in Nat
    BY DEF CommerceInv, TypeOK
  <2>3. delivery'[d] \in DeliveryStates
    BY <1>1, <2>1, <2>2 DEF DeliveryStates, ActivateStates
  <2>4. v.order \in granted'
    BY <1>5 DEF Confirmed
  <2>5. Knows(delivery[d])'
    BY <1>2, <1>3, <2>1, <2>2, <2>4 DEF Knows, Placed, store
  <2>6. delivery' = [delivery EXCEPT ![d] = delivery'[d]]
    BY <1>5, <2>1 DEF Confirmed
  <2> QED BY <1>3, <1>4, <2>3, <2>5, <2>6, DeliveryOnly
<1>6. CASE Unconfirmed(d)
  <2>1. delivery'[d] = [v EXCEPT !.pc = "fail"]
    BY <1>6 DEF Unconfirmed, CommerceInv, TypeOK
  <2>2. /\ delivery'[d] \in DeliveryStates
        /\ delivery'[d].pc = "fail" /\ delivery'[d].order = v.order
        /\ delivery'[d].amount = v.amount
    BY <1>1, <2>1 DEF DeliveryStates, WorkStates
  <2>3. Knows(delivery[d])'
    BY <1>2, <1>3, <2>2 DEF Knows, Placed, store
  <2>4. delivery' = [delivery EXCEPT ![d] = delivery'[d]]
    BY <1>6, <2>1 DEF Unconfirmed
  <2> QED BY <1>3, <1>4, <2>2, <2>3, <2>4, DeliveryOnly
<1> QED BY <1>5, <1>6

\* A step of settlement d that moves only order o between provisioning states,
\* the order row and the provision row together, never away from "active".
LEMMA MoveKeepsInv ==
    ASSUME CommerceInv, NEW d \in Deliveries, NEW o \in OrderIds, NEW st \in {"active", "failed"},
           Placed(o), provisions[o] # "none", st = "active" => o \in granted,
           st = "failed" => provisions[o] # "active",
           orders' = [orders EXCEPT ![o].provisioning = st],
           provisions' = [provisions EXCEPT ![o] = st],
           subs' \in [Owners -> SubRows \cup {NoSub}],
           UNCHANGED <<events, live, client, granted, now>>,
           delivery' = [delivery EXCEPT ![d] = delivery'[d]],
           delivery'[d] \in DeliveryStates,
           delivery'[d].pc \in {"idle", "fail"},
           delivery'[d].pc = "fail" => /\ delivery'[d].order = o
                                       /\ delivery'[d].amount = Amount[orders[o].offer]
    PROVE  CommerceInv'
<1>1. orders[o] \in OrderRows /\ NoOrder \notin OrderRows
  BY RowFacts DEF CommerceInv
<1>2. /\ orders'[o] = [orders[o] EXCEPT !.provisioning = st]
      /\ \A p \in OrderIds : p # o => orders'[p] = orders[p]
  BY DEF CommerceInv, TypeOK
<1>3. /\ orders'[o] \in OrderRows
      /\ orders'[o].owner = orders[o].owner /\ orders'[o].offer = orders[o].offer
      /\ orders'[o].payment = orders[o].payment /\ orders'[o].provisioning = st
  BY <1>1, <1>2 DEF OrderRows
<1>4. /\ provisions'[o] = st /\ \A p \in OrderIds : p # o => provisions'[p] = provisions[p]
  BY DEF CommerceInv, TypeOK
<1>5. TypeOK'
  <2>1. orders' \in [OrderIds -> OrderRows \cup {NoOrder}]
    BY <1>2, <1>3 DEF CommerceInv, TypeOK
  <2>2. provisions' \in [OrderIds -> ProvisionStates]
    BY DEF CommerceInv, TypeOK, ProvisionStates
  <2> QED BY <2>1, <2>2 DEF CommerceInv, TypeOK
<1>6. Kept
  BY <1>1, <1>2, <1>3 DEF Kept, Placed
<1>7. Grows
  BY <1>4, <1>6 DEF Grows, CommerceInv, TypeOK
<1>8. EventsMatch'
  <2> SUFFICES ASSUME NEW r \in events
               PROVE  /\ orders'[r.order] # NoOrder
                      /\ r.amount = Amount[orders'[r.order].offer]
    BY DEF EventsMatch, Placed
  <2>1. r.order \in OrderIds
    BY DEF CommerceInv, TypeOK, EventRows
  <2> QED BY <1>6, <2>1 DEF Kept, CommerceInv, EventsMatch
<1>9. PaidByEvent'
  BY <1>1, <1>2, <1>3 DEF CommerceInv, PaidByEvent, Placed
<1>10. WorkMatches'
  <2> SUFFICES ASSUME NEW e \in Deliveries PROVE Knows(delivery[e])'
    BY DEF WorkMatches
  <2>1. CASE e # d
    <3>1. delivery'[e] = delivery[e]
      BY <2>1 DEF CommerceInv, TypeOK
    <3> QED BY <1>7, <3>1, KnowsKept
  <2>2. CASE e = d
    <3>1. orders'[o] # NoOrder /\ provisions'[o] # "none"
      BY <1>1, <1>3, <1>4
    <3> QED BY <1>3, <2>2, <3>1 DEF Knows, Placed
  <2> QED BY <2>1, <2>2
<1>11. PaidBeforeActive'
  <2> SUFFICES ASSUME NEW p \in OrderIds
               PROVE  /\ provisions'[p] # "none" =>
                            /\ orders'[p] # NoOrder
                            /\ orders'[p].payment = "verified_paid"
                            /\ \E r \in events :
                                  r.order = p /\ r.amount = Amount[orders'[p].offer]
                      /\ provisions'[p] = "active" => p \in granted
    BY DEF PaidBeforeActive, Placed
  <2>1. provisions'[p] # "none" => provisions[p] # "none"
    BY <1>4
  <2>2. provisions'[p] = "active" => p \in granted
    BY <1>4 DEF CommerceInv, PaidBeforeActive
  <2>3. CASE p = o
    BY <1>1, <1>3, <2>2, <2>3 DEF CommerceInv, PaidBeforeActive
  <2>4. CASE p # o
    BY <1>2, <2>1, <2>2, <2>4 DEF CommerceInv, PaidBeforeActive, Placed
  <2> QED BY <2>3, <2>4
<1>12. ProvisioningAgrees'
  <2> SUFFICES ASSUME NEW p \in OrderIds, orders'[p] # NoOrder
               PROVE  (orders'[p].provisioning = "active") <=> (provisions'[p] = "active")
    BY DEF ProvisioningAgrees, Placed
  <2>1. CASE p = o
    BY <1>3, <1>4, <2>1
  <2>2. CASE p # o
    BY <1>2, <1>4, <2>2 DEF CommerceInv, ProvisioningAgrees, Placed
  <2> QED BY <2>1, <2>2
<1> QED BY <1>5, <1>8, <1>9, <1>10, <1>11, <1>12 DEF CommerceInv

\* A subscription stays one when a term is added.
LEMMA ExtendedTyped ==
    ASSUME NEW s \in SubRows \cup {NoSub}, NEW t \in Nat, NEW n \in Nat
    PROVE  Extended(s, t, n) \in SubRows
<1>1. CASE s = NoSub
  BY <1>1 DEF Extended, SubRows
<1>2. CASE s # NoSub
  <2>1. s \in SubRows
    BY <1>2
  <2>2. Later(s.expires, t) + n \in Nat
    BY <2>1 DEF Later, SubRows
  <2>3. Extended(s, t, n) = [s EXCEPT !.expires = Later(s.expires, t) + n]
    BY <1>2 DEF Extended
  <2> QED BY <2>1, <2>2, <2>3 DEF SubRows
<1> QED BY <1>1, <1>2

\* What the activation batch does, and what the settlement knows by then.
LEMMA ActivatedFacts ==
    ASSUME CommerceInv, NEW d \in Deliveries, delivery[d].pc = "activate", Activated(d),
           NEW o, o = delivery[d].order
    PROVE  /\ o \in OrderIds /\ Placed(o) /\ provisions[o] # "none" /\ o \in granted
           /\ orders[o].owner \in Owners /\ orders[o].offer \in Offers
           /\ delivery[d].time \in 0..now
           /\ orders' = [orders EXCEPT ![o].provisioning = "active"]
           /\ provisions' = [provisions EXCEPT ![o] = "active"]
           /\ provisions[o] = "active" => subs' = subs
           /\ provisions[o] # "active" =>
                 subs' = [subs EXCEPT ![orders[o].owner] =
                     Extended(subs[orders[o].owner], delivery[d].time, Term[orders[o].offer])]
           /\ subs' \in [Owners -> SubRows \cup {NoSub}]
<1>1. o \in OrderIds /\ delivery[d].time \in Nat
  BY WorkFacts DEF CommerceInv
<1>2. Placed(o) /\ provisions[o] # "none" /\ o \in granted /\ delivery[d].time \in 0..now
  BY DEF CommerceInv, WorkMatches, Knows
<1>3. orders[o].owner \in Owners /\ orders[o].offer \in Offers
  BY <1>1, <1>2, RowFacts DEF CommerceInv
<1>4. provisions[o] \in ProvisionStates
  BY <1>1 DEF CommerceInv, TypeOK
<1>5. /\ orders' = [orders EXCEPT ![o].provisioning = "active"]
      /\ provisions' = [provisions EXCEPT ![o] = "active"]
      /\ provisions[o] = "active" => subs' = subs
      /\ provisions[o] # "active" =>
            subs' = [subs EXCEPT ![orders[o].owner] =
                Extended(subs[orders[o].owner], delivery[d].time, Term[orders[o].offer])]
  BY <1>2, <1>4 DEF Activated, ProvisionStates
<1>6. subs' \in [Owners -> SubRows \cup {NoSub}]
  <2>1. Term[orders[o].offer] \in Nat
    BY <1>3, CommerceAssumption
  <2>2. subs[orders[o].owner] \in SubRows \cup {NoSub}
    BY <1>3 DEF CommerceInv, TypeOK
  <2>3. Extended(subs[orders[o].owner], delivery[d].time, Term[orders[o].offer]) \in SubRows
    BY <1>1, <2>1, <2>2, ExtendedTyped
  <2> QED BY <1>3, <1>5, <2>3 DEF CommerceInv, TypeOK
<1> QED BY <1>1, <1>2, <1>3, <1>5, <1>6

\* The activation, whether its answer arrives or not.
LEMMA ActivationKeepsInv ==
    ASSUME CommerceInv, NEW d \in Deliveries, Activate(d) \/ ActivateErrs(d)
    PROVE  CommerceInv'
<1> DEFINE v == delivery[d]
           o == v.order
<1>1. /\ v \in ActivateStates /\ v.pc = "activate"
      /\ o \in OrderIds /\ Placed(o) /\ v.amount = Amount[orders[o].offer]
      /\ provisions[o] # "none"
  BY WorkFacts DEF Activate, ActivateErrs, CommerceInv, WorkMatches, Knows
<1>2. UNCHANGED <<events, live, client, granted, now>>
  BY DEF Activate, ActivateErrs
<1>3. /\ delivery' = [delivery EXCEPT ![d] = delivery'[d]]
      /\ delivery'[d] = [pc |-> "idle"] \/ delivery'[d] = [v EXCEPT !.pc = "fail"]
  BY DEF Activate, ActivateErrs, CommerceInv, TypeOK
<1>4. /\ delivery'[d] \in DeliveryStates
      /\ delivery'[d].pc \in {"idle", "fail"}
      /\ delivery'[d].pc = "fail" => /\ delivery'[d].order = o
                                     /\ delivery'[d].amount = Amount[orders[o].offer]
  <2>1. CASE delivery'[d] = [pc |-> "idle"]
    BY <2>1 DEF DeliveryStates
  <2>2. CASE delivery'[d] = [v EXCEPT !.pc = "fail"]
    BY <1>1, <2>2 DEF DeliveryStates, ActivateStates, FailStates
  <2> QED BY <1>3, <2>1, <2>2
<1>5. CASE Activated(d)
  <2> DEFINE st == "active"
  <2>1. /\ orders' = [orders EXCEPT ![o].provisioning = st]
        /\ provisions' = [provisions EXCEPT ![o] = st]
        /\ subs' \in [Owners -> SubRows \cup {NoSub}]
        /\ o \in granted
    BY <1>1, <1>5, ActivatedFacts
  <2> QED BY <1>1, <1>2, <1>3, <1>4, <2>1, MoveKeepsInv
<1>6. CASE ~Activated(d)
  <2>1. UNCHANGED <<store, live, client, granted, now>>
    BY <1>2, <1>6 DEF Activate, ActivateErrs, store
  <2>2. Knows(delivery[d])'
    BY <1>1, <1>4, <2>1 DEF Knows, Placed, store
  <2> QED BY <1>3, <1>4, <2>1, <2>2, DeliveryOnly DEF CommerceInv, TypeOK
<1> QED BY <1>5, <1>6

\* The failure batch: nothing when the order is active, else both rows fail.
LEMMA FailFacts ==
    ASSUME CommerceInv, NEW d \in Deliveries, Fail(d), NEW o, o = delivery[d].order
    PROVE  /\ o \in OrderIds /\ Placed(o) /\ provisions[o] # "none"
           /\ provisions[o] = "active" => UNCHANGED <<orders, provisions>>
           /\ provisions[o] # "active" =>
                 /\ orders' = [orders EXCEPT ![o].provisioning = "failed"]
                 /\ provisions' = [provisions EXCEPT ![o] = "failed"]
<1>1. o \in OrderIds
  BY WorkFacts DEF Fail, CommerceInv
<1>2. Placed(o) /\ provisions[o] # "none"
  BY DEF Fail, CommerceInv, WorkMatches, Knows
<1>3. orders[o].provisioning = "active" <=> provisions[o] = "active"
  BY <1>1, <1>2 DEF CommerceInv, ProvisioningAgrees
<1>4. /\ orders' = [orders EXCEPT ![o].provisioning =
                        IF orders[o].provisioning = "active"
                        THEN orders[o].provisioning ELSE "failed"]
      /\ provisions' = [provisions EXCEPT ![o] =
                            IF provisions[o] = "active" THEN provisions[o] ELSE "failed"]
  BY DEF Fail
<1>5. CASE provisions[o] = "active"
  <2>1. orders[o] \in OrderRows
    BY <1>1, <1>2, RowFacts DEF CommerceInv
  <2>2. [orders[o] EXCEPT !.provisioning = orders[o].provisioning] = orders[o]
    BY <2>1 DEF OrderRows
  <2>3. orders' = [orders EXCEPT ![o] = orders[o]]
    BY <1>3, <1>4, <1>5, <2>2
  <2> QED BY <1>1, <1>2, <1>4, <1>5, <2>3 DEF CommerceInv, TypeOK
<1>6. CASE provisions[o] # "active"
  BY <1>1, <1>2, <1>3, <1>4, <1>6
<1> QED BY <1>5, <1>6

\* An activation that fails changes the order and its provisioning.
LEMMA FailKeepsInv ==
    ASSUME CommerceInv, NEW d \in Deliveries, Fail(d)
    PROVE  CommerceInv'
<1> DEFINE o == delivery[d].order
           st == "failed"
<1>1. /\ UNCHANGED <<events, subs, live, client, granted, now>>
      /\ delivery' = [delivery EXCEPT ![d] = [pc |-> "idle"]]
  BY DEF Fail
<1>2. delivery'[d] = [pc |-> "idle"] /\ delivery'[d] \in DeliveryStates
  BY <1>1 DEF CommerceInv, TypeOK, DeliveryStates
<1>3. CASE provisions[o] = "active"
  BY <1>1, <1>3, FailFacts, EndKeepsInv DEF store
<1>4. CASE provisions[o] # "active"
  <2>1. /\ o \in OrderIds /\ Placed(o) /\ provisions[o] # "none"
        /\ orders' = [orders EXCEPT ![o].provisioning = st]
        /\ provisions' = [provisions EXCEPT ![o] = st]
    BY <1>4, FailFacts
  <2>2. subs' \in [Owners -> SubRows \cup {NoSub}]
    BY <1>1 DEF CommerceInv, TypeOK
  <2>3. /\ delivery' = [delivery EXCEPT ![d] = delivery'[d]]
        /\ delivery'[d].pc = "idle"
    <3>1. [pc |-> "idle"].pc = "idle"
      OBVIOUS
    <3>2. delivery'[d].pc = "idle"
      BY <1>2, <3>1
    <3>3. delivery' = [delivery EXCEPT ![d] = delivery'[d]]
      BY <1>1, <1>2, Zenon
    <3> QED BY <3>2, <3>3
  <2>4. st = "failed" => provisions[o] # "active"
    BY <1>4
  <2>5. st \in {"active", "failed"} /\ (st = "active" => o \in granted)
    OBVIOUS
  <2> HIDE DEF st
  <2>6. UNCHANGED <<events, live, client, granted, now>>
    BY <1>1
  <2> QED BY <1>2, <2>1, <2>2, <2>3, <2>4, <2>5, <2>6, MoveKeepsInv
<1> QED BY <1>3, <1>4

-----------------------------------------------------------------------------
(* The invariant, and what it gives.                                       *)

\* Empty tables agree.
LEMMA CommerceInitially == Init => CommerceInv
<1> SUFFICES ASSUME Init PROVE CommerceInv
  OBVIOUS
<1>1. TypeOK
  BY CommerceAssumption DEF Init, TypeOK, ClientStates, DeliveryStates, ProvisionStates
<1>2. EventsMatch /\ PaidByEvent /\ PaidBeforeActive /\ ProvisioningAgrees
  BY DEF Init, EventsMatch, PaidByEvent, PaidBeforeActive, ProvisioningAgrees, Placed
<1>3. WorkMatches
  BY DEF Init, WorkMatches, Knows
<1> QED BY <1>1, <1>2, <1>3 DEF CommerceInv

\* Every step of a browser, a notification or the clock keeps the invariant.
LEMMA CommerceInvKept == CommerceInv /\ [Next]_vars => CommerceInv'
<1> SUFFICES ASSUME CommerceInv, [Next]_vars PROVE CommerceInv'
  OBVIOUS
<1>1. ASSUME NEW c \in Clients, ClientStep(c) PROVE CommerceInv'
  BY <1>1, ClientKeepsInv
<1>2. ASSUME NEW d \in Deliveries, Notify(d) \/ Settle(d) \/ Misfortune(d)
      PROVE  CommerceInv'
  <2>1. CASE Notify(d)
    BY <2>1, DeliverKeepsInv DEF Notify
  <2>2. CASE Record(d)
    BY <2>2, RecordKeepsInv
  <2>3. CASE Check(d)
    BY <2>3, CheckKeepsInv
  <2>4. CASE Confirmed(d) \/ Unconfirmed(d)
    BY <2>4, ProvisionKeepsInv
  <2>5. CASE Activate(d) \/ ActivateErrs(d)
    BY <2>5, ActivationKeepsInv
  <2>6. CASE Fail(d)
    BY <2>6, FailKeepsInv
  <2>7. CASE Crash(d)
    BY <2>7, EndKeepsInv DEF Crash
  <2> QED BY <1>2, <2>1, <2>2, <2>3, <2>4, <2>5, <2>6, <2>7 DEF Settle, Misfortune
<1>3. CASE Tick
  <2>1. now' \in Nat /\ now =< now'
    BY <1>3 DEF Tick, CommerceInv, TypeOK
  <2>2. UNCHANGED <<store, live, client, delivery, granted>>
    BY <1>3 DEF Tick
  <2>3. TypeOK'
    BY <2>1, <2>2 DEF CommerceInv, TypeOK, store
  <2>4. Grows
    BY <2>1, <2>2 DEF Grows, Kept, Placed, store
  <2>5. WorkMatches'
    <3> SUFFICES ASSUME NEW e \in Deliveries PROVE Knows(delivery[e])'
      BY DEF WorkMatches
    <3> QED BY <2>2, <2>4, KnowsKept
  <2>6. EventsMatch' /\ PaidByEvent' /\ PaidBeforeActive' /\ ProvisioningAgrees'
    BY <2>2 DEF CommerceInv, EventsMatch, PaidByEvent, PaidBeforeActive,
                ProvisioningAgrees, Placed, store
  <2> QED BY <2>3, <2>5, <2>6 DEF CommerceInv
<1>4. CASE UNCHANGED vars
  <2>1. client' \in [Clients -> ClientStates] /\ live' \in SUBSET Clients
    BY <1>4 DEF vars, CommerceInv, TypeOK
  <2> QED BY <1>4, <2>1, ClientOnly DEF vars, store
<1> QED BY <1>1, <1>2, <1>3, <1>4 DEF Next

\* The invariant always holds.
LEMMA CommerceInvariant == Spec => []CommerceInv
<1> QED BY CommerceInitially, CommerceInvKept, PTL DEF Spec

(* Every table, request and notification keeps its shape (commerce-schema.sql). *)
THEOREM CommerceTyped == Spec => []TypeOK
<1>1. CommerceInv => TypeOK
  BY DEF CommerceInv
<1> QED BY <1>1, CommerceInvariant, PTL

(* No order becomes active, or is marked paid, without a stored event of    *)
(* its own over its own amount; none is active that the provisioner did not *)
(* confirm (settleSandboxPayment, commerce.js:99-118).                      *)
THEOREM ActiveOrdersArePaid == Spec => []PaidBeforeActive
<1>1. CommerceInv => PaidBeforeActive
  BY DEF CommerceInv
<1> QED BY <1>1, CommerceInvariant, PTL

(* The order row and the provision row never disagree on what is active     *)
(* (the three batches of settleSandboxPayment, commerce.js:103-131).        *)
THEOREM OrderAndProvisionAgree == Spec => []ProvisioningAgrees
<1>1. CommerceInv => ProvisioningAgrees
  BY DEF CommerceInv
<1> QED BY <1>1, CommerceInvariant, PTL

-----------------------------------------------------------------------------
(* Steps.                                                                  *)

\* The step of the two action properties, by what it does to the store.
FinalStep ==
    /\ Kept
    /\ \A o \in OrderIds : provisions[o] = "active" => provisions'[o] = "active"

TermStep ==
    /\ \A o \in OrderIds : Activation(o) =>
          \E t \in 0..now : subs'[orders[o].owner] =
              Extended(subs[orders[o].owner], t, Term[orders[o].offer])
    /\ \A w \in Owners : subs'[w] # subs[w] =>
          \E o \in OrderIds : orders[o].owner = w /\ Activation(o)
    /\ \A o \in OrderIds : Activation(o) =>
          Placed(o) /\ \A p \in OrderIds : Activation(p) => p = o

\* A step that activates nothing extends nothing.
LEMMA QuietStep ==
    ASSUME CommerceInv, Kept, UNCHANGED subs,
           \A o \in OrderIds : provisions'[o] = "active" <=> provisions[o] = "active"
    PROVE  FinalStep /\ TermStep
BY DEF FinalStep, TermStep, Activation

\* Placing an order keeps the others.
LEMMA InsertKept ==
    ASSUME CommerceInv, NEW c \in Clients, InsertOrder(c)
    PROVE  Kept /\ UNCHANGED <<subs, provisions>>
<1>1. UNCHANGED <<subs, provisions>>
  BY DEF InsertOrder
<1>2. CASE UNCHANGED orders
  BY <1>1, <1>2 DEF Kept, Placed
<1>3. CASE ~UNCHANGED orders
  <2>1. PICK o \in OrderIds :
           /\ ~Placed(o)
           /\ orders' = [orders EXCEPT ![o] =
                  [owner |-> Owner[c], key |-> client[c].key, offer |-> client[c].offer,
                   payment |-> "pending", provisioning |-> "not_provisioned"]]
    BY <1>3 DEF InsertOrder
  <2>2. \A p \in OrderIds : Placed(p) => orders'[p] = orders[p]
    BY <2>1 DEF CommerceInv, TypeOK
  <2> QED BY <1>1, <2>2 DEF Kept, Placed
<1> QED BY <1>2, <1>3

\* The activation batch adds exactly the term of the order it activates.
LEMMA ActivationStep ==
    ASSUME CommerceInv, NEW d \in Deliveries, delivery[d].pc = "activate", Activated(d)
    PROVE  FinalStep /\ TermStep
<1> DEFINE o == delivery[d].order
           w == orders[o].owner
<1>1. /\ o \in OrderIds /\ Placed(o) /\ w \in Owners
      /\ delivery[d].time \in 0..now
      /\ orders' = [orders EXCEPT ![o].provisioning = "active"]
      /\ provisions' = [provisions EXCEPT ![o] = "active"]
      /\ provisions[o] = "active" => subs' = subs
      /\ provisions[o] # "active" =>
            subs' = [subs EXCEPT ![w] =
                Extended(subs[w], delivery[d].time, Term[orders[o].offer])]
  BY ActivatedFacts
<1>2. orders[o] \in OrderRows /\ NoOrder \notin OrderRows
  BY <1>1, RowFacts DEF CommerceInv
<1>3. /\ orders'[o] = [orders[o] EXCEPT !.provisioning = "active"]
      /\ \A p \in OrderIds : p # o => orders'[p] = orders[p] /\ provisions'[p] = provisions[p]
      /\ provisions'[o] = "active"
  BY <1>1 DEF CommerceInv, TypeOK
<1>4. /\ orders'[o] \in OrderRows
      /\ orders'[o].owner = orders[o].owner /\ orders'[o].offer = orders[o].offer
      /\ orders'[o].payment = orders[o].payment
  BY <1>2, <1>3 DEF OrderRows
<1>5. FinalStep
  BY <1>2, <1>3, <1>4 DEF FinalStep, Kept, Placed
<1>6. CASE provisions[o] = "active"
  BY <1>1, <1>3, <1>5, <1>6 DEF TermStep, Activation
<1>7. CASE provisions[o] # "active"
  <2>1. \A p \in OrderIds : Activation(p) <=> p = o
    BY <1>1, <1>3, <1>7 DEF Activation
  <2>2. /\ subs'[w] = Extended(subs[w], delivery[d].time, Term[orders[o].offer])
        /\ \A x \in Owners : x # w => subs'[x] = subs[x]
    BY <1>1, <1>7 DEF CommerceInv, TypeOK
  <2>3. TermStep
    BY <1>1, <2>1, <2>2 DEF TermStep
  <2> QED BY <1>5, <2>3
<1> QED BY <1>6, <1>7

\* Every step leaves final orders final and lengthens a term for an activation only.
LEMMA EveryStep == CommerceInv /\ [Next]_vars => FinalStep /\ TermStep
<1> SUFFICES ASSUME CommerceInv, [Next]_vars PROVE FinalStep /\ TermStep
  OBVIOUS
<1>1. CASE UNCHANGED store
  <2>1. Kept /\ UNCHANGED <<subs, provisions>>
    BY <1>1 DEF store, Kept, Placed
  <2> QED BY <2>1, QuietStep
<1>2. ASSUME NEW c \in Clients, ClientStep(c) PROVE FinalStep /\ TermStep
  <2>1. CASE InsertOrder(c)
    BY <2>1, InsertKept, QuietStep
  <2>2. CASE ~InsertOrder(c)
    BY <1>1, <1>2, <2>2 DEF ClientStep, RequestOrder, SelectOrder, ConfirmOrder, Abandon,
                            EndSession, SignIn
  <2> QED BY <2>1, <2>2
<1>3. ASSUME NEW d \in Deliveries, Notify(d) \/ Settle(d) \/ Misfortune(d)
      PROVE  FinalStep /\ TermStep
  <2>1. CASE Record(d)
    <3>1. Kept
      BY <2>1, RecordKeepsInv
    <3>2. delivery[d].order \in OrderIds
      BY <2>1, WorkFacts DEF Record, CommerceInv
    <3>3. \A o \in OrderIds : provisions'[o] = "active" <=> provisions[o] = "active"
      BY <2>1, <3>2 DEF Record, CommerceInv, TypeOK
    <3> QED BY <2>1, <3>1, <3>3, QuietStep DEF Record
  <2>2. CASE (Activate(d) \/ ActivateErrs(d)) /\ Activated(d)
    BY <2>2, ActivationStep DEF Activate, ActivateErrs
  <2>3. CASE Fail(d)
    <3> DEFINE o == delivery[d].order
    <3>1. CASE provisions[o] = "active"
      <4>1. UNCHANGED store
        BY <2>3, <3>1, FailFacts DEF Fail, store
      <4> QED BY <1>1, <4>1
    <3>2. CASE provisions[o] # "active"
      <4>1. /\ o \in OrderIds /\ Placed(o)
            /\ orders' = [orders EXCEPT ![o].provisioning = "failed"]
            /\ provisions' = [provisions EXCEPT ![o] = "failed"]
        BY <2>3, <3>2, FailFacts
      <4>2. orders[o] \in OrderRows /\ NoOrder \notin OrderRows
        BY <4>1, RowFacts DEF CommerceInv
      <4>3. /\ orders'[o] = [orders[o] EXCEPT !.provisioning = "failed"]
            /\ \A p \in OrderIds : p # o => orders'[p] = orders[p]
        BY <4>1 DEF CommerceInv, TypeOK
      <4>4. /\ orders'[o] \in OrderRows
            /\ orders'[o].owner = orders[o].owner /\ orders'[o].offer = orders[o].offer
            /\ orders'[o].payment = orders[o].payment
        BY <4>2, <4>3 DEF OrderRows
      <4>5. Kept
        BY <4>2, <4>3, <4>4 DEF Kept, Placed
      <4>6. \A p \in OrderIds : provisions'[p] = "active" <=> provisions[p] = "active"
        BY <3>2, <4>1 DEF CommerceInv, TypeOK
      <4> QED BY <2>3, <4>5, <4>6, QuietStep DEF Fail
    <3> QED BY <3>1, <3>2
  <2>4. CASE \/ Notify(d) \/ Check(d) \/ Confirmed(d) \/ Unconfirmed(d) \/ Crash(d)
             \/ (ActivateErrs(d) /\ ~Activated(d))
    <3>1. UNCHANGED store
      BY <2>4 DEF Notify, Deliver, Check, Confirmed, Unconfirmed, Crash, ActivateErrs, store
    <3> QED BY <1>1, <3>1
  <2>5. CASE Activate(d)
    BY <2>2, <2>5 DEF Activate
  <2> QED BY <1>3, <2>1, <2>2, <2>3, <2>4, <2>5 DEF Settle, Misfortune
<1>4. CASE Tick
  BY <1>1, <1>4 DEF Tick
<1>5. CASE UNCHANGED vars
  BY <1>1, <1>5 DEF vars, store
<1> QED BY <1>2, <1>3, <1>4, <1>5 DEF Next

(* An active order stays active and its row stays its owner's: no failure,  *)
(* repeat or lost answer takes it back (commerce.js:126-131).               *)
THEOREM ActiveOrdersStayActive == Spec => ActiveIsFinal
<1>1. FinalStep =>
        \A o \in OrderIds :
          /\ provisions[o] = "active" => provisions'[o] = "active"
          /\ Placed(o) => /\ orders'[o].owner = orders[o].owner
                          /\ orders'[o].offer = orders[o].offer
                          /\ orders[o].payment = "verified_paid"
                                => orders'[o].payment = "verified_paid"
  BY DEF FinalStep, Kept
<1>2. CommerceInv /\ [Next]_vars =>
        [\A o \in OrderIds :
          /\ provisions[o] = "active" => provisions'[o] = "active"
          /\ Placed(o) => /\ orders'[o].owner = orders[o].owner
                          /\ orders'[o].offer = orders[o].offer
                          /\ orders[o].payment = "verified_paid"
                                => orders'[o].payment = "verified_paid"]_vars
  BY <1>1, EveryStep
<1> QED BY <1>2, CommerceInvariant, PTL DEF Spec, ActiveIsFinal

(* An order is activated in the very step that adds its term to its owner's *)
(* subscription, and a subscription changes in no other step: with the      *)
(* theorem above, each order extends it exactly once (commerce.js:118-125). *)
THEOREM OneTermPerOrder == Spec => OneTermPerActivation
<1>1. CommerceInv /\ [Next]_vars =>
        [/\ \A o \in OrderIds : Activation(o) =>
              \E t \in 0..now : subs'[orders[o].owner] =
                  Extended(subs[orders[o].owner], t, Term[orders[o].offer])
         /\ \A w \in Owners : subs'[w] # subs[w] =>
              \E o \in OrderIds : orders[o].owner = w /\ Activation(o)]_vars
  BY EveryStep DEF TermStep
<1> QED BY <1>1, CommerceInvariant, PTL DEF Spec, OneTermPerActivation

(* Both at once: activations are final, each with the one term it pays for  *)
(* (commerce.js:118-131).                                                   *)
THEOREM FinalActivations == Spec => ActivationsAreFinal
BY ActiveOrdersStayActive, OneTermPerOrder, PTL DEF ActivationsAreFinal

-----------------------------------------------------------------------------
(* Induction over finite sets, a set of sets standing for what is shown of  *)
(* them.                                                                    *)

\* A set of numbers that is not empty has a least one.
LEMMA NatLeast ==
    ASSUME NEW T \in SUBSET Nat, T # {}
    PROVE  \E n \in T : \A m \in T : n <= m
<1>1. PICK n \in T : \A m \in T : ~(<<m, n>> \in OpToRel(<, Nat))
  BY NatLessThanWellFounded, WFMin
<1>2. \A m \in T : ~(m < n)
  BY <1>1 DEF OpToRel
<1> QED BY <1>2

\* A set of numbers with 0 that is closed under successors has them all.
LEMMA NatFrom ==
    ASSUME NEW P, 0 \in P, \A n \in Nat : n \in P => n + 1 \in P
    PROVE  \A n \in Nat : n \in P
<1> DEFINE T == {n \in Nat : n \notin P}
<1> SUFFICES ASSUME T # {} PROVE FALSE
  OBVIOUS
<1>1. PICK n \in T : \A m \in T : n <= m
  <2> HIDE DEF T
  <2>1. T \in SUBSET Nat
    BY DEF T
  <2> QED BY <2>1, NatLeast
<1>2. n # 0 /\ n - 1 \in Nat
  OBVIOUS
<1>3. n - 1 \in P
  BY <1>1, <1>2
<1>4. (n - 1) + 1 \in P
  BY <1>2, <1>3
<1> QED BY <1>4

\* What is left of a finite set without one of its members is smaller.
LEMMA Without ==
    ASSUME NEW S, IsFiniteSet(S), NEW s \in SUBSET S, NEW x \in s
    PROVE  /\ s \ {x} \in SUBSET S
           /\ Cardinality(s) \in Nat /\ Cardinality(s \ {x}) \in Nat
           /\ Cardinality(s \ {x}) = Cardinality(s) - 1
<1>1. IsFiniteSet(s)
  BY FS_Subset
<1> QED BY <1>1, FS_RemoveElement, FS_CardinalityType

\* What holds of the empty set, and of a set when it holds of the set without
\* any one of its members, holds of every part of a finite set.
LEMMA PartsFrom ==
    ASSUME NEW S, IsFiniteSet(S), NEW P, {} \in P,
           \A s \in SUBSET S : s # {} /\ (\A x \in s : s \ {x} \in P) => s \in P
    PROVE  \A s \in SUBSET S : s \in P
<1> DEFINE Q == {n \in Nat : \A s \in SUBSET S : Cardinality(s) = n => s \in P}
<1>1. 0 \in Q
  <2>1. \A s \in SUBSET S : Cardinality(s) = 0 => s = {}
    BY FS_Subset, FS_EmptySet
  <2> QED BY <2>1
<1>2. ASSUME NEW n \in Nat, n \in Q PROVE n + 1 \in Q
  <2>1. ASSUME NEW s \in SUBSET S, Cardinality(s) = n + 1 PROVE s \in P
    <3>1. s # {}
      BY <2>1, FS_EmptySet
    <3>2. ASSUME NEW x \in s PROVE s \ {x} \in P
      <4>1. s \ {x} \in SUBSET S /\ Cardinality(s \ {x}) = n
        BY <2>1, Without
      <4> QED BY <4>1, <1>2
    <3> QED BY <3>1, <3>2
  <2> QED BY <2>1
<1>3. \A n \in Nat : n \in Q
  <2> HIDE DEF Q
  <2> QED BY <1>1, <1>2, NatFrom
<1>4. ASSUME NEW s \in SUBSET S PROVE s \in P
  <2>1. Cardinality(s) \in Nat
    BY FS_Subset, FS_CardinalityType
  <2> QED BY <2>1, <1>3
<1> QED BY <1>4

-----------------------------------------------------------------------------
(* Sums.                                                                   *)

\* The members of S are counted in numbers.
Counts(count, S) == \A x \in S : count[x] \in Nat

\* One step of the sum: an element of the set is counted, and the rest summed.
SumOf(count, f, s) ==
    IF s = {} THEN 0 ELSE LET x == CHOOSE x \in s : TRUE IN count[x] + f[s \ {x}]

\* A function that sums the parts of S.
Summing(count, S, f) == f = [s \in SUBSET S |-> SumOf(count, f, s)]
Sums(count, S) == CHOOSE f : Summing(count, S, f)

\* SumFunctionOnSet is what such a function gives for the whole set.
LEMMA SumIsSums ==
    ASSUME NEW count, NEW S
    PROVE  SumFunctionOnSet(count, S) = Sums(count, S)[S]
BY Zenon DEF SumFunctionOnSet, FoldFunctionOnSet, MapThenFoldSet, Sums, Summing, SumOf

\* The parts of S with at most n members.
Level(S, n) == {s \in SUBSET S : Cardinality(s) <= n}

\* The parts of S are summed up to size n.
SummingTo(count, S, n, f) ==
    /\ f \in [SUBSET S -> Nat]
    /\ \A s \in Level(S, n) : f[s] = SumOf(count, f, s)

\* Two functions agree on a part without any one of its members.
Agree(s, f, g) == \A x \in s : f[s \ {x}] = g[s \ {x}]

\* A step reads the function at smaller sets only.
LEMMA SumLocal ==
    ASSUME NEW count, NEW f, NEW g, NEW s, Agree(s, f, g)
    PROVE  SumOf(count, f, s) = SumOf(count, g, s)
<1>1. CASE s = {}
  BY <1>1 DEF SumOf
<1>2. CASE s # {}
  <2> DEFINE x == CHOOSE x \in s : TRUE
  <2>1. x \in s
    BY <1>2
  <2>2. f[s \ {x}] = g[s \ {x}]
    BY <2>1 DEF Agree
  <2> QED BY <1>2, <2>2 DEF SumOf
<1> QED BY <1>1, <1>2

\* A step gives a number.
LEMMA SumTyped ==
    ASSUME NEW S, NEW count, Counts(count, S), NEW f \in [SUBSET S -> Nat], NEW s \in SUBSET S
    PROVE  SumOf(count, f, s) \in Nat
<1>1. CASE s = {}
  BY <1>1 DEF SumOf
<1>2. CASE s # {}
  <2> DEFINE x == CHOOSE x \in s : TRUE
  <2>1. x \in s
    BY <1>2
  <2>2. count[x] \in Nat /\ f[s \ {x}] \in Nat
    <3> HIDE DEF x
    <3> QED BY <2>1 DEF Counts
  <2> QED BY <1>2, <2>2 DEF SumOf
<1> QED BY <1>1, <1>2

\* A finite set is summed by some function.
LEMMA SummingExists ==
    ASSUME NEW S, IsFiniteSet(S), NEW count, Counts(count, S)
    PROVE  \E f : Summing(count, S, f) /\ f \in [SUBSET S -> Nat]
<1> DEFINE Q == {n \in Nat : \E f : SummingTo(count, S, n, f)}
<1>1. 0 \in Q
  <2> DEFINE f == [s \in SUBSET S |-> 0]
  <2>1. ASSUME NEW s \in Level(S, 0) PROVE s \in SUBSET S /\ s = {}
    <3>1. s \in SUBSET S /\ Cardinality(s) <= 0
      BY DEF Level
    <3>2. IsFiniteSet(s) /\ Cardinality(s) \in Nat
      BY <3>1, FS_Subset, FS_CardinalityType
    <3> QED BY <3>1, <3>2, FS_EmptySet
  <2>2. SummingTo(count, S, 0, f)
    BY <2>1 DEF SummingTo, SumOf
  <2> QED BY <2>2
<1>2. ASSUME NEW n \in Nat, n \in Q PROVE n + 1 \in Q
  <2>1. PICK f : SummingTo(count, S, n, f)
    BY <1>2
  <2>2. f \in [SUBSET S -> Nat] /\ \A s \in Level(S, n) : f[s] = SumOf(count, f, s)
    BY <2>1 DEF SummingTo
  <2> DEFINE g == [s \in SUBSET S |-> IF s \in Level(S, n + 1) THEN SumOf(count, f, s) ELSE 0]
  <2>3. \A s \in Level(S, n + 1) : s \in SUBSET S /\ SumOf(count, f, s) \in Nat
    BY <2>2, SumTyped DEF Level
  <2>4. g \in [SUBSET S -> Nat]
    BY <2>3
  <2>5. \A s \in Level(S, n) : s \in Level(S, n + 1) /\ s \in SUBSET S
    <3> SUFFICES ASSUME NEW s \in Level(S, n) PROVE s \in Level(S, n + 1) /\ s \in SUBSET S
      OBVIOUS
    <3>1. s \in SUBSET S /\ Cardinality(s) <= n
      BY DEF Level
    <3>2. Cardinality(s) \in Nat
      BY <3>1, FS_Subset, FS_CardinalityType
    <3> QED BY <3>1, <3>2 DEF Level
  <2>6. \A s \in Level(S, n) : f[s] = g[s]
    BY <2>2, <2>5
  <2>7. \A s \in Level(S, n + 1) : g[s] = SumOf(count, g, s)
    <3> SUFFICES ASSUME NEW s \in Level(S, n + 1) PROVE g[s] = SumOf(count, g, s)
      OBVIOUS
    <3>1. g[s] = SumOf(count, f, s)
      BY <2>3
    <3>2. \A x \in s : s \ {x} \in Level(S, n)
      <4> SUFFICES ASSUME NEW x \in s PROVE s \ {x} \in Level(S, n)
        OBVIOUS
      <4>1. s \in SUBSET S /\ Cardinality(s) <= n + 1
        BY DEF Level
      <4> QED BY <4>1, Without DEF Level
    <3>3. Agree(s, f, g)
      <4> HIDE DEF g
      <4> QED BY <2>6, <3>2 DEF Agree
    <3>4. SumOf(count, f, s) = SumOf(count, g, s)
      <4> HIDE DEF g
      <4> QED BY <3>3, SumLocal, Zenon
    <3> QED BY <3>1, <3>4
  <2>8. SummingTo(count, S, n + 1, g)
    <3> HIDE DEF g
    <3> QED BY <2>4, <2>7 DEF SummingTo
  <2> QED BY <2>8
<1>3. Cardinality(S) \in Q
  <2>1. Cardinality(S) \in Nat
    BY FS_CardinalityType
  <2>2. \A n \in Nat : n \in Q
    <3> HIDE DEF Q
    <3> QED BY <1>1, <1>2, NatFrom
  <2> QED BY <2>1, <2>2
<1>4. PICK f : SummingTo(count, S, Cardinality(S), f)
  BY <1>3
<1>5. f \in [SUBSET S -> Nat] /\ \A s \in Level(S, Cardinality(S)) : f[s] = SumOf(count, f, s)
  BY <1>4 DEF SummingTo
<1>6. \A s \in SUBSET S : s \in Level(S, Cardinality(S))
  BY FS_Subset DEF Level
<1>7. Summing(count, S, f)
  BY <1>5, <1>6 DEF Summing
<1> QED BY <1>5, <1>7

\* The sums of a finite set, part by part.
LEMMA SumsUnfold ==
    ASSUME NEW S, IsFiniteSet(S), NEW count, Counts(count, S)
    PROVE  \A s \in SUBSET S : Sums(count, S)[s] = SumOf(count, Sums(count, S), s)
<1>1. Summing(count, S, Sums(count, S))
  BY SummingExists DEF Sums
<1> DEFINE F == Sums(count, S)
<1>2. F = [s \in SUBSET S |-> SumOf(count, F, s)]
  BY <1>1 DEF Summing
<1> HIDE DEF F
<1>3. \A s \in SUBSET S : F[s] = SumOf(count, F, s)
  BY <1>2
<1> QED BY <1>3 DEF F

\* A sum of numbers is a number, and nothing sums to 0.
LEMMA SumsTyped ==
    ASSUME NEW S, IsFiniteSet(S), NEW count, Counts(count, S)
    PROVE  /\ \A s \in SUBSET S : Sums(count, S)[s] \in Nat
           /\ (\A x \in S : count[x] = 0) => \A s \in SUBSET S : Sums(count, S)[s] = 0
<1> DEFINE F == Sums(count, S)
<1>0. \A s \in SUBSET S : F[s] = SumOf(count, F, s)
  BY SumsUnfold
<1> HIDE DEF F
<1>1. F[{}] = 0
  BY <1>0 DEF SumOf
<1>2. ASSUME NEW s \in SUBSET S, s # {}
      PROVE  \E x \in s : x \in S /\ s \ {x} \in SUBSET S /\ F[s] = count[x] + F[s \ {x}]
  <2> DEFINE x == CHOOSE x \in s : TRUE
  <2>1. x \in s
    BY <1>2
  <2>2. F[s] = count[x] + F[s \ {x}]
    BY <1>0, <1>2 DEF SumOf
  <2> QED
    <3> HIDE DEF x
    <3> QED BY <2>1, <2>2
<1>3. \A s \in SUBSET S : F[s] \in Nat
  <2> DEFINE P == {s \in SUBSET S : F[s] \in Nat}
  <2>1. {} \in P
    BY <1>1
  <2>2. ASSUME NEW s \in SUBSET S, s # {}, \A x \in s : s \ {x} \in P PROVE s \in P
    <3>1. PICK x \in s : x \in S /\ s \ {x} \in SUBSET S /\ F[s] = count[x] + F[s \ {x}]
      BY <1>2, <2>2
    <3>2. F[s \ {x}] \in Nat /\ count[x] \in Nat
      BY <2>2, <3>1 DEF Counts
    <3> QED BY <3>1, <3>2
  <2>3. \A s \in SUBSET S : s \in P
    <3> HIDE DEF P
    <3> QED BY <2>1, <2>2, PartsFrom
  <2> QED BY <2>3
<1>4. ASSUME \A x \in S : count[x] = 0 PROVE \A s \in SUBSET S : F[s] = 0
  <2> DEFINE P == {s \in SUBSET S : F[s] = 0}
  <2>1. {} \in P
    BY <1>1
  <2>2. ASSUME NEW s \in SUBSET S, s # {}, \A x \in s : s \ {x} \in P PROVE s \in P
    <3>1. PICK x \in s : x \in S /\ s \ {x} \in SUBSET S /\ F[s] = count[x] + F[s \ {x}]
      BY <1>2, <2>2
    <3>2. F[s \ {x}] = 0 /\ count[x] = 0
      BY <1>4, <2>2, <3>1
    <3> QED BY <3>1, <3>2
  <2>3. \A s \in SUBSET S : s \in P
    <3> HIDE DEF P
    <3> QED BY <2>1, <2>2, PartsFrom
  <2> QED BY <2>3
<1> QED BY <1>3, <1>4 DEF F

\* More counts what count does, and t more at n.
Raised(S, count, more, n, t) ==
    \A x \in S : more[x] = IF x = n THEN count[x] + t ELSE count[x]

\* As much more at n is as much more in the sum of a set with n, and nothing in
\* others.
LEMMA SumsGrow ==
    ASSUME NEW S, IsFiniteSet(S), NEW n, NEW t \in Nat,
           NEW count, Counts(count, S), NEW more, Counts(more, S),
           Raised(S, count, more, n, t)
    PROVE  \A s \in SUBSET S :
              Sums(more, S)[s] = Sums(count, S)[s] + (IF n \in s THEN t ELSE 0)
<1> DEFINE F == Sums(count, S)
           G == Sums(more, S)
<1>0. /\ \A s \in SUBSET S : F[s] = SumOf(count, F, s)
      /\ \A s \in SUBSET S : G[s] = SumOf(more, G, s)
      /\ \A s \in SUBSET S : F[s] \in Nat
  BY SumsUnfold, SumsTyped
<1> HIDE DEF F, G
<1>r. \A x \in S : more[x] = IF x = n THEN count[x] + t ELSE count[x]
  BY DEF Raised
<1>1. F[{}] = 0 /\ G[{}] = 0
  BY <1>0 DEF SumOf
<1>2. ASSUME NEW s \in SUBSET S, s # {}
      PROVE  \E x \in s : /\ x \in S /\ s \ {x} \in SUBSET S
                          /\ F[s] = count[x] + F[s \ {x}] /\ G[s] = more[x] + G[s \ {x}]
  <2> DEFINE x == CHOOSE x \in s : TRUE
  <2>1. x \in s
    BY <1>2
  <2>2. F[s] = count[x] + F[s \ {x}] /\ G[s] = more[x] + G[s \ {x}]
    BY <1>0, <1>2 DEF SumOf
  <2> QED
    <3> HIDE DEF x
    <3> QED BY <2>1, <2>2
<1> DEFINE P == {s \in SUBSET S : G[s] = F[s] + (IF n \in s THEN t ELSE 0)}
<1>3. {} \in P
  BY <1>1
<1>4. ASSUME NEW s \in SUBSET S, s # {}, \A x \in s : s \ {x} \in P PROVE s \in P
  <2>1. PICK x \in s : /\ x \in S /\ s \ {x} \in SUBSET S
                       /\ F[s] = count[x] + F[s \ {x}] /\ G[s] = more[x] + G[s \ {x}]
    BY <1>2, <1>4
  <2>2. G[s \ {x}] = F[s \ {x}] + (IF n \in s \ {x} THEN t ELSE 0)
    BY <1>4, <2>1
  <2>3. F[s \ {x}] \in Nat /\ count[x] \in Nat
    BY <1>0, <2>1 DEF Counts
  <2>4. CASE x = n
    <3>1. n \notin s \ {x} /\ n \in s /\ more[x] = count[x] + t
      BY <1>r, <2>1, <2>4
    <3> QED BY <2>1, <2>2, <2>3, <3>1
  <2>5. CASE x # n
    <3>1. (n \in s \ {x} <=> n \in s) /\ more[x] = count[x]
      BY <1>r, <2>1, <2>5
    <3> QED BY <2>1, <2>2, <2>3, <3>1
  <2> QED BY <2>4, <2>5
<1>5. \A s \in SUBSET S : s \in P
  <2> HIDE DEF P
  <2> QED BY <1>3, <1>4, PartsFrom
<1> QED BY <1>5 DEF F, G

-----------------------------------------------------------------------------
(* What the active orders add up to.                                        *)

\* The sum of what the orders have added, and of what they have added when one
\* more has been activated for a term.
LEMMA PaidSums ==
    ASSUME NEW count \in [OrderIds -> Nat]
    PROVE  /\ SumFunction(count) \in Nat
           /\ (\A o \in OrderIds : count[o] = 0) => SumFunction(count) = 0
           /\ \A o \in OrderIds, t \in Nat, more \in [OrderIds -> Nat] :
                 (\A p \in OrderIds : more[p] = IF p = o THEN count[p] + t ELSE count[p])
                    => SumFunction(more) = SumFunction(count) + t
<1>0. IsFiniteSet(OrderIds)
  BY CommerceAssumption
<1>1. \A f \in [OrderIds -> Nat] :
         Counts(f, OrderIds) /\ SumFunction(f) = Sums(f, OrderIds)[OrderIds]
  <2> SUFFICES ASSUME NEW f \in [OrderIds -> Nat]
               PROVE  Counts(f, OrderIds) /\ SumFunction(f) = Sums(f, OrderIds)[OrderIds]
    OBVIOUS
  <2>1. Counts(f, OrderIds)
    BY DEF Counts
  <2>2. SumFunction(f) = SumFunctionOnSet(f, OrderIds)
    BY DEF SumFunction
  <2> QED BY <2>1, <2>2, SumIsSums
<1>2. OrderIds \in SUBSET OrderIds
  OBVIOUS
<1>3. SumFunction(count) \in Nat
  BY <1>0, <1>1, <1>2, SumsTyped
<1>4. ASSUME \A o \in OrderIds : count[o] = 0 PROVE SumFunction(count) = 0
  <2>1. Sums(count, OrderIds)[OrderIds] = 0
    BY <1>0, <1>1, <1>2, <1>4, SumsTyped
  <2> QED BY <1>1, <2>1
<1>5. ASSUME NEW o \in OrderIds, NEW t \in Nat, NEW more \in [OrderIds -> Nat],
             \A p \in OrderIds : more[p] = IF p = o THEN count[p] + t ELSE count[p]
      PROVE  SumFunction(more) = SumFunction(count) + t
  <2>1. Counts(count, OrderIds) /\ Counts(more, OrderIds)
    BY <1>1
  <2>2. Sums(more, OrderIds)[OrderIds] =
            Sums(count, OrderIds)[OrderIds] + (IF o \in OrderIds THEN t ELSE 0)
    <3>1. Raised(OrderIds, count, more, o, t)
      BY <1>5 DEF Raised
    <3> QED BY <1>0, <1>2, <2>1, <3>1, SumsGrow
  <2> QED BY <1>1, <2>2
<1> QED BY <1>3, <1>4, <1>5

\* The term paid for by an order is a number of days.
LEMMA PaidTyped ==
    ASSUME CommerceInv, NEW w
    PROVE  PaidTerm(w) \in [OrderIds -> Nat]
<1>1. ASSUME NEW o \in OrderIds, Placed(o) PROVE Term[orders[o].offer] \in Nat
  BY <1>1, RowFacts, CommerceAssumption DEF CommerceInv
<1> QED BY <1>1 DEF PaidTerm

\* The subscription of w covers what was paid for, and not a day more.
Covered(sub, paid, time) ==
    IF sub = NoSub THEN paid = 0
    ELSE sub.starts + paid =< sub.expires /\ sub.expires =< time + paid

\* The extension covers one term more.
LEMMA ExtendedCovers ==
    ASSUME NEW sub \in SubRows \cup {NoSub}, NEW paid \in Nat, NEW n \in Nat,
           NEW time \in Nat, NEW t \in 0..time, Covered(sub, paid, time)
    PROVE  Covered(Extended(sub, t, n), paid + n, time)
<1>1. \A r \in SubRows : r # NoSub
  BY DEF SubRows, NoSub
<1>2. CASE sub = NoSub
  BY <1>2 DEF Covered, Extended, NoSub
<1>3. CASE sub # NoSub
  <2>1. sub \in SubRows
    BY <1>3
  <2> DEFINE e == [sub EXCEPT !.expires = Later(sub.expires, t) + n]
  <2>2. Extended(sub, t, n) = e
    BY <1>3 DEF Extended
  <2>3. /\ e.starts = sub.starts /\ e.expires = Later(sub.expires, t) + n
        /\ e \in SubRows
    BY <2>1 DEF SubRows, Later
  <2> HIDE DEF e
  <2>4. e # NoSub /\ sub.starts \in Nat /\ sub.expires \in Nat
    BY <1>1, <2>1, <2>3 DEF SubRows
  <2> QED BY <1>3, <2>2, <2>3, <2>4 DEF Covered, Later
<1> QED BY <1>2, <1>3

\* An order that is not activated in a step has added what it had before.
LEMMA OthersAddNothing ==
    ASSUME CommerceInv, CommerceInv', FinalStep, NEW w, NEW o \in OrderIds, ~Activation(o)
    PROVE  PaidTerm(w)'[o] = PaidTerm(w)[o]
<1>1. provisions'[o] = "active" <=> provisions[o] = "active"
  BY DEF FinalStep, Activation
<1>2. provisions[o] = "active" =>
         /\ Placed(o) /\ Placed(o)'
         /\ orders'[o].owner = orders[o].owner /\ orders'[o].offer = orders[o].offer
  BY DEF CommerceInv, PaidBeforeActive, FinalStep, Kept, Placed
<1>3. /\ PaidTerm(w)'[o] = IF Placed(o)' /\ orders'[o].owner = w /\ provisions'[o] = "active"
                           THEN Term[orders'[o].offer] ELSE 0
      /\ PaidTerm(w)[o] = IF Placed(o) /\ orders[o].owner = w /\ provisions[o] = "active"
                          THEN Term[orders[o].offer] ELSE 0
  BY DEF PaidTerm
<1> QED BY <1>1, <1>2, <1>3

\* One that is has added nothing before, and adds its term to its owner's.
LEMMA ActivatedAddsItsTerm ==
    ASSUME CommerceInv, FinalStep, NEW w, NEW o \in OrderIds, Activation(o), Placed(o)
    PROVE  /\ PaidTerm(w)[o] = 0
           /\ PaidTerm(w)'[o] = IF orders[o].owner = w THEN Term[orders[o].offer] ELSE 0
<1>1. /\ Placed(o)' /\ provisions'[o] = "active" /\ provisions[o] # "active"
      /\ orders'[o].owner = orders[o].owner /\ orders'[o].offer = orders[o].offer
  BY DEF FinalStep, Kept, Placed, Activation
<1>2. /\ PaidTerm(w)'[o] = IF Placed(o)' /\ orders'[o].owner = w /\ provisions'[o] = "active"
                           THEN Term[orders'[o].offer] ELSE 0
      /\ PaidTerm(w)[o] = IF Placed(o) /\ orders[o].owner = w /\ provisions[o] = "active"
                          THEN Term[orders[o].offer] ELSE 0
  BY DEF PaidTerm
<1> QED BY <1>1, <1>2

\* The clock is never put back.
LEMMA TimePasses == ASSUME TypeOK, [Next]_vars PROVE now' \in Nat /\ now <= now'
<1>1. now \in Nat
  BY DEF TypeOK
<1>2. now' = now \/ now' = now + 1
  BY DEF Next, vars, ClientStep, RequestOrder, InsertOrder, SelectOrder, ConfirmOrder, Abandon,
         EndSession, SignIn, Notify, Deliver, Settle, Record, Check, Confirmed, Activate, Fail,
         Misfortune, Unconfirmed, ActivateErrs, Crash, Tick
<1> QED BY <1>1, <1>2

\* A term that covers what was paid for covers it after every step.
LEMMA CoveredStep ==
    ASSUME CommerceInv, CommerceInv', FinalStep, TermStep, now <= now', NEW w \in Owners,
           Covered(subs[w], PaidTerms(w), now)
    PROVE  Covered(subs'[w], PaidTerms(w)', now')
<1> DEFINE count == PaidTerm(w)
           more == PaidTerm(w)'
<1>1. count \in [OrderIds -> Nat] /\ more \in [OrderIds -> Nat]
  <2>1. count \in [OrderIds -> Nat]
    BY PaidTyped
  <2>2. more \in [OrderIds -> Nat]
    <3>1. \A o \in OrderIds : Placed(o)' => Term[orders'[o].offer] \in Nat
      <4>1. \A o \in OrderIds : Placed(o)' => orders'[o] \in OrderRows
        BY DEF CommerceInv, TypeOK, Placed
      <4> QED BY <4>1, CommerceAssumption DEF OrderRows
    <3> QED BY <3>1 DEF PaidTerm
  <2> QED BY <2>1, <2>2
<1>2. subs[w] \in SubRows \cup {NoSub} /\ now \in Nat /\ now' \in Nat
  BY DEF CommerceInv, TypeOK
<1>3. PaidTerms(w) = SumFunction(count) /\ PaidTerms(w)' = SumFunction(more)
  BY DEF PaidTerms
<1>4. \A o \in OrderIds : ~Activation(o) => more[o] = count[o]
  BY OthersAddNothing
<1>5. SumFunction(count) \in Nat
  BY <1>1, PaidSums
<1>6. CASE \E o \in OrderIds : Activation(o) /\ orders[o].owner = w
  <2>1. PICK o \in OrderIds : Activation(o) /\ orders[o].owner = w
    BY <1>6
  <2> DEFINE n == Term[orders[o].offer]
  <2>2. Placed(o) /\ \A p \in OrderIds : Activation(p) => p = o
    BY <2>1 DEF TermStep
  <2>3. n \in Nat
    BY <2>2, RowFacts, CommerceAssumption DEF CommerceInv
  <2>4. count[o] = 0 /\ more[o] = n
    BY <2>1, <2>2, ActivatedAddsItsTerm
  <2>5. PICK t \in 0..now : subs'[w] = Extended(subs[w], t, n)
    BY <2>1 DEF TermStep
  <2> HIDE DEF n, count, more
  <2>6. \A p \in OrderIds : more[p] = IF p = o THEN count[p] + n ELSE count[p]
    BY <1>4, <2>2, <2>3, <2>4
  <2>7. SumFunction(more) = SumFunction(count) + n
    BY <1>1, <2>3, <2>6, PaidSums
  <2>8. Covered(subs'[w], SumFunction(more), now)
    BY <1>2, <1>3, <1>5, <2>3, <2>5, <2>7, ExtendedCovers
  <2>9. subs'[w] \in SubRows \cup {NoSub}
    BY DEF CommerceInv, TypeOK
  <2> QED BY <1>2, <1>3, <1>5, <2>3, <2>7, <2>8, <2>9 DEF Covered, SubRows
<1>7. CASE ~\E o \in OrderIds : Activation(o) /\ orders[o].owner = w
  <2>1. subs'[w] = subs[w]
    BY <1>7 DEF TermStep
  <2>2. ASSUME NEW o \in OrderIds PROVE more[o] = count[o]
    <3>1. CASE Activation(o)
      <4>1. Placed(o) /\ orders[o].owner # w
        BY <1>7, <3>1 DEF TermStep
      <4> QED BY <3>1, <4>1, ActivatedAddsItsTerm
    <3> QED BY <1>4, <3>1
  <2> HIDE DEF count, more
  <2>3. more = count
    BY <1>1, <2>2
  <2>4. PaidTerms(w)' = PaidTerms(w)
    BY <1>3, <2>3
  <2> QED BY <1>2, <1>3, <1>5, <2>1, <2>4 DEF Covered, SubRows
<1> QED BY <1>6, <1>7

(* However many notifications, duplicates, failures, crashes and lost       *)
(* answers it took, the subscription of an account covers the terms of all  *)
(* its active orders, and not a day more: each order extends it once        *)
(* (the activation batch, commerce.js:118-124).                             *)
THEOREM EachOrderOnce == Spec => []EachOrderExtendsOnce
<1>1. Init => EachOrderExtendsOnce
  <2> SUFFICES ASSUME Init, NEW w \in Owners PROVE subs[w] = NoSub /\ PaidTerms(w) = 0
    BY DEF EachOrderExtendsOnce
  <2>1. PaidTerm(w) = [o \in OrderIds |-> 0]
    BY DEF Init, PaidTerm
  <2>2. PaidTerm(w) \in [OrderIds -> Nat] /\ \A o \in OrderIds : PaidTerm(w)[o] = 0
    BY <2>1
  <2>3. SumFunction(PaidTerm(w)) = 0
    BY <2>2, PaidSums
  <2> QED BY <2>3 DEF Init, PaidTerms
<1>2. CommerceInv /\ CommerceInv' /\ EachOrderExtendsOnce /\ [Next]_vars
        => EachOrderExtendsOnce'
  <2> SUFFICES ASSUME CommerceInv, CommerceInv', EachOrderExtendsOnce, [Next]_vars
               PROVE  EachOrderExtendsOnce'
    OBVIOUS
  <2>1. FinalStep /\ TermStep
    BY EveryStep
  <2>2. now <= now'
    BY TimePasses DEF CommerceInv
  <2>3. ASSUME NEW w \in Owners PROVE Covered(subs'[w], PaidTerms(w)', now')
    <3>1. Covered(subs[w], PaidTerms(w), now)
      BY DEF EachOrderExtendsOnce, Covered
    <3> QED BY <2>1, <2>2, <3>1, CoveredStep
  <2> QED BY <2>3 DEF EachOrderExtendsOnce, Covered
<1> QED BY <1>1, <1>2, CommerceInvariant, PTL DEF Spec

-----------------------------------------------------------------------------
(* The order panel.                                                        *)

PanelStates ==
    [read : {"loading", "shown", "error"}, chosen : Offers, attempt : Keys \cup {NoKey},
     sent : Clients \cup {NoClient}, created : OrderIds \cup {NobodysOrder},
     failed : BOOLEAN]

\* The kept key is the one tried, and an order of it is the choice.
KeyIsKept ==
    /\ tried = IF panel.attempt = NoKey THEN {} ELSE {panel.attempt}
    /\ \A c \in Clients : client[c].pc # "idle" /\ client[c].key \in tried =>
          client[c].offer = panel.chosen
    /\ \A o \in OrderIds : Placed(o) /\ orders[o].key \in tried => orders[o].offer = panel.chosen
    /\ panel.sent # NoClient /\ client[panel.sent].pc # "idle" => client[panel.sent].key \in tried
    /\ panel.created # NobodysOrder =>
          Placed(panel.created) /\ orders[panel.created].key \in tried

\* A key has at most one order, and a request found the order of its key.
OneOrderPerKey ==
    /\ \A o \in OrderIds : Placed(o) => \A c \in Clients : orders[o].owner = Owner[c]
    /\ \A o, p \in OrderIds : Placed(o) /\ Placed(p) /\ orders[o].key = orders[p].key => o = p
    /\ \A c \in Clients : client[c].pc \in {"confirm", "answered"} =>
          /\ client[c].order \in OrderIds /\ Placed(client[c].order)
          /\ orders[client[c].order].key = client[c].key

PanelInv == CommerceInv /\ panel \in PanelStates /\ KeyIsKept /\ OneOrderPerKey

\* The panel changes and the store does not.
LEMMA PanelOnly ==
    ASSUME PanelInv, UNCHANGED vars
    PROVE  CommerceInv' /\ OneOrderPerKey'
<1>1. CommerceInv'
  BY CommerceInvKept DEF PanelInv
<1>2. OneOrderPerKey'
  BY DEF PanelInv, OneOrderPerKey, Placed, vars
<1> QED BY <1>1, <1>2

\* A panel that was just opened has no attempt.
LEMMA MountedTyped ==
    ASSUME NEW f \in Offers
    PROVE  /\ Mounted(f) \in PanelStates /\ Mounted(f).attempt = NoKey
           /\ Mounted(f).created = NobodysOrder /\ Mounted(f).sent = NoClient
BY DEF Mounted, PanelStates

\* What the panel does by itself leaves the server alone.
LEMMA PanelAloneKeeps ==
    ASSUME PanelInv, Mount \/ ReadEnds \/ Refresh \/ Unanswered \/ \E f \in Offers : Choose(f)
    PROVE  PanelInv'
<1>0. panel \in PanelStates /\ UNCHANGED vars
  BY DEF PanelInv, Mount, ReadEnds, Refresh, Unanswered, Choose
<1>1. CommerceInv' /\ OneOrderPerKey'
  BY <1>0, PanelOnly
<1>2. CASE panel'.attempt = NoKey /\ panel'.created = NobodysOrder /\ tried' = {}
           /\ panel'.sent = NoClient /\ panel' \in PanelStates
  <2>1. KeyIsKept'
    BY <1>2 DEF KeyIsKept
  <2> QED BY <1>1, <1>2, <2>1 DEF PanelInv
<1>3. CASE /\ panel'.attempt = panel.attempt /\ panel'.created = panel.created
           /\ panel'.chosen = panel.chosen /\ panel'.sent \in {panel.sent, NoClient}
           /\ tried' = tried /\ panel' \in PanelStates
  <2>1. KeyIsKept'
    BY <1>0, <1>3 DEF KeyIsKept, PanelInv, Placed, vars
  <2> QED BY <1>1, <1>3, <2>1 DEF PanelInv
<1>4. CASE Mount
  BY <1>2, <1>4, MountedTyped DEF Mount
<1>5. CASE ReadEnds
  <2>1. PICK r \in {"error", "shown"} : panel' = [panel EXCEPT !.read = r]
    BY <1>5 DEF ReadEnds
  <2>2. panel' \in PanelStates
    BY <1>0, <2>1 DEF PanelStates
  <2> QED BY <1>0, <1>3, <1>5, <2>1, <2>2 DEF ReadEnds, PanelStates
<1>6. CASE Refresh
  BY <1>0, <1>3, <1>6 DEF Refresh, PanelStates
<1>7. CASE Unanswered
  BY <1>0, <1>3, <1>7 DEF Unanswered, PanelStates
<1>8. ASSUME NEW f \in Offers, Choose(f) PROVE PanelInv'
  BY <1>0, <1>2, <1>8 DEF Choose, PanelStates
<1> QED BY <1>4, <1>5, <1>6, <1>7, <1>8

\* A request that ends, or goes on for the same key and offer.
GoesOn(c) ==
    /\ client' \in [Clients -> ClientStates]
    /\ \A d \in Clients \ {c} : client'[d] = client[d]
    /\ client'[c].pc # "idle" =>
          /\ client[c].pc # "idle"
          /\ client'[c].key = client[c].key /\ client'[c].offer = client[c].offer
          /\ client'[c].pc \in {"confirm", "answered"} =>
                /\ client'[c].order \in OrderIds /\ Placed(client'[c].order)
                /\ orders[client'[c].order].key = client[c].key

\* While a request goes on the panel waits for the same order.
LEMMA GoesOnKeeps ==
    ASSUME PanelInv, CommerceInv', NEW c \in Clients, GoesOn(c), UNCHANGED <<orders, tried>>,
           panel' \in PanelStates,
           panel'.attempt = panel.attempt, panel'.chosen = panel.chosen,
           panel'.sent \in {panel.sent, NoClient},
           panel'.created # NobodysOrder =>
               /\ panel'.created \in OrderIds
               /\ Placed(panel'.created) /\ orders[panel'.created].key \in tried
    PROVE  PanelInv'
<1>1. panel.sent \in Clients \cup {NoClient} /\ NoClient \notin Clients
  BY PanelAssumption DEF PanelInv, PanelStates
<1>2. KeyIsKept'
  <2>1. \A d \in Clients : client'[d].pc # "idle" =>
            /\ client[d].pc # "idle"
            /\ client'[d].key = client[d].key /\ client'[d].offer = client[d].offer
    BY DEF GoesOn
  <2> QED BY <1>1, <2>1 DEF PanelInv, KeyIsKept, Placed
<1>3. OneOrderPerKey'
  BY DEF PanelInv, OneOrderPerKey, Placed, GoesOn
<1> QED BY <1>2, <1>3 DEF PanelInv

\* A new order is the first of its key, and for the offer its request is for.
LEMMA InsertKeepsPanel ==
    ASSUME PanelInv, CommerceInv', NEW c \in Clients, InsertOrder(c), UNCHANGED <<panel, tried>>
    PROVE  PanelInv'
<1>1. client[c] \in InsertStates /\ client \in [Clients -> ClientStates]
  BY ClientFacts DEF InsertOrder, PanelInv, CommerceInv, TypeOK
<1>2. client[c].pc = "insert"
  BY DEF InsertOrder
<1>3. CASE RowsOf(c) # {}
  <2>1. client' = [client EXCEPT ![c] =
            [pc |-> "select", key |-> client[c].key, offer |-> client[c].offer,
             minted |-> {}]] /\ UNCHANGED orders
    BY <1>3 DEF InsertOrder
  <2>2. client' \in [Clients -> ClientStates]
    BY DEF CommerceInv, TypeOK
  <2>3. GoesOn(c)
    BY <1>1, <1>2, <2>1, <2>2 DEF GoesOn
  <2>4. panel' \in PanelStates /\ panel'.created # NobodysOrder =>
            /\ panel'.created \in OrderIds
            /\ Placed(panel'.created) /\ orders[panel'.created].key \in tried
    BY DEF PanelInv, KeyIsKept, PanelStates
  <2>5. panel' \in PanelStates
    BY DEF PanelInv
  <2> QED BY <2>1, <2>3, <2>4, <2>5, GoesOnKeeps
<1>4. CASE RowsOf(c) = {}
  <2> DEFINE new == [owner |-> Owner[c], key |-> client[c].key, offer |-> client[c].offer,
                     payment |-> "pending", provisioning |-> "not_provisioned"]
  <2>1. PICK o \in OrderIds :
            /\ ~Placed(o) /\ orders' = [orders EXCEPT ![o] = new]
            /\ client' = [client EXCEPT ![c] =
                  [pc |-> "select", key |-> client[c].key, offer |-> client[c].offer,
                   minted |-> {o}]]
    BY <1>4 DEF InsertOrder
  <2>2. /\ orders'[o] = new /\ \A p \in OrderIds \ {o} : orders'[p] = orders[p]
        /\ new # NoOrder
    <3>1. new # NoOrder
      <4>1. DOMAIN new # DOMAIN NoOrder
        BY DEF NoOrder
      <4> QED BY <4>1
    <3> QED BY <2>1, <3>1 DEF PanelInv, CommerceInv, TypeOK
  <2>3. \A d \in Clients : /\ client'[d].pc # "idle" <=> client[d].pc # "idle"
                           /\ client[d].pc # "idle" => client'[d].key = client[d].key
                                                       /\ client'[d].offer = client[d].offer
                           /\ d # c => client'[d] = client[d]
    BY <1>1, <1>2, <2>1
  <2>4. \A p \in OrderIds : Placed(p) => orders[p].key # client[c].key
    BY <1>4 DEF RowsOf, PanelInv, OneOrderPerKey
  <2>5. \A p \in OrderIds : Placed(p)' <=> Placed(p) \/ p = o
    BY <2>1, <2>2 DEF Placed
  <2>6. client'[c].pc = "select"
    BY <1>1, <2>1
  <2>7. new.key = client[c].key /\ new.owner = Owner[c] /\ new.offer = client[c].offer
    OBVIOUS
  <2> HIDE DEF new
  <2>8. OneOrderPerKey'
    <3>1. \A p \in OrderIds : Placed(p)' => \A d \in Clients : orders'[p].owner = Owner[d]
      BY <2>1, <2>2, <2>5, <2>7, PanelAssumption DEF PanelInv, OneOrderPerKey
    <3>2. \A p, q \in OrderIds : Placed(p)' /\ Placed(q)' /\ orders'[p].key = orders'[q].key => p = q
      BY <2>1, <2>2, <2>4, <2>5, <2>7 DEF PanelInv, OneOrderPerKey
    <3>3. \A d \in Clients : client'[d].pc \in {"confirm", "answered"} =>
              /\ client'[d].order \in OrderIds /\ orders'[client'[d].order] # NoOrder
              /\ orders'[client'[d].order].key = client'[d].key
      <4> SUFFICES ASSUME NEW d \in Clients, client'[d].pc \in {"confirm", "answered"}
                   PROVE  /\ client'[d].order \in OrderIds /\ orders'[client'[d].order] # NoOrder
                          /\ orders'[client'[d].order].key = client'[d].key
        OBVIOUS
      <4>1. client'[d] = client[d]
        BY <2>3, <2>6
      <4>2. /\ client[d].order \in OrderIds /\ Placed(client[d].order)
            /\ orders[client[d].order].key = client[d].key
        BY <4>1 DEF PanelInv, OneOrderPerKey
      <4>3. client[d].order # o
        BY <2>1, <4>2
      <4>4. orders'[client[d].order] = orders[client[d].order]
        BY <2>2, <4>2, <4>3
      <4> QED BY <4>1, <4>2, <4>4 DEF Placed
    <3> QED BY <3>1, <3>2, <3>3 DEF OneOrderPerKey, Placed
  <2>9. KeyIsKept'
    <3>1. \A p \in OrderIds : Placed(p)' /\ orders'[p].key \in tried => orders'[p].offer = panel.chosen
      BY <1>2, <2>2, <2>5, <2>7 DEF PanelInv, KeyIsKept
    <3>2. panel.sent \in Clients \cup {NoClient} /\ panel.created \in OrderIds \cup {NobodysOrder}
      BY DEF PanelInv, PanelStates
    <3>3. panel.sent # NoClient /\ client'[panel.sent].pc # "idle" => client'[panel.sent].key \in tried
      BY <2>3, <3>2 DEF PanelInv, KeyIsKept
    <3>4. panel.created # NobodysOrder =>
              Placed(panel.created)' /\ orders'[panel.created].key \in tried
      BY <2>1, <2>2, <2>5, <3>2 DEF PanelInv, KeyIsKept
    <3>5. \A d \in Clients : client'[d].pc # "idle" /\ client'[d].key \in tried =>
              client'[d].offer = panel.chosen
      BY <2>3 DEF PanelInv, KeyIsKept
    <3>6. tried = IF panel.attempt = NoKey THEN {} ELSE {panel.attempt}
      BY DEF PanelInv, KeyIsKept
    <3>7. UNCHANGED <<panel, tried>>
      OBVIOUS
    <3> QED BY <3>1, <3>3, <3>4, <3>5, <3>6, <3>7 DEF KeyIsKept, Placed
  <2>10. panel' \in PanelStates
    BY DEF PanelInv
  <2> QED BY <2>8, <2>9, <2>10 DEF PanelInv
<1> QED BY <1>3, <1>4

\* The other requests and the sessions.
LEMMA ServeKeepsPanel ==
    ASSUME PanelInv, CommerceInv', NEW c \in Clients, UNCHANGED <<panel, tried>>,
           SelectOrder(c) \/ ConfirmOrder(c) \/ Abandon(c) \/ EndSession(c) \/ SignIn(c)
    PROVE  PanelInv'
<1>0. /\ client' \in [Clients -> ClientStates] /\ client \in [Clients -> ClientStates]
      /\ panel' \in PanelStates /\ UNCHANGED orders
      /\ panel'.created # NobodysOrder =>
            /\ panel'.created \in OrderIds
            /\ Placed(panel'.created) /\ orders[panel'.created].key \in tried
  BY DEF PanelInv, KeyIsKept, PanelStates, CommerceInv, TypeOK, SelectOrder, ConfirmOrder,
         Abandon, EndSession, SignIn, store
<1>1. CASE SelectOrder(c)
  <2>1. PICK o \in RowsOf(c) :
           client' = [client EXCEPT ![c] =
               IF orders[o].offer = client[c].offer
               THEN [pc |-> "confirm", key |-> client[c].key, offer |-> client[c].offer,
                     minted |-> client[c].minted, order |-> o]
               ELSE [pc |-> "idle"]]
    BY <1>1 DEF SelectOrder
  <2>2. o \in OrderIds /\ Placed(o) /\ orders[o].key = client[c].key
    BY DEF RowsOf
  <2>3. GoesOn(c)
    <3>1. client[c].pc = "select"
      BY <1>1 DEF SelectOrder
    <3> QED BY <1>0, <2>1, <2>2, <3>1 DEF GoesOn
  <2> QED BY <1>0, <2>3, GoesOnKeeps
<1>2. CASE ConfirmOrder(c)
  <2> DEFINE ans == [pc |-> "answered", key |-> client[c].key, offer |-> client[c].offer,
                     order |-> client[c].order,
                     status |-> IF client[c].order \in client[c].minted THEN 201 ELSE 200]
  <2>1. client' = [client EXCEPT ![c] = IF c \in live THEN ans ELSE [pc |-> "idle"]]
    BY <1>2 DEF ConfirmOrder
  <2>2. client[c].pc = "confirm"
    BY <1>2 DEF ConfirmOrder
  <2>3. /\ client[c].order \in OrderIds /\ Placed(client[c].order)
        /\ orders[client[c].order].key = client[c].key
    BY <2>2 DEF PanelInv, OneOrderPerKey
  <2>4. GoesOn(c)
    BY <1>0, <2>1, <2>2, <2>3 DEF GoesOn
  <2> QED BY <1>0, <2>4, GoesOnKeeps
<1>3. CASE Abandon(c)
  <2>1. GoesOn(c)
    BY <1>0, <1>3 DEF Abandon, GoesOn
  <2> QED BY <1>0, <2>1, GoesOnKeeps
<1>4. CASE EndSession(c) \/ SignIn(c)
  <2>1. client' = client
    BY <1>4 DEF EndSession, SignIn
  <2>2. GoesOn(c)
    BY <1>0, <2>1 DEF GoesOn, PanelInv, OneOrderPerKey
  <2> QED BY <1>0, <2>2, GoesOnKeeps
<1> QED BY <1>1, <1>2, <1>3, <1>4

\* A submit sends the key of its attempt.
LEMMA SubmitKeepsPanel ==
    ASSUME PanelInv, CommerceInv', Submit
    PROVE  PanelInv'
<1>1. PICK k \in Attempt, c \in Clients :
          /\ RequestOrder(c, k, panel.chosen)
          /\ panel' = [panel EXCEPT !.attempt = k, !.sent = c, !.failed = FALSE]
          /\ tried' = tried \cup {k}
  BY DEF Submit
<1>2. /\ panel \in PanelStates /\ panel.created = NobodysOrder /\ UNCHANGED orders
      /\ client \in [Clients -> ClientStates] /\ client[c].pc = "idle"
      /\ client' = [client EXCEPT ![c] = [pc |-> "insert", key |-> k, offer |-> panel.chosen]]
  BY <1>1 DEF PanelInv, Submit, RequestOrder, CommerceInv, TypeOK, store
<1>3. k \in Keys
  BY <1>2 DEF Attempt, FreshKeys, PanelStates
<1>4. tried' = {k} /\ (tried # {} => tried = {k})
  BY <1>1 DEF Attempt, PanelInv, KeyIsKept
<1>5. /\ panel' \in PanelStates /\ panel'.attempt = k /\ panel'.sent = c
      /\ panel'.created = NobodysOrder /\ panel'.chosen = panel.chosen
  BY <1>1, <1>2, <1>3 DEF PanelStates
<1>6. \A d \in Clients \ {c} : client[d].pc # "idle" /\ client[d].key = k =>
          client[d].offer = panel.chosen
  <2>1. CASE tried = {}
    BY <1>1, <2>1 DEF Attempt, FreshKeys, PanelInv, KeyIsKept
  <2>2. CASE tried = {k}
    BY <2>2 DEF PanelInv, KeyIsKept
  <2> QED BY <1>4, <2>1, <2>2
<1>7. \A o \in OrderIds : Placed(o) /\ orders[o].key = k => orders[o].offer = panel.chosen
  <2>1. CASE tried = {}
    BY <1>1, <2>1 DEF Attempt, FreshKeys, PanelInv, KeyIsKept
  <2>2. CASE tried = {k}
    BY <2>2 DEF PanelInv, KeyIsKept
  <2> QED BY <1>4, <2>1, <2>2
<1>8. KeyIsKept'
  <2>1. k # NoKey
    BY <1>3, PanelAssumption
  <2>2. client'[c].key = k /\ client'[c].offer = panel.chosen
    BY <1>2
  <2>3. \A d \in Clients \ {c} : client'[d] = client[d]
    BY <1>2
  <2> QED BY <1>2, <1>4, <1>5, <1>6, <1>7, <2>1, <2>2, <2>3 DEF KeyIsKept, Placed
<1>9. OneOrderPerKey'
  BY <1>2 DEF PanelInv, OneOrderPerKey, Placed
<1> QED BY <1>5, <1>8, <1>9 DEF PanelInv

\* What the panel does is among what a browser may do.
LEMMA PanelStepsAreSteps ==
    ASSUME PanelInv, [PanelNext]_<<vars, panel, tried>>
    PROVE  [Next]_vars
<1>1. CASE Mount \/ ReadEnds \/ Refresh \/ Unanswered \/ \E f \in Offers : Choose(f)
  BY <1>1 DEF Mount, ReadEnds, Refresh, Unanswered, Choose
<1>2. CASE Submit
  <2>1. panel.chosen \in Offers /\ Attempt \subseteq Keys
    BY DEF Attempt, FreshKeys, PanelInv, PanelStates
  <2>2. PICK k \in Attempt, c \in Clients : RequestOrder(c, k, panel.chosen)
    BY <1>2 DEF Submit
  <2>3. ClientStep(c)
    BY <2>1, <2>2 DEF ClientStep
  <2> QED BY <2>3 DEF Next
<1>3. CASE Answered
  <2>1. panel.sent \in Clients
    BY <1>3 DEF Answered, PanelInv, PanelStates
  <2>2. Abandon(panel.sent)
    BY <1>3 DEF Answered, Abandon
  <2> QED BY <2>1, <2>2 DEF Next, ClientStep
<1>4. ASSUME NEW c \in Clients, Serve(c) \/ Drop(c) \/ Lose(c) \/ Session(c)
      PROVE  [Next]_vars
  <2>1. ClientStep(c)
    BY <1>4 DEF Serve, Drop, Lose, Session, ClientStep
  <2> QED BY <2>1 DEF Next
<1>5. CASE UNCHANGED <<vars, panel, tried>>
  BY <1>5
<1> QED BY <1>1, <1>2, <1>3, <1>4, <1>5 DEF PanelNext

\* An answer names the order of the attempt.
LEMMA AnswerKeepsPanel ==
    ASSUME PanelInv, CommerceInv', NEW c \in Clients, c = panel.sent,
           panel' \in PanelStates,
           panel'.attempt = panel.attempt, panel'.chosen = panel.chosen, panel'.sent = NoClient,
           panel'.created = panel.created
             \/ (client[c].pc = "answered" /\ panel'.created = client[c].order),
           client' = [client EXCEPT ![c] = [pc |-> "idle"]], UNCHANGED <<orders, tried>>
    PROVE  PanelInv'
<1>1. GoesOn(c)
  BY DEF GoesOn, CommerceInv, TypeOK
<1>2. panel'.created # NobodysOrder =>
          /\ panel'.created \in OrderIds
          /\ Placed(panel'.created) /\ orders[panel'.created].key \in tried
  <2>1. CASE panel'.created = panel.created
    BY <2>1 DEF PanelInv, KeyIsKept, PanelStates
  <2>2. CASE client[c].pc = "answered" /\ panel'.created = client[c].order
    <3>1. c # NoClient
      BY PanelAssumption
    <3> QED BY <2>2, <3>1 DEF PanelInv, KeyIsKept, OneOrderPerKey
  <2> QED BY <2>1, <2>2
<1> QED BY <1>1, <1>2, GoesOnKeeps

\* Every step keeps the panel and the orders in agreement.
LEMMA PanelInvKept == PanelInv /\ [PanelNext]_<<vars, panel, tried>> => PanelInv'
<1> SUFFICES ASSUME PanelInv, [PanelNext]_<<vars, panel, tried>> PROVE PanelInv'
  OBVIOUS
<1>0. CommerceInv'
  BY PanelStepsAreSteps, CommerceInvKept DEF PanelInv
<1>1. CASE Mount \/ ReadEnds \/ Refresh \/ Unanswered \/ \E f \in Offers : Choose(f)
  BY <1>1, PanelAloneKeeps
<1>2. CASE Submit
  BY <1>0, <1>2, SubmitKeepsPanel
<1>3. CASE Answered
  <2>1. panel.sent \in Clients /\ panel \in PanelStates
    BY <1>3 DEF Answered, PanelInv, PanelStates
  <2>2. client[panel.sent].pc = "answered" /\ client[panel.sent].order \in OrderIds
    BY <1>3, <2>1 DEF Answered, PanelInv, OneOrderPerKey
  <2>3. /\ panel' = [panel EXCEPT !.created = client[panel.sent].order, !.sent = NoClient,
                                  !.read = "loading"]
        /\ client' = [client EXCEPT ![panel.sent] = [pc |-> "idle"]]
        /\ UNCHANGED <<orders, tried>>
    BY <1>3 DEF Answered, store
  <2>4. /\ panel' \in PanelStates /\ panel'.attempt = panel.attempt
        /\ panel'.chosen = panel.chosen /\ panel'.sent = NoClient
        /\ panel'.created = client[panel.sent].order
    BY <2>1, <2>2, <2>3 DEF PanelStates
  <2> QED BY <1>0, <2>1, <2>2, <2>3, <2>4, AnswerKeepsPanel
<1>4. ASSUME NEW c \in Clients, Serve(c) PROVE PanelInv'
  BY <1>0, <1>4, InsertKeepsPanel, ServeKeepsPanel DEF Serve
<1>5. ASSUME NEW c \in Clients, Drop(c) \/ Session(c) PROVE PanelInv'
  BY <1>0, <1>5, ServeKeepsPanel DEF Drop, Session
<1>6. ASSUME NEW c \in Clients, Lose(c) PROVE PanelInv'
  <2>1. /\ c = panel.sent /\ client' = [client EXCEPT ![c] = [pc |-> "idle"]]
        /\ panel' = [panel EXCEPT !.failed = TRUE, !.sent = NoClient]
        /\ UNCHANGED <<orders, tried>>
    BY <1>6 DEF Lose, Abandon, store
  <2>2. /\ panel' \in PanelStates /\ panel'.attempt = panel.attempt
        /\ panel'.chosen = panel.chosen /\ panel'.sent = NoClient
        /\ panel'.created = panel.created
    BY <2>1 DEF PanelInv, PanelStates
  <2> QED BY <1>0, <2>1, <2>2, AnswerKeepsPanel
<1>7. CASE UNCHANGED <<vars, panel, tried>>
  <2>1. OneOrderPerKey'
    BY <1>7, PanelOnly
  <2>2. KeyIsKept' /\ panel' \in PanelStates
    BY <1>7 DEF PanelInv, KeyIsKept, Placed, vars
  <2> QED BY <1>0, <2>1, <2>2 DEF PanelInv
<1> QED BY <1>1, <1>2, <1>3, <1>4, <1>5, <1>6, <1>7 DEF PanelNext

(* However often a choice is submitted again after answers that were lost,  *)
(* late or refused, it makes one order; and the order shown as saved is     *)
(* that one, for the offer on view (AccountCommerce.jsx:41-43,              *)
(* commerce.js:75-80).                                                      *)
THEOREM OneOrderForAChoice == PanelSpec => []OneOrderPerChoice
<1>1. Init /\ PanelInit => PanelInv
  <2> SUFFICES ASSUME Init, PanelInit PROVE PanelInv
    OBVIOUS
  <2>1. CommerceInv
    BY CommerceInitially
  <2>2. PICK f \in Offers : panel = Mounted(f)
    BY DEF PanelInit
  <2>3. /\ \A o \in OrderIds : ~Placed(o)
        /\ \A c \in Clients : client[c].pc = "idle"
    BY DEF Init, Placed
  <2>4. panel \in PanelStates /\ KeyIsKept
    BY <2>2, <2>3, MountedTyped DEF KeyIsKept, PanelInit
  <2>5. OneOrderPerKey
    BY <2>3 DEF OneOrderPerKey
  <2> QED BY <2>1, <2>4, <2>5 DEF PanelInv
<1>2. PanelInv => OneOrderPerChoice
  <2> SUFFICES ASSUME PanelInv PROVE OneOrderPerChoice
    OBVIOUS
  <2>1. \A o, p \in OrdersTried : o = p
    BY DEF OrdersTried, PanelInv, OneOrderPerKey, KeyIsKept
  <2>2. Cardinality(OrdersTried) <= 1
    <3>1. CASE OrdersTried = {}
      BY <3>1, FS_EmptySet
    <3>2. CASE OrdersTried # {}
      <4>1. PICK o : OrdersTried = {o}
        BY <2>1, <3>2
      <4>2. Cardinality({o}) = 1
        BY FS_Singleton
      <4> QED BY <4>1, <4>2
    <3> QED BY <3>1, <3>2
  <2>3. panel.created # NobodysOrder =>
            OrdersTried = {panel.created} /\ orders[panel.created].offer = panel.chosen
    <3> SUFFICES ASSUME panel.created # NobodysOrder
                 PROVE  OrdersTried = {panel.created}
                        /\ orders[panel.created].offer = panel.chosen
      OBVIOUS
    <3>1. panel.created \in OrdersTried
      BY DEF OrdersTried, PanelInv, KeyIsKept, PanelStates
    <3>2. orders[panel.created].offer = panel.chosen
      BY <3>1 DEF OrdersTried, PanelInv, KeyIsKept
    <3> QED BY <2>1, <3>1, <3>2
  <2> QED BY <2>2, <2>3 DEF OneOrderPerChoice
<1> QED BY <1>1, <1>2, PanelInvKept, PTL DEF PanelSpec
=============================================================================
