----------------------------- MODULE BillingProofs -----------------------------
(***************************************************************************)
(* Nobody has Pro that is not paid for, every payment page is of the       *)
(* customer its organization is known by, and a record whose events are    *)
(* all answered agrees with the provider: for any organizations, customers *)
(* and checkouts, and any events, in any order, lost or repeated.          *)
(*                                                                         *)
(* BillingInv is about who pays, and needs no order of events.  The later  *)
(* invariants are about which event a record stands for: the provider's    *)
(* order (ToldInv), customers (CustomerInv), claims (ClaimInv), the gap    *)
(* between check and write (FreshInv), what was written (WitnessInv) and   *)
(* what was handled to its end (DoneInv).                                  *)
(***************************************************************************)
EXTENDS Billing, TLAPS

EventRecord ==
    [type: {"created", "completed", "updated", "deleted"}, at: Nat, subscription: Subscriptions,
     customer: Customers, hint: Orgs \cup {None}, carries: Standing \cup {None}]

Checkout ==
    [at: {"new", "customer", "link", "session", "open", "done"}, customer: Customers \cup {None}]

Handler ==
    [at: {"claim", "resolve", "fetch", "save", "release"}, event: Nat,
     owner: Orgs \cup {None}, found: Standing \cup {None}]

BillingTypes ==
    /\ rows \in [Orgs -> Record \cup {None}]
    /\ checkouts \in [Checkouts -> Checkout]
    /\ handlers \in [Handlers -> Handler \cup {Free}]
    /\ made \subseteq Customers
    /\ subs \in [Subscriptions -> Standing \cup {None}]
    /\ events \in Seq(EventRecord)
    /\ now \in Nat
    /\ paid \in [Subscriptions -> Nat]

\* What is active at the Pro price is paid for.
Paying(sub, s) == sub.status = "active" /\ sub.price = "pro" => sub.ends <= paid[s]

SubscriptionInv(s) ==
    /\ subs[s] = None => paid[s] = 0
    /\ subs[s] # None => Paying(subs[s], s)
    /\ paid[s] <= now + Period

EventInv(event) ==
    LET s == event.subscription
    IN  /\ subs[s] # None /\ subs[s].customer = event.customer
        /\ event.carries # None => Paying(event.carries, s)

\* A record is of a subscription of its own customer, and grants what that one paid for.
RecordInv(o) ==
    LET s == rows[o].subscription
    IN  rows[o] # None =>
          /\ s # None => subs[s] # None /\ subs[s].customer = rows[o].customer
          /\ rows[o].status = "active" /\ rows[o].plan = "pro" => s # None /\ rows[o].ends <= paid[s]

\* So is what a handler is about to write.
HandlerInv(h) ==
    handlers[h].at # "idle" =>
        /\ handlers[h].event \in 1..Len(events)
        /\ handlers[h].at \in {"fetch", "save"} =>
             /\ handlers[h].owner \in Orgs /\ rows[handlers[h].owner] # None
             /\ rows[handlers[h].owner].customer = Event(h).customer
        /\ handlers[h].at = "save" =>
             handlers[h].found \in Standing /\ Paying(handlers[h].found, Event(h).subscription)

CheckoutInv(c) ==
    /\ checkouts[c].at \in {"link", "session", "open", "done"} => checkouts[c].customer \in Customers
    /\ checkouts[c].at \in {"session", "open", "done"} =>
         rows[Home[c]] # None /\ rows[Home[c]].customer = checkouts[c].customer

BillingInv ==
    /\ BillingTypes
    /\ \A s \in Subscriptions : SubscriptionInv(s)
    /\ \A e \in 1..Len(events) : EventInv(events[e])
    /\ \A o \in Orgs : RecordInv(o)
    /\ \A h \in Handlers : HandlerInv(h)
    /\ \A c \in Checkouts : CheckoutInv(c)

--------------------------------------------------------------------------------
(* What only grows keeps what was said of it.                                 *)

Grows ==
    /\ \A o \in Orgs : rows[o] # None => rows'[o] # None /\ rows'[o].customer = rows[o].customer
    /\ \A s \in Subscriptions : subs[s] # None => subs'[s] # None /\ subs'[s].customer = subs[s].customer
    /\ \A s \in Subscriptions : paid[s] <= paid'[s]
    /\ Len(events) <= Len(events')
    /\ \A e \in 1..Len(events) : events'[e] = events[e]

LEMMA PayingStays ==
    ASSUME BillingTypes, BillingTypes', Grows, NEW sub \in Standing, NEW s \in Subscriptions,
           Paying(sub, s)
    PROVE  Paying(sub, s)'
<1>1. sub.ends \in Nat /\ paid[s] \in Nat /\ paid'[s] \in Nat /\ paid[s] <= paid'[s]
  BY DEF BillingTypes, Grows, Standing
<1> QED BY <1>1 DEF Paying

LEMMA EventStays ==
    ASSUME BillingTypes, BillingTypes', Grows, NEW event \in EventRecord, EventInv(event)
    PROVE  EventInv(event)'
<1>1. event.subscription \in Subscriptions /\ event.carries \in Standing \cup {None}
  BY DEF EventRecord
<1>2. event.carries # None => Paying(event.carries, event.subscription)'
  BY <1>1, PayingStays DEF EventInv
<1> QED BY <1>1, <1>2 DEF EventInv, Grows

LEMMA RecordStays ==
    ASSUME BillingTypes, BillingTypes', Grows, NEW o \in Orgs, RecordInv(o), rows'[o] = rows[o]
    PROVE  RecordInv(o)'
<1> SUFFICES ASSUME rows[o] # None
             PROVE  RecordInv(o)'
  BY DEF RecordInv
<1>1. rows[o] \in Record /\ rows[o].ends \in Nat /\ rows[o].subscription \in Subscriptions \cup {None}
  BY DEF BillingTypes, Record
<1>2. \A s \in Subscriptions : paid[s] \in Nat /\ paid'[s] \in Nat /\ paid[s] <= paid'[s]
  BY DEF BillingTypes, Grows
<1> QED BY <1>1, <1>2 DEF RecordInv, Grows

LEMMA HandlerStays ==
    ASSUME BillingTypes, BillingTypes', Grows, NEW h \in Handlers, HandlerInv(h),
           handlers'[h] = handlers[h]
    PROVE  HandlerInv(h)'
<1> SUFFICES ASSUME handlers[h].at # "idle"
             PROVE  HandlerInv(h)'
  BY DEF HandlerInv
<1>1. PICK n : n = handlers[h]
  OBVIOUS
<1>2. /\ n.event \in 1..Len(events) /\ Len(events) \in Nat /\ Len(events') \in Nat
      /\ Len(events) <= Len(events')
  BY <1>1 DEF HandlerInv, BillingTypes, Grows
<1>3. n.event \in 1..Len(events') /\ events'[n.event] = events[n.event]
  BY <1>2 DEF Grows
<1>4. PICK event : event = events[n.event]
  OBVIOUS
<1>5. event \in EventRecord /\ event.subscription \in Subscriptions
  <2>1. events \in Seq(EventRecord)
    BY DEF BillingTypes
  <2>2. event \in EventRecord
    BY <1>2, <1>4, <2>1
  <2> QED BY <2>2 DEF EventRecord
<1>6. n.at \in {"fetch", "save"} =>
        /\ n.owner \in Orgs /\ rows'[n.owner] # None
        /\ rows'[n.owner].customer = event.customer
  BY <1>1, <1>4 DEF HandlerInv, Event, Grows
<1>7. n.at = "save" => n.found \in Standing /\ Paying(n.found, event.subscription)'
  BY <1>1, <1>4, <1>5, PayingStays DEF HandlerInv, Event
<1>8. handlers'[h] = n /\ events'[n.event] = event
  BY <1>1, <1>3, <1>4
<1> QED BY <1>3, <1>6, <1>7, <1>8 DEF HandlerInv, Event, Paying

LEMMA CheckoutStays ==
    ASSUME BillingTypes, BillingTypes', Grows, NEW c \in Checkouts, CheckoutInv(c),
           checkouts'[c] = checkouts[c]
    PROVE  CheckoutInv(c)'
  BY BillingAssumption DEF CheckoutInv, Grows

\* A step that only grows has to answer for what it changes.
LEMMA Growing ==
    ASSUME BillingInv, BillingTypes', Grows,
           \A s \in Subscriptions : SubscriptionInv(s)',
           \A e \in (Len(events) + 1)..Len(events') : EventInv(events[e])',
           \A o \in Orgs : rows'[o] = rows[o] \/ RecordInv(o)',
           \A h \in Handlers : handlers'[h] = handlers[h] \/ HandlerInv(h)',
           \A c \in Checkouts : checkouts'[c] = checkouts[c] \/ CheckoutInv(c)'
    PROVE  BillingInv'
<1> USE DEF BillingInv
<1>1. ASSUME NEW e \in 1..Len(events')
      PROVE  EventInv(events[e])'
  <2>1. Len(events) \in Nat /\ Len(events') \in Nat /\ e \in Nat
    BY DEF BillingTypes
  <2>2. CASE e \in 1..Len(events)
    <3>1. PICK event : event = events[e]
      OBVIOUS
    <3>2. event \in EventRecord /\ EventInv(event)
      BY <2>2, <3>1 DEF BillingTypes
    <3>3. events'[e] = event
      BY <2>2, <3>1 DEF Grows
    <3>4. EventInv(event)'
      BY <3>2, EventStays
    <3> QED BY <3>3, <3>4 DEF EventInv
  <2> QED BY <1>1, <2>1, <2>2
<1>2. \A o \in Orgs : RecordInv(o)'
  BY RecordStays
<1>3. \A h \in Handlers : HandlerInv(h)'
  BY HandlerStays
<1>4. \A c \in Checkouts : CheckoutInv(c)'
  BY CheckoutStays
<1> QED BY <1>1, <1>2, <1>3, <1>4

\* A step that leaves the provider and every record alone.
LEMMA Staying ==
    ASSUME BillingInv, BillingTypes', UNCHANGED <<rows, subs, events, now, paid>>,
           \A h \in Handlers : handlers'[h] = handlers[h] \/ HandlerInv(h)',
           \A c \in Checkouts : checkouts'[c] = checkouts[c] \/ CheckoutInv(c)'
    PROVE  BillingInv'
<1>1. Grows
  BY DEF Grows, BillingInv, BillingTypes
<1>2. \A s \in Subscriptions : SubscriptionInv(s)'
  BY DEF BillingInv, SubscriptionInv, Paying
<1>3. \A e \in (Len(events) + 1)..Len(events') : EventInv(events[e])'
  BY DEF BillingInv, BillingTypes
<1> QED BY <1>1, <1>2, <1>3, Growing

LEMMA BillingInit == Init => BillingInv
<1> SUFFICES ASSUME Init
             PROVE  BillingInv
  OBVIOUS
<1>1. BillingTypes
  BY DEF Init, BillingTypes, Checkout
<1>2. \A s \in Subscriptions : SubscriptionInv(s)
  BY BillingAssumption DEF Init, SubscriptionInv
<1>3. /\ \A e \in 1..Len(events) : EventInv(events[e])
      /\ \A o \in Orgs : RecordInv(o)
      /\ \A h \in Handlers : HandlerInv(h)
      /\ \A c \in Checkouts : CheckoutInv(c)
  BY DEF Init, RecordInv, HandlerInv, CheckoutInv, Free
<1> QED BY <1>1, <1>2, <1>3 DEF BillingInv

--------------------------------------------------------------------------------
(* Checkouts.                                                                 *)

LEMMA CheckoutMoves ==
    ASSUME BillingInv, NEW c \in Checkouts, NEW n \in Checkout,
           checkouts' = [checkouts EXCEPT ![c] = n], CheckoutInv(c)', made' \subseteq Customers,
           UNCHANGED <<rows, handlers, subs, events, now, paid>>
    PROVE  BillingInv'
<1>1. BillingTypes'
  BY DEF BillingInv, BillingTypes
<1>2. \A d \in Checkouts : checkouts'[d] = checkouts[d] \/ CheckoutInv(d)'
  BY DEF BillingInv, BillingTypes
<1> QED BY <1>1, <1>2, Staying

LEMMA StartKeeps ==
    ASSUME BillingInv, NEW c \in Checkouts, StartCheckout(c)
    PROVE  BillingInv'
<1>1. PICK row : row = rows[Home[c]]
  OBVIOUS
<1>2. row \in Record \cup {None}
  BY <1>1, BillingAssumption DEF BillingInv, BillingTypes
<1>3. PICK n : n = IF row # None THEN [at |-> "session", customer |-> row.customer]
                   ELSE [at |-> "customer", customer |-> None]
  OBVIOUS
<1>4. n \in Checkout
  BY <1>2, <1>3 DEF Checkout, Record
<1>5. checkouts' = [checkouts EXCEPT ![c] = n]
  BY <1>1, <1>3 DEF StartCheckout, Proceeds
<1>6. UNCHANGED <<rows, handlers, made, subs, events, now, paid>>
  BY DEF StartCheckout, provider
<1>7. CheckoutInv(c)'
  BY <1>1, <1>2, <1>3, <1>5, <1>6 DEF CheckoutInv, Record, BillingInv, BillingTypes
<1>8. made' \subseteq Customers
  BY <1>6 DEF BillingInv, BillingTypes
<1> QED BY <1>4, <1>5, <1>6, <1>7, <1>8, CheckoutMoves

LEMMA CreateKeeps ==
    ASSUME BillingInv, NEW c \in Checkouts, CreateCustomer(c)
    PROVE  BillingInv'
<1>1. PICK customer \in Customers :
         made' = made \cup {customer} /\ Proceeds(c, "link", customer)
  BY DEF CreateCustomer
<1>2. PICK n : n = [at |-> "link", customer |-> customer]
  OBVIOUS
<1>3. n \in Checkout /\ checkouts' = [checkouts EXCEPT ![c] = n]
  BY <1>1, <1>2 DEF Proceeds, Checkout
<1>4. CheckoutInv(c)'
  BY <1>2, <1>3 DEF CheckoutInv, BillingInv, BillingTypes
<1>5. made' \subseteq Customers
  BY <1>1 DEF BillingInv, BillingTypes
<1> QED BY <1>3, <1>4, <1>5, CheckoutMoves DEF CreateCustomer

LEMMA OpenKeeps ==
    ASSUME BillingInv, NEW c \in Checkouts, OpenSession(c)
    PROVE  BillingInv'
<1>1. PICK n : n = [at |-> "open", customer |-> checkouts[c].customer]
  OBVIOUS
<1>2. n \in Checkout /\ checkouts' = [checkouts EXCEPT ![c] = n]
  BY <1>1 DEF OpenSession, Proceeds, Checkout, BillingInv, BillingTypes
<1>3. UNCHANGED <<rows, handlers, made, subs, events, now, paid>>
  BY DEF OpenSession, provider
<1>4. CheckoutInv(c)'
  BY <1>1, <1>2, <1>3 DEF OpenSession, CheckoutInv, BillingInv, BillingTypes
<1>5. made' \subseteq Customers
  BY <1>3 DEF BillingInv, BillingTypes
<1> QED BY <1>2, <1>3, <1>4, <1>5, CheckoutMoves

LEMMA FailedCheckoutKeeps ==
    ASSUME BillingInv, NEW c \in Checkouts, CheckoutFails(c)
    PROVE  BillingInv'
<1>1. PICK n : n = [at |-> "new", customer |-> None]
  OBVIOUS
<1>2. n \in Checkout /\ checkouts' = [checkouts EXCEPT ![c] = n]
  BY <1>1 DEF CheckoutFails, Proceeds, Checkout
<1>3. UNCHANGED <<rows, handlers, made, subs, events, now, paid>>
  BY DEF CheckoutFails, provider
<1>4. CheckoutInv(c)'
  BY <1>1, <1>2 DEF CheckoutInv, BillingInv, BillingTypes
<1>5. made' \subseteq Customers
  BY <1>3 DEF BillingInv, BillingTypes
<1> QED BY <1>2, <1>3, <1>4, <1>5, CheckoutMoves

\* The organization keeps the customer that was stored first.
LEMMA LinkKeeps ==
    ASSUME BillingInv, NEW c \in Checkouts, LinkCustomer(c)
    PROVE  BillingInv'
<1> DEFINE home == Home[c]
<1>1. PICK row : row = Linked(home, checkouts[c].customer)
  OBVIOUS
<1>2. /\ rows' = [rows EXCEPT ![home] = row]
      /\ checkouts' = [checkouts EXCEPT ![c] = [at |-> "session", customer |-> row.customer]]
      /\ checkouts[c].at = "link"
      /\ UNCHANGED <<handlers, made, subs, events, now, paid>>
  BY <1>1 DEF LinkCustomer, Proceeds, provider
<1>3. home \in Orgs /\ rows \in [Orgs -> Record \cup {None}] /\ rows[home] \in Record \cup {None}
  BY BillingAssumption DEF BillingInv, BillingTypes
<1>4. \/ rows[home] # None /\ row = rows[home]
      \/ rows[home] = None /\ row = Unsubscribed(checkouts[c].customer)
  BY <1>1 DEF Linked
<1>5. checkouts[c].customer \in Customers
  BY <1>2 DEF BillingInv, CheckoutInv
<1>6. row \in Record /\ row # None /\ row.customer \in Customers
  BY <1>3, <1>4, <1>5, BillingAssumption DEF Unsubscribed, Record, Statuses
<1>7. BillingTypes'
  BY <1>2, <1>3, <1>6 DEF BillingInv, BillingTypes, Checkout
<1>8. rows'[home] = row /\ \A o \in Orgs : o # home => rows'[o] = rows[o]
  BY <1>2, <1>3
<1>9. Grows
  BY <1>2, <1>3, <1>4, <1>6, <1>8 DEF Grows, BillingInv, BillingTypes
<1>10. \A o \in Orgs : rows'[o] = rows[o] \/ RecordInv(o)'
  <2>1. row = Unsubscribed(checkouts[c].customer) => RecordInv(home)'
    BY <1>8 DEF RecordInv, Unsubscribed
  <2> QED BY <1>4, <1>8, <2>1
<1>11. \A d \in Checkouts : checkouts'[d] = checkouts[d] \/ CheckoutInv(d)'
  BY <1>2, <1>6, <1>8 DEF CheckoutInv, BillingInv, BillingTypes
<1>12. /\ \A s \in Subscriptions : SubscriptionInv(s)'
       /\ \A e \in (Len(events) + 1)..Len(events') : EventInv(events[e])'
       /\ \A h \in Handlers : handlers'[h] = handlers[h]
  BY <1>2 DEF BillingInv, BillingTypes, SubscriptionInv, Paying
<1> QED BY <1>7, <1>9, <1>10, <1>11, <1>12, Growing

--------------------------------------------------------------------------------
(* The provider.                                                              *)

LEMMA TickKeeps == BillingInv /\ Tick => BillingInv'
<1> SUFFICES ASSUME BillingInv, Tick
             PROVE  BillingInv'
  OBVIOUS
<1>1. /\ now' = now + 1
      /\ UNCHANGED <<rows, checkouts, handlers, made, subs, events, paid>>
  BY DEF Tick, server
<1>2. BillingTypes'
  BY <1>1 DEF BillingInv, BillingTypes
<1>3. Grows
  BY <1>1 DEF Grows, BillingInv, BillingTypes
<1>4. \A s \in Subscriptions : SubscriptionInv(s)'
  <2>1. \A s \in Subscriptions : paid[s] \in Nat /\ now \in Nat /\ Period \in Nat
    BY BillingAssumption DEF BillingInv, BillingTypes
  <2> QED BY <1>1, <2>1 DEF BillingInv, SubscriptionInv, Paying
<1>5. \A e \in (Len(events) + 1)..Len(events') : EventInv(events[e])'
  BY <1>1 DEF BillingInv, BillingTypes
<1> QED BY <1>1, <1>2, <1>3, <1>4, <1>5, Growing

\* A change keeps the subscription's customer, and is active at the Pro price only by a payment.
LEMMA ChangesKeep ==
    ASSUME BillingInv, NEW s \in Subscriptions, NEW sub \in Standing,
           NEW type \in {"created", "updated", "deleted"}, Changes(s, sub, type),
           subs[s] # None => sub.customer = subs[s].customer,
           sub.status = "active" /\ sub.price = "pro" => sub.ends = now + Period,
           checkouts' \in [Checkouts -> Checkout],
           \A c \in Checkouts : checkouts'[c] = checkouts[c] \/ CheckoutInv(c)',
           UNCHANGED <<rows, handlers, made, now>>
    PROVE  BillingInv'
<1>1. PICK event, completed :
         /\ event = [type |-> type, at |-> now, subscription |-> s, customer |-> sub.customer,
                     hint |-> sub.hint, carries |-> sub]
         /\ completed = [type |-> "completed", at |-> now, subscription |-> s,
                         customer |-> sub.customer, hint |-> sub.hint, carries |-> None]
         /\ events' = events \o <<event, completed>> \/ events' = events \o <<event>>
  BY DEF Changes
<1>2. /\ subs' = [subs EXCEPT ![s] = sub]
      /\ paid' = IF sub.status = "active" /\ sub.price = "pro"
                 THEN [paid EXCEPT ![s] = sub.ends] ELSE paid
  BY DEF Changes
<1>3. /\ subs \in [Subscriptions -> Standing \cup {None}] /\ paid \in [Subscriptions -> Nat]
      /\ events \in Seq(EventRecord) /\ now \in Nat /\ Period \in Nat
      /\ sub # None /\ sub.ends \in Nat /\ sub.customer \in Customers
      /\ sub.hint \in Orgs \cup {None}
  BY BillingAssumption DEF BillingInv, BillingTypes, Standing
<1>4. event.subscription = s /\ event.customer = sub.customer /\ event.carries = sub
      /\ completed.subscription = s /\ completed.customer = sub.customer /\ completed.carries = None
  BY <1>1
<1>5. event \in EventRecord /\ completed \in EventRecord
  BY <1>1, <1>3 DEF EventRecord
<1>6. /\ events' \in Seq(EventRecord)
      /\ Len(events) <= Len(events') /\ \A e \in 1..Len(events) : events'[e] = events[e]
      /\ \A e \in (Len(events) + 1)..Len(events') : events'[e] = event \/ events'[e] = completed
  <2>1. CASE events' = events \o <<event>>
    BY <1>3, <1>5, <2>1
  <2>2. CASE events' = events \o <<event, completed>>
    BY <1>3, <1>5, <2>2
  <2> QED BY <1>1, <2>1, <2>2
<1>7. paid[s] <= now + Period
  BY DEF BillingInv, SubscriptionInv
<1>8. /\ subs'[s] = sub /\ \A t \in Subscriptions : t # s => subs'[t] = subs[t] /\ paid'[t] = paid[t]
      /\ paid'[s] = IF sub.status = "active" /\ sub.price = "pro" THEN sub.ends ELSE paid[s]
  BY <1>2, <1>3
<1>9. BillingTypes'
  BY <1>2, <1>3, <1>6 DEF BillingInv, BillingTypes
<1>10. Grows
  <2>1. \A t \in Subscriptions : paid[t] <= paid'[t]
    BY <1>3, <1>7, <1>8
  <2>2. \A t \in Subscriptions : subs[t] # None => subs'[t] # None /\ subs'[t].customer = subs[t].customer
    BY <1>3, <1>8
  <2>3. \A o \in Orgs : rows[o] # None => rows'[o] # None /\ rows'[o].customer = rows[o].customer
    OBVIOUS
  <2> QED BY <1>6, <2>1, <2>2, <2>3 DEF Grows
<1>11. Paying(sub, s)'
  BY <1>3, <1>8 DEF Paying
<1>12. ASSUME NEW t \in Subscriptions
       PROVE  SubscriptionInv(t)'
  <2>1. CASE t = s
    BY <1>3, <1>7, <1>8, <1>11, <2>1 DEF SubscriptionInv, Paying
  <2>2. CASE t # s
    BY <1>8, <2>2 DEF BillingInv, SubscriptionInv, Paying
  <2> QED BY <2>1, <2>2
<1>13. EventInv(event)' /\ EventInv(completed)'
  <2>1. EventInv(event)'
    BY <1>3, <1>4, <1>8, <1>11 DEF EventInv, Paying
  <2>2. EventInv(completed)'
    BY <1>3, <1>4, <1>8 DEF EventInv
  <2> QED BY <2>1, <2>2
<1>14. ASSUME NEW e \in (Len(events) + 1)..Len(events')
       PROVE  EventInv(events[e])'
  BY <1>6, <1>13, <1>14 DEF EventInv, Paying
<1> QED BY <1>9, <1>10, <1>12, <1>14, Growing

LEMMA SubscribeKeeps ==
    ASSUME BillingInv, NEW s \in Subscriptions, NEW c \in Checkouts, Subscribe(s, c)
    PROVE  BillingInv'
<1>1. PICK n : n = [at |-> "done", customer |-> checkouts[c].customer]
  OBVIOUS
<1>2. PICK status \in {"incomplete", "active"} :
         Changes(s, [customer |-> n.customer, hint |-> Home[c], session |-> TRUE, status |-> status,
                     price |-> "pro", ends |-> now + Period], "created")
  BY <1>1 DEF Subscribe
<1>3. PICK sub : sub = [customer |-> n.customer, hint |-> Home[c], session |-> TRUE,
                        status |-> status, price |-> "pro", ends |-> now + Period]
  OBVIOUS
<1>4. /\ subs[s] = None /\ checkouts[c].at = "open"
      /\ checkouts' = [checkouts EXCEPT ![c] = n]
      /\ UNCHANGED <<rows, handlers, made, now>>
  BY <1>1 DEF Subscribe, Proceeds
<1>5. n.customer \in Customers
  BY <1>1, <1>4 DEF BillingInv, CheckoutInv
<1>6. n \in Checkout
  BY <1>1, <1>5 DEF Checkout
<1>7. checkouts' \in [Checkouts -> Checkout] /\ checkouts'[c] = n
      /\ \A d \in Checkouts : d # c => checkouts'[d] = checkouts[d]
  BY <1>4, <1>6 DEF BillingInv, BillingTypes
<1>8. CheckoutInv(c)'
  BY <1>1, <1>4, <1>5, <1>7 DEF BillingInv, CheckoutInv
<1>9. sub \in Standing
  BY <1>3, <1>5, BillingAssumption DEF Standing, Statuses, BillingInv, BillingTypes
<1>10. sub.ends = now + Period
  BY <1>3
<1>11. Changes(s, sub, "created")
  BY <1>2, <1>3
<1>12. \A d \in Checkouts : checkouts'[d] = checkouts[d] \/ CheckoutInv(d)'
  BY <1>7, <1>8
<1> QED BY <1>4, <1>7, <1>9, <1>10, <1>11, <1>12, ChangesKeep

LEMMA SubscribeByHandKeeps ==
    ASSUME BillingInv, NEW s \in Subscriptions, SubscribeByHand(s)
    PROVE  BillingInv'
<1>1. PICK customer \in made, hint \in Orgs \cup {None} :
         Changes(s, [customer |-> customer, hint |-> hint, session |-> FALSE, status |-> "active",
                     price |-> "pro", ends |-> now + Period], "created")
  BY DEF SubscribeByHand
<1>2. PICK sub : sub = [customer |-> customer, hint |-> hint, session |-> FALSE,
                        status |-> "active", price |-> "pro", ends |-> now + Period]
  OBVIOUS
<1>3. sub \in Standing
  BY <1>2, BillingAssumption DEF Standing, Statuses, BillingInv, BillingTypes
<1>4. sub.ends = now + Period
  BY <1>2
<1>5. Changes(s, sub, "created")
  BY <1>1, <1>2
<1>6. subs[s] = None /\ UNCHANGED <<rows, checkouts, handlers, made, now>>
  BY DEF SubscribeByHand, server
<1>7. checkouts' \in [Checkouts -> Checkout]
  BY <1>6 DEF BillingInv, BillingTypes
<1> QED BY <1>3, <1>4, <1>5, <1>6, <1>7, ChangesKeep

LEMMA UpdateKeeps ==
    ASSUME BillingInv, NEW s \in Subscriptions, Update(s)
    PROVE  BillingInv'
<1>1. PICK old : old = subs[s]
  OBVIOUS
<1>2. old \in Standing
  BY <1>1 DEF Update, BillingInv, BillingTypes
<1>3. /\ old.customer \in Customers /\ old.hint \in Orgs \cup {None} /\ old.session \in BOOLEAN
      /\ old.status \in Statuses /\ old.price \in {"pro", "other"} /\ old.ends \in Nat
      /\ now \in Nat /\ Period \in Nat
  BY <1>2, BillingAssumption DEF Standing, BillingInv, BillingTypes
<1>4. UNCHANGED <<rows, checkouts, handlers, made, now>> /\ checkouts' \in [Checkouts -> Checkout]
  BY DEF Update, server, BillingInv, BillingTypes
<1> DEFINE to(status, price, ends) ==
             [customer |-> old.customer, hint |-> old.hint, session |-> old.session,
              status |-> status, price |-> price, ends |-> ends]
<1>5. PICK sub : \E type \in {"updated", "deleted"} :
         /\ Changes(s, sub, type)
         /\ \/ sub = [old EXCEPT !.status = "active", !.ends = now + Period]
            \/ sub = [old EXCEPT !.status = "past_due"]
            \/ sub = [old EXCEPT !.price = "other"]
            \/ sub = [old EXCEPT !.status = "canceled"]
  BY <1>1 DEF Update
<1>6. \/ sub = to("active", old.price, now + Period)
      \/ sub = to("past_due", old.price, old.ends)
      \/ sub = to(old.status, "other", old.ends)
      \/ sub = to("canceled", old.price, old.ends)
  BY <1>2, <1>5 DEF Standing
<1>7. sub \in Standing
  BY <1>3, <1>6 DEF Standing, Statuses
<1>8. /\ sub.customer = old.customer
      /\ sub.status = "active" /\ sub.price = "pro" => sub.ends = now + Period
  BY <1>6
<1> QED BY <1>1, <1>4, <1>5, <1>7, <1>8, ChangesKeep

--------------------------------------------------------------------------------
(* Webhooks.                                                                  *)

LEMMA HandlerMoves ==
    ASSUME BillingInv, NEW h \in Handlers, NEW n \in Handler \cup {Free},
           handlers' = [handlers EXCEPT ![h] = n], HandlerInv(h)',
           UNCHANGED <<rows, checkouts, made, subs, events, now, paid>>
    PROVE  BillingInv'
<1>1. BillingTypes'
  BY DEF BillingInv, BillingTypes
<1>2. \A i \in Handlers : handlers'[i] = handlers[i] \/ HandlerInv(i)'
  BY DEF BillingInv, BillingTypes
<1> QED BY <1>1, <1>2, Staying

LEMMA FreeKeeps ==
    ASSUME BillingInv, NEW h \in Handlers, handlers' = [handlers EXCEPT ![h] = Free],
           UNCHANGED <<rows, checkouts, made, subs, events, now, paid>>
    PROVE  BillingInv'
<1>1. HandlerInv(h)'
  BY DEF HandlerInv, Free, BillingInv, BillingTypes
<1> QED BY <1>1, HandlerMoves

\* What is known of a handler at work, and of the event it handles.
LEMMA Working ==
    ASSUME BillingInv, NEW h \in Handlers, handlers[h].at # "idle"
    PROVE  /\ handlers[h] \in Handler /\ handlers[h].event \in 1..Len(events)
           /\ Event(h) \in EventRecord /\ EventInv(Event(h)) /\ HandlerInv(h)
<1>1. handlers[h] \in Handler
  BY DEF BillingInv, BillingTypes, Free
<1>2. handlers[h].event \in 1..Len(events) /\ HandlerInv(h)
  BY DEF BillingInv, HandlerInv
<1>3. events[handlers[h].event] \in EventRecord /\ EventInv(events[handlers[h].event])
  BY <1>2 DEF BillingInv, BillingTypes
<1> QED BY <1>1, <1>2, <1>3 DEF Event

LEMMA DeliverKeeps ==
    ASSUME BillingInv, NEW h \in Handlers, NEW e, Deliver(h, e)
    PROVE  BillingInv'
<1>1. PICK n : n = [at |-> "claim", event |-> e, owner |-> None, found |-> None]
  OBVIOUS
<1>2. handlers' = [handlers EXCEPT ![h] = n] /\ e \in DOMAIN events
      /\ UNCHANGED <<rows, checkouts, made, subs, events, now, paid>>
  BY <1>1 DEF Deliver, provider
<1>3. e \in 1..Len(events) /\ e \in Nat
  BY <1>2 DEF BillingInv, BillingTypes
<1>4. n \in Handler
  BY <1>1, <1>3 DEF Handler
<1>5. HandlerInv(h)'
  BY <1>1, <1>2, <1>3 DEF HandlerInv, BillingInv, BillingTypes
<1> QED BY <1>2, <1>4, <1>5, HandlerMoves

\* Between its reads and its writes, a handler moves on with what it has.
LEMMA StepKeeps ==
    ASSUME BillingInv, NEW h \in Handlers, handlers[h].at # "idle", NEW at \in {"resolve", "release"},
           handlers' = [handlers EXCEPT ![h].at = at],
           UNCHANGED <<rows, checkouts, made, subs, events, now, paid>>
    PROVE  BillingInv'
<1>1. PICK n : n = [at |-> at, event |-> handlers[h].event, owner |-> handlers[h].owner,
                    found |-> handlers[h].found]
  OBVIOUS
<1>2. handlers[h] \in Handler /\ handlers[h].event \in 1..Len(events)
  BY Working
<1>3. n \in Handler /\ handlers' = [handlers EXCEPT ![h] = n]
  <2>1. PICK old : old = handlers[h] /\ old \in Handler
    BY <1>2
  <2>2. [old EXCEPT !.at = at] = n
    BY <1>1, <2>1 DEF Handler
  <2>3. n \in Handler
    BY <1>1, <1>2 DEF Handler
  <2> QED BY <2>1, <2>2, <2>3
<1>4. HandlerInv(h)'
  BY <1>1, <1>2, <1>3 DEF HandlerInv, BillingInv, BillingTypes
<1> QED BY <1>3, <1>4, HandlerMoves

LEMMA ClaimKeeps ==
    ASSUME BillingInv, NEW h \in Handlers, ClaimEvent(h)
    PROVE  BillingInv'
<1>1. UNCHANGED <<rows, checkouts, made, subs, events, now, paid>> /\ handlers[h].at = "claim"
  BY DEF ClaimEvent, provider
<1>2. CASE Claimed(handlers[h].event)
  BY <1>1, <1>2, FreeKeeps DEF ClaimEvent, Answers
<1>3. CASE ~Claimed(handlers[h].event)
  BY <1>1, <1>3, StepKeeps DEF ClaimEvent
<1> QED BY <1>2, <1>3

\* The owner that is found is known by the event's customer: so is whoever it was stored for, and
\* the owner of its subscription.
LEMMA OwnersArePayers ==
    ASSUME BillingInv, NEW event \in EventRecord, EventInv(event), NEW o \in Owners(event)
    PROVE  o \in Orgs /\ rows[o] # None /\ rows[o].customer = event.customer
<1>1. o \in Orgs /\ rows[o] # None
      /\ (rows[o].customer = event.customer \/ rows[o].subscription = event.subscription)
  BY DEF Owners
<1>2. CASE rows[o].subscription = event.subscription
  <2>1. event.subscription \in Subscriptions /\ event.subscription # None
    BY BillingAssumption DEF EventRecord
  <2>2. subs[event.subscription].customer = rows[o].customer
    BY <1>1, <1>2, <2>1 DEF BillingInv, RecordInv
  <2> QED BY <1>1, <2>2 DEF EventInv
<1> QED BY <1>1, <1>2

LEMMA ResolveKeeps ==
    ASSUME BillingInv, NEW h \in Handlers, ResolveOwner(h)
    PROVE  BillingInv'
<1>1. UNCHANGED <<rows, checkouts, made, subs, events, now, paid>> /\ handlers[h].at = "resolve"
  BY DEF ResolveOwner, provider
<1>2. CASE Answers(h)
  BY <1>1, <1>2, FreeKeeps DEF Answers
<1>3. ASSUME NEW o \in Owners(Event(h)),
             Takes(h, IF Event(h).carries = None THEN "fetch" ELSE "save", o, Event(h).carries)
      PROVE  BillingInv'
  <2>1. PICK event : event = Event(h)
    OBVIOUS
  <2>2. /\ handlers[h] \in Handler /\ handlers[h].event \in 1..Len(events)
        /\ event \in EventRecord /\ EventInv(event)
    BY <1>1, <2>1, Working
  <2>3. o \in Orgs /\ rows[o] # None /\ rows[o].customer = event.customer
    BY <1>3, <2>1, <2>2, OwnersArePayers
  <2>4. PICK n : n = [at |-> IF event.carries = None THEN "fetch" ELSE "save",
                      event |-> handlers[h].event, owner |-> o, found |-> event.carries]
    OBVIOUS
  <2>5. handlers' = [handlers EXCEPT ![h] = n]
    BY <1>3, <2>1, <2>4 DEF Takes
  <2>6. event.carries \in Standing \cup {None} /\ event.subscription \in Subscriptions
    BY <2>2 DEF EventRecord
  <2>7. n \in Handler
    BY <2>2, <2>3, <2>4, <2>6 DEF Handler
  <2>8. handlers'[h] = n /\ events'[n.event] = event
    BY <1>1, <2>1, <2>4, <2>5 DEF Event, BillingInv, BillingTypes
  <2>9. event.carries # None => Paying(event.carries, event.subscription)'
    BY <1>1, <2>2 DEF EventInv, Paying
  <2>10. HandlerInv(h)'
    BY <1>1, <2>2, <2>3, <2>4, <2>6, <2>8, <2>9 DEF HandlerInv, Event, Paying
  <2> QED BY <1>1, <2>5, <2>7, <2>10, HandlerMoves
<1> QED BY <1>2, <1>3 DEF ResolveOwner

LEMMA FetchKeeps ==
    ASSUME BillingInv, NEW h \in Handlers, FetchSubscription(h)
    PROVE  BillingInv'
<1>1. UNCHANGED <<rows, checkouts, made, subs, events, now, paid>> /\ handlers[h].at = "fetch"
  BY DEF FetchSubscription, provider
<1>2. PICK event : event = Event(h)
  OBVIOUS
<1>3. PICK s : s = event.subscription
  OBVIOUS
<1>4. /\ handlers[h] \in Handler /\ handlers[h].event \in 1..Len(events)
      /\ event \in EventRecord /\ EventInv(event) /\ HandlerInv(h)
  BY <1>1, <1>2, Working
<1>5. PICK n : n = [at |-> "save", event |-> handlers[h].event, owner |-> handlers[h].owner,
                    found |-> subs[s]]
  OBVIOUS
<1>6. s \in Subscriptions /\ subs[s] # None
  BY <1>3, <1>4 DEF EventInv, EventRecord
<1>7. subs[s] \in Standing /\ Paying(subs[s], s)
  BY <1>6 DEF BillingInv, BillingTypes, SubscriptionInv
<1>8. handlers' = [handlers EXCEPT ![h] = n]
  BY <1>2, <1>3, <1>5 DEF FetchSubscription, Takes
<1>9. n \in Handler
  BY <1>4, <1>5, <1>7 DEF Handler
<1>10. handlers'[h] = n /\ events'[n.event] = event
  BY <1>1, <1>2, <1>5, <1>8 DEF Event, BillingInv, BillingTypes
<1>11. n.owner \in Orgs /\ rows'[n.owner] # None /\ rows'[n.owner].customer = event.customer
  BY <1>1, <1>2, <1>4, <1>5 DEF HandlerInv
<1>12. n.found \in Standing /\ Paying(n.found, s)'
  BY <1>1, <1>5, <1>7 DEF Paying
<1>13. HandlerInv(h)'
  BY <1>1, <1>3, <1>4, <1>5, <1>10, <1>11, <1>12 DEF HandlerInv, Event, Paying
<1> QED BY <1>1, <1>8, <1>9, <1>13, HandlerMoves

\* What is written is of the owner's own customer, and grants what that one paid for.
LEMMA SaveKeeps ==
    ASSUME BillingInv, NEW h \in Handlers, SaveProviderState(h)
    PROVE  BillingInv'
<1>1. /\ UNCHANGED <<checkouts, made, subs, events, now, paid>> /\ handlers[h].at = "save"
      /\ handlers' = [handlers EXCEPT ![h] = Free]
  BY DEF SaveProviderState, Answers, provider
<1>2. PICK event : event = Event(h)
  OBVIOUS
<1>3. PICK o, sub : o = handlers[h].owner /\ sub = handlers[h].found
  OBVIOUS
<1>4. /\ event \in EventRecord /\ EventInv(event)
      /\ o \in Orgs /\ rows[o] # None /\ rows[o].customer = event.customer
      /\ sub \in Standing /\ Paying(sub, event.subscription)
  BY <1>1, <1>2, <1>3, Working DEF HandlerInv
<1>5. CASE UNCHANGED rows
  BY <1>1, <1>5, FreeKeeps
<1>6. ASSUME rows' = [rows EXCEPT ![o] = Synced(rows[o], event, sub)]
      PROVE  BillingInv'
  <2>1. PICK old : old = rows[o] /\ old \in Record
    BY <1>4 DEF BillingInv, BillingTypes
  <2>2. PICK new : new = [customer |-> old.customer, subscription |-> event.subscription,
                          status |-> IF event.type = "deleted" THEN "canceled" ELSE sub.status,
                          plan |-> IF event.type = "deleted" THEN "free" ELSE planForPriceId(sub.price),
                          ends |-> sub.ends, lastEventAt |-> event.at]
    OBVIOUS
  <2>3. /\ event.subscription \in Subscriptions /\ event.subscription # None /\ event.at \in Nat
        /\ sub.status \in Statuses /\ sub.ends \in Nat /\ sub.price \in {"pro", "other"}
        /\ old.customer \in Customers /\ "canceled" \in Statuses
    BY <1>4, <2>1, BillingAssumption DEF EventRecord, Standing, Record, Statuses
  <2>4. Synced(old, event, sub) = new
    BY <2>1, <2>2 DEF Synced, Record
  <2>5. new \in Record /\ new # None /\ new.customer = old.customer
    BY <2>2, <2>3, BillingAssumption DEF Record, planForPriceId
  <2>6. rows'[o] = new /\ \A q \in Orgs : q # o => rows'[q] = rows[q]
    BY <1>4, <1>6, <2>1, <2>4 DEF BillingInv, BillingTypes
  <2>7. BillingTypes'
    BY <1>1, <1>6, <2>1, <2>4, <2>5 DEF BillingInv, BillingTypes
  <2>8. Grows
    BY <1>1, <2>1, <2>5, <2>6 DEF Grows, BillingInv, BillingTypes
  <2>9. RecordInv(o)'
    <3>1. new.subscription = event.subscription /\ new.ends = sub.ends
      BY <2>2
    <3>2. new.status = "active" /\ new.plan = "pro" => sub.ends <= paid[event.subscription]
      BY <1>4, <2>2, <2>3 DEF Paying, planForPriceId
    <3> QED BY <1>1, <1>4, <2>1, <2>3, <2>5, <2>6, <3>1, <3>2 DEF RecordInv, EventInv
  <2>10. \A i \in Handlers : handlers'[i] = handlers[i] \/ HandlerInv(i)'
    BY <1>1 DEF HandlerInv, Free, BillingInv, BillingTypes
  <2>11. /\ \A s \in Subscriptions : SubscriptionInv(s)'
         /\ \A e \in (Len(events) + 1)..Len(events') : EventInv(events[e])'
    BY <1>1 DEF BillingInv, BillingTypes, SubscriptionInv, Paying
  <2> QED BY <1>1, <2>6, <2>7, <2>8, <2>9, <2>10, <2>11, Growing
<1> QED BY <1>2, <1>3, <1>5, <1>6 DEF SaveProviderState

LEMMA StepFailsKeeps ==
    ASSUME BillingInv, NEW h \in Handlers, StepFails(h)
    PROVE  BillingInv'
<1>1. UNCHANGED <<rows, checkouts, made, subs, events, now, paid>> /\ handlers[h].at # "idle"
  BY DEF StepFails, provider
<1>2. CASE handlers' = [handlers EXCEPT ![h] = Free]
  BY <1>1, <1>2, FreeKeeps
<1>3. CASE handlers' = [handlers EXCEPT ![h].at = "release"]
  BY <1>1, <1>3, StepKeeps
<1> QED BY <1>2, <1>3 DEF StepFails

LEMMA ReleaseKeeps ==
    ASSUME BillingInv, NEW h \in Handlers, ReleaseEvent(h)
    PROVE  BillingInv'
  BY FreeKeeps DEF ReleaseEvent, provider

LEMMA CrashKeeps == BillingInv /\ Crash => BillingInv'
<1> SUFFICES ASSUME BillingInv, Crash
             PROVE  BillingInv'
  OBVIOUS
<1>1. /\ UNCHANGED <<rows, made, subs, events, now, paid>>
      /\ handlers' = [h \in Handlers |-> Free]
  BY DEF Crash, provider
<1>2. PICK n : n = [at |-> "new", customer |-> None]
  OBVIOUS
<1>3. /\ n \in Checkout
      /\ checkouts' = [c \in Checkouts |-> IF checkouts[c].at \in {"customer", "link", "session"}
                                           THEN n ELSE checkouts[c]]
  BY <1>2 DEF Crash, Checkout
<1>4. BillingTypes'
  BY <1>1, <1>3 DEF BillingInv, BillingTypes
<1>5. \A c \in Checkouts : checkouts'[c] = checkouts[c] \/ checkouts'[c] = n
  BY <1>3
<1>6. \A c \in Checkouts : checkouts'[c] = checkouts[c] \/ CheckoutInv(c)'
  BY <1>2, <1>5 DEF CheckoutInv
<1>7. \A h \in Handlers : HandlerInv(h)'
  BY <1>1 DEF HandlerInv, Free
<1> QED BY <1>1, <1>4, <1>6, <1>7, Staying

--------------------------------------------------------------------------------
LEMMA BillingStep == BillingInv /\ [Next]_vars => BillingInv'
<1> SUFFICES ASSUME BillingInv, [Next]_vars
             PROVE  BillingInv'
  OBVIOUS
<1>1. CASE UNCHANGED vars
  <2>1. UNCHANGED <<rows, checkouts, handlers, made, subs, events, now, paid>>
    BY <1>1 DEF vars, server, provider
  <2>2. BillingTypes'
    BY <2>1 DEF BillingInv, BillingTypes
  <2> QED BY <2>1, <2>2, Staying
<1>2. CASE Tick \/ Crash
  BY <1>2, TickKeeps, CrashKeeps
<1>3. ASSUME NEW c \in Checkouts,
             StartCheckout(c) \/ CreateCustomer(c) \/ LinkCustomer(c) \/ OpenSession(c)
               \/ CheckoutFails(c) \/ \E s \in Subscriptions : Subscribe(s, c)
      PROVE  BillingInv'
  BY <1>3, StartKeeps, CreateKeeps, LinkKeeps, OpenKeeps, FailedCheckoutKeeps, SubscribeKeeps
<1>4. ASSUME NEW s \in Subscriptions, SubscribeByHand(s) \/ Update(s)
      PROVE  BillingInv'
  BY <1>4, SubscribeByHandKeeps, UpdateKeeps
<1>5. ASSUME NEW h \in Handlers,
             Handle(h) \/ StepFails(h) \/ \E e \in 1..MaxEvents : Deliver(h, e)
      PROVE  BillingInv'
  <2>1. CASE Handle(h)
    BY <2>1, ClaimKeeps, ResolveKeeps, FetchKeeps, SaveKeeps, ReleaseKeeps DEF Handle
  <2>2. CASE StepFails(h)
    BY <2>2, StepFailsKeeps
  <2>3. CASE \E e \in 1..MaxEvents : Deliver(h, e)
    BY <2>3, DeliverKeeps
  <2> QED BY <1>5, <2>1, <2>2, <2>3
<1> QED BY <1>1, <1>2, <1>3, <1>4, <1>5 DEF Next

LEMMA BillingHolds == Spec => []BillingInv
  BY BillingInit, BillingStep, PTL DEF Spec

\* Whatever is lost, late, repeated, misrouted or applied out of order (handleWebhook), an
\* organization has Pro only for time that was paid at the Pro price through its own customer.
THEOREM NothingGrantedUnpaid == Spec => []NothingUnpaid
<1>1. BillingInv => NothingUnpaid
  <2> SUFFICES ASSUME BillingInv, NEW o \in Orgs, entitledPlanFor(o) = "pro"
               PROVE  \E s \in Subscriptions :
                        subs[s] # None /\ subs[s].customer = rows[o].customer /\ paid[s] > now
    BY DEF NothingUnpaid
  <2>1. PICK row : row = rows[o]
    OBVIOUS
  <2>2. row # None /\ row.status = "active" /\ row.plan = "pro" /\ row.ends > now
    BY <2>1 DEF entitledPlanFor
  <2>3. row \in Record /\ row.ends \in Nat /\ now \in Nat
    BY <2>1, <2>2 DEF BillingInv, BillingTypes, Record
  <2>4. row.subscription \in Subscriptions \cup {None}
    BY <2>3 DEF Record
  <2>5. /\ row.subscription # None /\ row.ends <= paid[row.subscription]
        /\ subs[row.subscription] # None /\ subs[row.subscription].customer = row.customer
    BY <2>1, <2>2 DEF BillingInv, RecordInv
  <2>6. row.subscription \in Subscriptions /\ paid[row.subscription] \in Nat
    BY <2>4, <2>5 DEF BillingInv, BillingTypes
  <2> QED BY <2>1, <2>2, <2>3, <2>5, <2>6
<1> QED BY <1>1, BillingHolds, PTL

\* However many first checkouts of an organization run at once (ensureCustomer), every page it can
\* pay on is of the customer that its webhooks are resolved by.
THEOREM SessionsStayOurs == Spec => []SessionsAreOurs
<1>1. BillingInv => SessionsAreOurs
  BY DEF BillingInv, CheckoutInv, SessionsAreOurs
<1> QED BY <1>1, BillingHolds, PTL

--------------------------------------------------------------------------------
(* The provider's tale: events are in order, and the last that carries a      *)
(* subscription carries it as it stands.                                      *)

Latest(s, l) ==
    /\ events[l].subscription = s /\ events[l].carries = subs[s]
    /\ \A e \in 1..Len(events) : events[e].subscription = s /\ events[e].carries # None => e <= l

EventTold(event) ==
    /\ event.at \in 1..now /\ event.hint = subs[event.subscription].hint
    /\ event.type = "completed" <=> event.carries = None
    /\ event.carries # None => (event.type = "deleted" <=> event.carries.status = "canceled")
    /\ event.carries = None => \E c \in 1..Len(events) :
         events[c].type = "created" /\ events[c].subscription = event.subscription /\ events[c].at = event.at

ToldInv ==
    /\ 1 <= now
    /\ \A i, j \in 1..Len(events) : i <= j => events[i].at <= events[j].at
    /\ \A e \in 1..Len(events) : EventTold(events[e])
    /\ \A s \in Subscriptions : subs[s] # None => \E l \in 1..Len(events) : Latest(s, l)

\* What an event of a change says.
Says(event, what, s, sub, carries) ==
    /\ event.type = what /\ event.at = now /\ event.subscription = s
    /\ event.customer = sub.customer /\ event.hint = sub.hint /\ event.carries = carries

Types == {"created", "updated", "deleted"}

\* What Subscribe, SubscribeByHand and Update have in common.
Change(s, sub, type) ==
    /\ Changes(s, sub, type)
    /\ subs[s] = None <=> type = "created"
    /\ type = "deleted" <=> sub.status = "canceled"
    /\ subs[s] # None => sub.customer = subs[s].customer /\ sub.hint = subs[s].hint

LEMMA ChangeTells ==
    ASSUME BillingInv, NEW s \in Subscriptions, NEW sub \in Standing, NEW type \in Types,
           Change(s, sub, type)
    PROVE  /\ Len(events) \in Nat /\ Len(events') \in Nat /\ Len(events) + 1 <= Len(events')
           /\ \A e \in 1..Len(events) : events'[e] = events[e]
           /\ Says(events'[Len(events) + 1], type, s, sub, sub)
           /\ \A e \in (Len(events) + 2)..Len(events') :
                type = "created" /\ Says(events'[e], "completed", s, sub, None)
           /\ subs'[s] = sub /\ \A t \in Subscriptions : t # s => subs'[t] = subs[t]
<1>1. PICK event, completed :
         /\ event = [type |-> type, at |-> now, subscription |-> s, customer |-> sub.customer,
                     hint |-> sub.hint, carries |-> sub]
         /\ completed = [type |-> "completed", at |-> now, subscription |-> s,
                         customer |-> sub.customer, hint |-> sub.hint, carries |-> None]
         /\ \/ type = "created" /\ events' = events \o <<event, completed>>
            \/ events' = events \o <<event>>
  BY DEF Change, Changes
<1>2. events \in Seq(EventRecord) /\ subs \in [Subscriptions -> Standing \cup {None}]
  BY DEF BillingInv, BillingTypes
<1>3. subs'[s] = sub /\ \A t \in Subscriptions : t # s => subs'[t] = subs[t]
  BY <1>2 DEF Change, Changes
<1>4. Says(event, type, s, sub, sub) /\ Says(completed, "completed", s, sub, None)
  BY <1>1 DEF Says
<1>5. event \in EventRecord /\ completed \in EventRecord
  BY <1>1, BillingAssumption DEF EventRecord, Standing, Types, BillingInv, BillingTypes
<1> DEFINE n == Len(events)
<1>6. n \in Nat
  BY <1>2
<1>7. CASE events' = events \o <<event>>
  <2>1. Len(events') = n + 1 /\ events'[n + 1] = event /\ \A e \in 1..n : events'[e] = events[e]
    BY <1>2, <1>5, <1>7
  <2> QED BY <1>3, <1>4, <1>6, <2>1
<1>8. CASE type = "created" /\ events' = events \o <<event, completed>>
  <2>1. /\ Len(events') = n + 2 /\ events'[n + 1] = event /\ events'[n + 2] = completed
        /\ \A e \in 1..n : events'[e] = events[e]
    BY <1>2, <1>5, <1>8
  <2>2. \A e \in (n + 2)..Len(events') : e = n + 2
    BY <1>6, <2>1
  <2> QED BY <1>3, <1>4, <1>6, <1>8, <2>1, <2>2
<1> QED BY <1>1, <1>7, <1>8

\* Whose customer a new subscription is of: one that is stored, or one that no checkout is about to store.
Known(customer) ==
    \/ \E o \in Orgs : rows[o] # None /\ rows[o].customer = customer
    \/ customer \in made /\ \A c \in Checkouts : checkouts[c].at # "link" \/ checkouts[c].customer # customer

LEMMA SubscribeChanges ==
    ASSUME BillingInv, NEW s \in Subscriptions, NEW c \in Checkouts, Subscribe(s, c)
    PROVE  /\ \E sub \in Standing, type \in Types : Change(s, sub, type) /\ Known(sub.customer)
           /\ UNCHANGED <<now, made, rows, handlers, claims, answered, stranded, raced, troubles>>
           /\ \A d \in Checkouts : checkouts'[d].at = "link" => checkouts'[d] = checkouts[d]
<1>1. PICK customer : customer = checkouts[c].customer
  OBVIOUS
<1>2. PICK status \in {"incomplete", "active"} :
         Changes(s, [customer |-> customer, hint |-> Home[c], session |-> TRUE, status |-> status,
                     price |-> "pro", ends |-> now + Period], "created")
  BY <1>1 DEF Subscribe
<1>3. PICK sub : sub = [customer |-> customer, hint |-> Home[c], session |-> TRUE,
                        status |-> status, price |-> "pro", ends |-> now + Period]
  OBVIOUS
<1>4. /\ customer \in Customers /\ Home[c] \in Orgs
      /\ rows[Home[c]] # None /\ rows[Home[c]].customer = customer
  BY <1>1, BillingAssumption DEF Subscribe, BillingInv, CheckoutInv
<1>5. sub \in Standing /\ sub.customer = customer /\ sub.status # "canceled"
  BY <1>2, <1>3, <1>4, BillingAssumption DEF Standing, Statuses, BillingInv, BillingTypes
<1>6. Change(s, sub, "created") /\ Known(sub.customer)
  BY <1>2, <1>3, <1>4, <1>5 DEF Change, Known, Subscribe
<1>7. \A d \in Checkouts : checkouts'[d].at = "link" => checkouts'[d] = checkouts[d]
  BY DEF Subscribe, Proceeds, BillingInv, BillingTypes
<1> QED BY <1>5, <1>6, <1>7 DEF Subscribe, Types

LEMMA SubscribeByHandChanges ==
    ASSUME BillingInv, NEW s \in Subscriptions, SubscribeByHand(s)
    PROVE  /\ \E sub \in Standing, type \in Types : Change(s, sub, type) /\ Known(sub.customer)
           /\ UNCHANGED <<now, made, server, answered, stranded, raced>>
<1>1. PICK customer \in made, hint \in Orgs \cup {None} :
         /\ \A c \in Checkouts : checkouts[c].at # "link" \/ checkouts[c].customer # customer
         /\ Changes(s, [customer |-> customer, hint |-> hint, session |-> FALSE, status |-> "active",
                        price |-> "pro", ends |-> now + Period], "created")
  BY DEF SubscribeByHand
<1>2. PICK sub : sub = [customer |-> customer, hint |-> hint, session |-> FALSE,
                        status |-> "active", price |-> "pro", ends |-> now + Period]
  OBVIOUS
<1>3. sub \in Standing /\ sub.customer = customer /\ sub.status # "canceled"
  BY <1>2, BillingAssumption DEF Standing, Statuses, BillingInv, BillingTypes
<1>4. Change(s, sub, "created") /\ Known(sub.customer)
  BY <1>1, <1>2, <1>3 DEF Change, Known, SubscribeByHand
<1> QED BY <1>3, <1>4 DEF SubscribeByHand, Types

LEMMA UpdateChanges ==
    ASSUME BillingInv, NEW s \in Subscriptions, Update(s)
    PROVE  /\ \E sub \in Standing, type \in Types : Change(s, sub, type) /\ subs[s] # None
           /\ UNCHANGED <<now, made, server, answered, stranded, raced, troubles>>
<1>1. PICK old : old = subs[s]
  OBVIOUS
<1>2. old \in Standing /\ old # None /\ old.status # "canceled"
  BY <1>1 DEF Update, BillingInv, BillingTypes
<1>3. /\ old.customer \in Customers /\ old.hint \in Orgs \cup {None} /\ old.session \in BOOLEAN
      /\ old.status \in Statuses /\ old.price \in {"pro", "other"} /\ old.ends \in Nat
      /\ now \in Nat /\ Period \in Nat
  BY <1>2, BillingAssumption DEF Standing, BillingInv, BillingTypes
<1> DEFINE to(status, price, ends) ==
             [customer |-> old.customer, hint |-> old.hint, session |-> old.session,
              status |-> status, price |-> price, ends |-> ends]
<1>4. PICK sub, type :
         /\ Changes(s, sub, type)
         /\ \/ type = "updated" /\ sub = [old EXCEPT !.status = "active", !.ends = now + Period]
            \/ type = "updated" /\ sub = [old EXCEPT !.status = "past_due"]
            \/ type = "updated" /\ sub = [old EXCEPT !.price = "other"]
            \/ type = "deleted" /\ sub = [old EXCEPT !.status = "canceled"]
  BY <1>1 DEF Update
<1>5. \/ type = "updated" /\ sub = to("active", old.price, now + Period)
      \/ type = "updated" /\ sub = to("past_due", old.price, old.ends)
      \/ type = "updated" /\ sub = to(old.status, "other", old.ends)
      \/ type = "deleted" /\ sub = to("canceled", old.price, old.ends)
  BY <1>2, <1>4 DEF Standing
<1>6. sub \in Standing /\ type \in Types
  BY <1>3, <1>5 DEF Standing, Statuses, Types
<1>7. /\ sub.customer = old.customer /\ sub.hint = old.hint
      /\ type = "deleted" <=> sub.status = "canceled"
      /\ type # "created"
  BY <1>2, <1>5
<1>8. Change(s, sub, type) /\ subs[s] # None
  BY <1>1, <1>2, <1>4, <1>7 DEF Change
<1> QED BY <1>6, <1>8 DEF Update

LEMMA ToldInit == Init => ToldInv
  BY DEF Init, ToldInv

\* An event that stands, stays as it was told.
LEMMA EventToldStays ==
    ASSUME BillingInv, BillingInv', NEW event \in EventRecord, EventInv(event), EventTold(event),
           now <= now', subs[event.subscription] # None =>
             subs'[event.subscription].hint = subs[event.subscription].hint,
           Len(events) <= Len(events'), \A e \in 1..Len(events) : events'[e] = events[e]
    PROVE  EventTold(event)'
<1>1. Len(events) \in Nat /\ Len(events') \in Nat /\ now \in Nat /\ now' \in Nat
  BY DEF BillingInv, BillingTypes
<1>2. event.at \in 1..now' /\ event.hint = subs'[event.subscription].hint
  BY <1>1 DEF EventTold, EventInv
<1>3. event.carries = None => \E c \in 1..Len(events') :
        /\ events'[c].type = "created" /\ events'[c].subscription = event.subscription
        /\ events'[c].at = event.at
  BY <1>1 DEF EventTold
<1> QED BY <1>2, <1>3 DEF EventTold

LEMMA TickTells ==
    ASSUME BillingInv, BillingInv', ToldInv, UNCHANGED <<subs, events>>, now <= now'
    PROVE  ToldInv'
<1>1. now \in Nat /\ now' \in Nat /\ events \in Seq(EventRecord)
  BY DEF BillingInv, BillingTypes
<1>2. ASSUME NEW e \in 1..Len(events')
      PROVE  EventTold(events[e])'
  <2>1. PICK event : event = events[e] /\ event = events'[e]
    OBVIOUS
  <2>2. event \in EventRecord /\ EventInv(event) /\ EventTold(event)
    BY <1>1, <2>1 DEF BillingInv, ToldInv
  <2>3. EventTold(event)'
    BY <1>1, <2>2, EventToldStays
  <2> QED BY <2>1, <2>3 DEF EventTold
<1>3. \A s \in Subscriptions : subs'[s] # None => \E l \in 1..Len(events') : Latest(s, l)'
  BY DEF ToldInv, Latest
<1> QED BY <1>1, <1>2, <1>3 DEF ToldInv

LEMMA ChangeIsTold ==
    ASSUME BillingInv, BillingInv', ToldInv, NEW s \in Subscriptions, NEW sub \in Standing,
           NEW type \in Types, Change(s, sub, type), UNCHANGED now
    PROVE  ToldInv'
<1> DEFINE n == Len(events)
<1>1. /\ n \in Nat /\ Len(events') \in Nat /\ n + 1 <= Len(events')
      /\ \A e \in 1..n : events'[e] = events[e]
      /\ Says(events'[n + 1], type, s, sub, sub)
      /\ \A e \in (n + 2)..Len(events') :
           type = "created" /\ Says(events'[e], "completed", s, sub, None)
      /\ subs'[s] = sub /\ \A t \in Subscriptions : t # s => subs'[t] = subs[t]
  BY ChangeTells
<1>2. now \in Nat /\ 1 <= now /\ sub # None
  BY BillingAssumption DEF BillingInv, BillingTypes, ToldInv
<1>3. /\ events \in Seq(EventRecord) /\ events' \in Seq(EventRecord)
      /\ subs[s] # None => sub.hint = subs[s].hint
      /\ type = "deleted" <=> sub.status = "canceled"
  BY DEF BillingInv, BillingTypes, Change
<1>4. ASSUME NEW e \in 1..n
      PROVE  EventTold(events[e])' /\ events'[e].at <= now /\ events'[e].at \in Nat
  <2>1. PICK event : event = events[e] /\ event = events'[e]
    BY <1>1
  <2>2. event \in EventRecord /\ EventInv(event) /\ EventTold(event)
    <3>1. e \in 1..Len(events) /\ events[e] \in EventRecord
      BY <1>3
    <3>2. EventInv(events[e]) /\ EventTold(events[e])
      BY <3>1 DEF BillingInv, ToldInv
    <3> QED BY <2>1, <3>1, <3>2
  <2>3. event.subscription \in Subscriptions
    BY <2>2 DEF EventRecord
  <2>4. EventTold(event)'
    BY <1>1, <1>2, <1>3, <2>2, <2>3, EventToldStays
  <2>5. event.at <= now /\ event.at \in Nat
    BY <1>2, <2>2 DEF EventTold
  <2> QED BY <2>1, <2>4, <2>5 DEF EventTold
<1>5. \A e \in (n + 1)..Len(events') : events'[e].at = now /\ events'[e].subscription = s
  <2> TAKE e \in (n + 1)..Len(events')
  <2>1. e = n + 1 \/ e \in (n + 2)..Len(events')
    BY <1>1
  <2> QED BY <1>1, <2>1 DEF Says
<1>6. ASSUME NEW e \in (n + 1)..Len(events')
      PROVE  EventTold(events[e])'
  <2>1. PICK event : event = events'[e]
    OBVIOUS
  <2>2. n + 1 \in 1..Len(events')
    BY <1>1
  <2>3. CASE e = n + 1
    <3>1. Says(event, type, s, sub, sub)
      BY <1>1, <2>1, <2>3
    <3>2. /\ event.at \in 1..now /\ event.hint = subs'[event.subscription].hint
          /\ event.carries = sub /\ event.type = type /\ type # "completed"
      BY <1>1, <1>2, <3>1 DEF Says, Types
    <3> QED BY <1>2, <1>3, <2>1, <3>2 DEF EventTold
  <2>4. CASE e \in (n + 2)..Len(events')
    <3>1. Says(event, "completed", s, sub, None) /\ type = "created"
      BY <1>1, <2>1, <2>4
    <3>2. /\ event.at \in 1..now /\ event.hint = subs'[event.subscription].hint
          /\ event.carries = None /\ event.type = "completed"
      BY <1>1, <1>2, <3>1 DEF Says
    <3>3. /\ events'[n + 1].type = "created" /\ events'[n + 1].subscription = event.subscription
          /\ events'[n + 1].at = event.at
      BY <1>1, <3>1 DEF Says
    <3> QED BY <2>1, <2>2, <3>2, <3>3 DEF EventTold
  <2>5. e = n + 1 \/ e \in (n + 2)..Len(events')
    BY <1>1, <1>6
  <2> QED BY <2>3, <2>4, <2>5
<1>7. \A e \in 1..Len(events') : EventTold(events[e])'
  <2> TAKE e \in 1..Len(events')
  <2>1. e \in 1..n \/ e \in (n + 1)..Len(events')
    BY <1>1
  <2> QED BY <1>4, <1>6, <2>1
<1>8. ASSUME NEW i \in 1..Len(events'), NEW j \in 1..Len(events'), i <= j
      PROVE  events'[i].at <= events'[j].at
  <2>1. CASE j \in 1..n
    <3>1. i \in 1..n
      BY <1>1, <1>8, <2>1
    <3> QED BY <1>1, <1>8, <2>1, <3>1 DEF ToldInv
  <2>2. CASE j \in (n + 1)..Len(events')
    <3>1. events'[j].at = now
      BY <1>5, <2>2
    <3>2. events'[i].at <= now
      BY <1>1, <1>2, <1>4, <1>5
    <3> QED BY <3>1, <3>2
  <2> QED BY <1>1, <2>1, <2>2
<1>9. ASSUME NEW t \in Subscriptions, subs'[t] # None
      PROVE  \E l \in 1..Len(events') : Latest(t, l)'
  <2>1. CASE t = s
    <3>1. n + 1 \in 1..Len(events') /\ events'[n + 1].subscription = s /\ events'[n + 1].carries = subs'[s]
      BY <1>1 DEF Says
    <3>2. \A e \in 1..Len(events') : events'[e].carries # None => e <= n + 1
      <4> TAKE e \in 1..Len(events')
      <4>1. e <= n + 1 \/ e \in (n + 2)..Len(events')
        BY <1>1
      <4> QED BY <1>1, <4>1 DEF Says
    <3> QED BY <2>1, <3>1, <3>2 DEF Latest
  <2>2. CASE t # s
    <3>1. PICK l \in 1..n : Latest(t, l)
      BY <1>1, <1>9, <2>2 DEF ToldInv
    <3>2. l \in 1..Len(events') /\ events'[l].subscription = t /\ events'[l].carries = subs'[t]
      BY <1>1, <2>2, <3>1 DEF Latest
    <3>3. \A e \in 1..Len(events') : events'[e].subscription = t /\ events'[e].carries # None => e <= l
      <4> TAKE e \in 1..Len(events')
      <4>1. CASE e \in 1..n
        BY <1>1, <3>1, <4>1 DEF Latest
      <4>2. CASE e \in (n + 1)..Len(events')
        BY <1>5, <2>2, <4>2
      <4> QED BY <1>1, <4>1, <4>2
    <3> QED BY <3>2, <3>3 DEF Latest
  <2> QED BY <2>1, <2>2
<1> QED BY <1>2, <1>7, <1>8, <1>9 DEF ToldInv

\* The steps by what they do to the provider.
LEMMA ProviderSteps ==
    ASSUME BillingInv, [Next]_vars
    PROVE  \/ UNCHANGED <<subs, events, now>>
           \/ Tick
           \/ \E s \in Subscriptions : SubscribeByHand(s) \/ Update(s) \/ \E c \in Checkouts : Subscribe(s, c)
<1>1. CASE UNCHANGED vars \/ Crash
  BY <1>1 DEF vars, provider, Crash
<1>2. ASSUME NEW c \in Checkouts,
             StartCheckout(c) \/ CreateCustomer(c) \/ LinkCustomer(c) \/ OpenSession(c) \/ CheckoutFails(c)
      PROVE  UNCHANGED <<subs, events, now>>
  BY <1>2 DEF StartCheckout, CreateCustomer, LinkCustomer, OpenSession, CheckoutFails, provider
<1>3. ASSUME NEW h \in Handlers, Handle(h) \/ StepFails(h) \/ \E e \in 1..MaxEvents : Deliver(h, e)
      PROVE  UNCHANGED <<subs, events, now>>
  BY <1>3 DEF Handle, ClaimEvent, ResolveOwner, FetchSubscription, SaveProviderState, ReleaseEvent,
       StepFails, Deliver, provider
<1> QED BY <1>1, <1>2, <1>3 DEF Next

LEMMA ToldStep == BillingInv /\ ToldInv /\ [Next]_vars => ToldInv'
<1> SUFFICES ASSUME BillingInv, ToldInv, [Next]_vars
             PROVE  ToldInv'
  OBVIOUS
<1>1. BillingInv'
  BY BillingStep
<1>2. CASE UNCHANGED <<subs, events, now>> \/ Tick
  <2>1. UNCHANGED <<subs, events>> /\ now <= now'
    BY <1>2 DEF Tick, BillingInv, BillingTypes
  <2> QED BY <1>1, <2>1, TickTells
<1>3. ASSUME NEW s \in Subscriptions, NEW c \in Checkouts, Subscribe(s, c)
      PROVE  ToldInv'
  BY <1>1, <1>3, SubscribeChanges, ChangeIsTold
<1>4. ASSUME NEW s \in Subscriptions, SubscribeByHand(s)
      PROVE  ToldInv'
  BY <1>1, <1>4, SubscribeByHandChanges, ChangeIsTold
<1>5. ASSUME NEW s \in Subscriptions, Update(s)
      PROVE  ToldInv'
  BY <1>1, <1>5, UpdateChanges, ChangeIsTold
<1> QED BY <1>2, <1>3, <1>4, <1>5, ProviderSteps

LEMMA ToldHolds == Spec => []ToldInv
  BY ToldInit, ToldStep, BillingHolds, PTL DEF Spec

--------------------------------------------------------------------------------
(* A customer is one organization's, and a checkout that is about to store    *)
(* one has it to itself.                                                      *)

Linking(c) == checkouts[c].at = "link"

CustomerInv ==
    /\ \A s \in Subscriptions : subs[s] # None => subs[s].customer \in made
    /\ \A o \in Orgs : rows[o] # None => rows[o].customer \in made
    /\ \A o, q \in Orgs : rows[o] # None /\ rows[q] # None /\ rows[o].customer = rows[q].customer => o = q
    /\ \A c \in Checkouts : Linking(c) =>
         /\ checkouts[c].customer \in made
         /\ \A s \in Subscriptions : subs[s] # None => subs[s].customer # checkouts[c].customer
         /\ \A o \in Orgs : rows[o] # None => rows[o].customer # checkouts[c].customer
         /\ \A d \in Checkouts : Linking(d) /\ checkouts[d].customer = checkouts[c].customer => d = c

LEMMA CustomerInit == Init => CustomerInv
  BY DEF Init, CustomerInv, Linking

\* A step that stores no new customer, and subscribes known ones only.
LEMMA CustomersStand ==
    ASSUME CustomerInv, made' = made,
           \A o \in Orgs : rows'[o] # None => rows[o] # None /\ rows'[o].customer = rows[o].customer,
           \A s \in Subscriptions : subs'[s] # None =>
             \/ subs[s] # None /\ subs'[s].customer = subs[s].customer
             \/ Known(subs'[s].customer),
           \A c \in Checkouts : checkouts'[c].at = "link" => checkouts'[c] = checkouts[c]
    PROVE  CustomerInv'
<1>1. ASSUME NEW s \in Subscriptions, subs'[s] # None
      PROVE  /\ subs'[s].customer \in made
             /\ \A c \in Checkouts : Linking(c) => subs'[s].customer # checkouts[c].customer
  BY <1>1 DEF CustomerInv, Known, Linking
<1>2. \A c \in Checkouts : Linking(c)' => Linking(c) /\ checkouts'[c] = checkouts[c]
  BY DEF Linking
<1> QED BY <1>1, <1>2 DEF CustomerInv

LEMMA CreatedIsNew ==
    ASSUME BillingInv, CustomerInv, NEW c \in Checkouts, CreateCustomer(c)
    PROVE  CustomerInv'
<1>1. PICK customer \in Customers \ made :
         made' = made \cup {customer} /\ Proceeds(c, "link", customer)
  BY DEF CreateCustomer
<1>2. checkouts'[c] = [at |-> "link", customer |-> customer] /\ checkouts'[c].customer = customer
      /\ \A d \in Checkouts : d # c => checkouts'[d] = checkouts[d]
  BY <1>1 DEF Proceeds, BillingInv, BillingTypes
<1>3. UNCHANGED <<rows, subs>>
  BY DEF CreateCustomer
<1> QED BY <1>1, <1>2, <1>3 DEF CustomerInv, Linking

LEMMA LinkedIsOwn ==
    ASSUME BillingInv, CustomerInv, NEW c \in Checkouts, LinkCustomer(c)
    PROVE  CustomerInv'
<1>1. PICK home, k : home = Home[c] /\ k = checkouts[c].customer
  OBVIOUS
<1>2. home \in Orgs /\ Linking(c)
  BY <1>1, BillingAssumption DEF LinkCustomer, Linking
<1>3. PICK row : row = Linked(home, k)
  OBVIOUS
<1>4. /\ rows'[home] = row /\ \A o \in Orgs : o # home => rows'[o] = rows[o]
      /\ checkouts'[c].at = "session" /\ \A d \in Checkouts : d # c => checkouts'[d] = checkouts[d]
      /\ UNCHANGED <<made, subs>>
  BY <1>1, <1>2, <1>3 DEF LinkCustomer, Proceeds, provider, BillingInv, BillingTypes
<1>5. \/ rows[home] # None /\ row = rows[home]
      \/ rows[home] = None /\ row.customer = k
  BY <1>3 DEF Linked, Unsubscribed
<1>6. \A d \in Checkouts : Linking(d)' => d # c /\ Linking(d) /\ checkouts'[d] = checkouts[d]
  BY <1>4 DEF Linking
<1>7. CASE rows[home] # None /\ row = rows[home]
  <2>1. \A o \in Orgs : rows'[o] = rows[o]
    BY <1>4, <1>7
  <2> QED BY <1>4, <1>6, <2>1 DEF CustomerInv
<1>8. CASE rows[home] = None /\ row.customer = k
  <2>1. /\ k \in made /\ \A s \in Subscriptions : subs[s] # None => subs[s].customer # k
        /\ \A o \in Orgs : rows[o] # None => rows[o].customer # k
        /\ \A d \in Checkouts : Linking(d) /\ checkouts[d].customer = k => d = c
    BY <1>1, <1>2 DEF CustomerInv
  <2>2. /\ \A o \in Orgs : rows'[o] # None => rows'[o].customer \in made
        /\ \A o, q \in Orgs :
             rows'[o] # None /\ rows'[q] # None /\ rows'[o].customer = rows'[q].customer => o = q
    BY <1>2, <1>4, <1>8, <2>1 DEF CustomerInv
  <2>3. ASSUME NEW d \in Checkouts, Linking(d)'
        PROVE  /\ checkouts'[d].customer \in made
               /\ \A s \in Subscriptions : subs[s] # None => subs[s].customer # checkouts'[d].customer
               /\ \A o \in Orgs : rows'[o] # None => rows'[o].customer # checkouts'[d].customer
               /\ \A e \in Checkouts : Linking(e)' /\ checkouts'[e].customer = checkouts'[d].customer => e = d
    <3>1. d # c /\ Linking(d) /\ checkouts'[d] = checkouts[d] /\ checkouts[d].customer # k
      BY <1>6, <2>1, <2>3
    <3>2. \A o \in Orgs : rows'[o] # None => rows'[o].customer # checkouts[d].customer
      BY <1>2, <1>4, <1>8, <3>1 DEF CustomerInv
    <3> QED BY <1>6, <3>1, <3>2 DEF CustomerInv
  <2> QED BY <1>4, <2>2, <2>3 DEF CustomerInv
<1> QED BY <1>5, <1>7, <1>8

LEMMA CheckoutStands ==
    ASSUME BillingInv, CustomerInv, NEW c \in Checkouts,
           StartCheckout(c) \/ OpenSession(c) \/ CheckoutFails(c)
    PROVE  CustomerInv'
<1>1. PICK at, customer : Proceeds(c, at, customer) /\ at # "link"
  BY DEF StartCheckout, OpenSession, CheckoutFails
<1>2. \A d \in Checkouts : checkouts'[d].at = "link" => checkouts'[d] = checkouts[d]
  BY <1>1 DEF Proceeds, BillingInv, BillingTypes
<1>3. UNCHANGED <<rows, subs, made>>
  BY DEF StartCheckout, OpenSession, CheckoutFails, provider
<1> QED BY <1>2, <1>3, CustomersStand

LEMMA SubscriptionIsKnown ==
    ASSUME BillingInv, CustomerInv, NEW s \in Subscriptions, NEW sub \in Standing, NEW type \in Types,
           Change(s, sub, type), subs[s] # None \/ Known(sub.customer), UNCHANGED <<rows, made>>,
           \A d \in Checkouts : checkouts'[d].at = "link" => checkouts'[d] = checkouts[d]
    PROVE  CustomerInv'
<1>1. subs'[s] = sub /\ \A t \in Subscriptions : t # s => subs'[t] = subs[t]
  BY ChangeTells
<1>2. subs[s] # None => sub.customer = subs[s].customer
  BY DEF Change
<1> QED BY <1>1, <1>2, CustomersStand

\* A handler's step changes no checkout, and no record's customer.
LEMMA HandlerStands ==
    ASSUME BillingInv, NEW h \in Handlers, Handle(h) \/ StepFails(h) \/ \E e \in 1..MaxEvents : Deliver(h, e)
    PROVE  /\ \A o \in Orgs : rows'[o] # None => rows[o] # None /\ rows'[o].customer = rows[o].customer
           /\ UNCHANGED <<checkouts, provider, paid>>
<1>1. CASE SaveProviderState(h)
  <2>1. \A o \in Orgs : \/ rows'[o] = rows[o]
                        \/ rows[o] # None /\ rows'[o].customer = rows[o].customer
    <3>1. handlers[h].owner \in Orgs /\ rows[handlers[h].owner] # None
      BY <1>1, Working DEF SaveProviderState, HandlerInv
    <3> QED BY <1>1, <3>1 DEF SaveProviderState, Synced, BillingInv, BillingTypes
  <2> QED BY <1>1, <2>1 DEF SaveProviderState
<1>2. CASE ClaimEvent(h) \/ ResolveOwner(h) \/ FetchSubscription(h) \/ ReleaseEvent(h) \/ StepFails(h)
  BY <1>2 DEF ClaimEvent, ResolveOwner, FetchSubscription, ReleaseEvent, StepFails
<1>3. CASE \E e \in 1..MaxEvents : Deliver(h, e)
  BY <1>3 DEF Deliver
<1> QED BY <1>1, <1>2, <1>3 DEF Handle

LEMMA CustomerStep == BillingInv /\ CustomerInv /\ [Next]_vars => CustomerInv'
<1> SUFFICES ASSUME BillingInv, CustomerInv, [Next]_vars
             PROVE  CustomerInv'
  OBVIOUS
<1>1. CASE UNCHANGED vars \/ Tick
  <2>1. UNCHANGED <<rows, subs, made, checkouts>>
    BY <1>1 DEF vars, server, provider, Tick
  <2> QED BY <2>1, CustomersStand
<1>2. CASE Crash
  <2>1. UNCHANGED <<rows, subs, made>>
        /\ \A d \in Checkouts : checkouts'[d].at = "link" => checkouts'[d] = checkouts[d]
    BY <1>2 DEF Crash, provider
  <2> QED BY <2>1, CustomersStand
<1>3. ASSUME NEW c \in Checkouts,
             StartCheckout(c) \/ CreateCustomer(c) \/ LinkCustomer(c) \/ OpenSession(c) \/ CheckoutFails(c)
      PROVE  CustomerInv'
  BY <1>3, CheckoutStands, CreatedIsNew, LinkedIsOwn
<1>4. ASSUME NEW s \in Subscriptions, NEW c \in Checkouts, Subscribe(s, c)
      PROVE  CustomerInv'
  BY <1>4, SubscribeChanges, SubscriptionIsKnown
<1>5. ASSUME NEW s \in Subscriptions, SubscribeByHand(s)
      PROVE  CustomerInv'
  BY <1>5, SubscribeByHandChanges, SubscriptionIsKnown DEF server
<1>6. ASSUME NEW s \in Subscriptions, Update(s)
      PROVE  CustomerInv'
  BY <1>6, UpdateChanges, SubscriptionIsKnown DEF server
<1>7. ASSUME NEW h \in Handlers, Handle(h) \/ StepFails(h) \/ \E e \in 1..MaxEvents : Deliver(h, e)
      PROVE  CustomerInv'
  <2>1. \A o \in Orgs : rows'[o] # None => rows[o] # None /\ rows'[o].customer = rows[o].customer
    BY <1>7, HandlerStands
  <2>2. UNCHANGED <<made, subs, checkouts>>
    BY <1>7, HandlerStands DEF provider
  <2> QED BY <2>1, <2>2, CustomersStand
<1> QED BY <1>1, <1>2, <1>3, <1>4, <1>5, <1>6, <1>7 DEF Next

LEMMA CustomerHolds == Spec => []CustomerInv
  BY CustomerInit, CustomerStep, BillingHolds, PTL DEF Spec

--------------------------------------------------------------------------------
(* What each step of a webhook request does.                                  *)

Past(h) == handlers[h].at \notin {"idle", "claim"}
Others(h) == \A i \in Handlers : i # h => handlers'[i] = handlers[i]

\* The handler has moved on with its event.
Holds(h, at, owner, found) ==
    /\ handlers'[h].at = at /\ handlers'[h].event = handlers[h].event
    /\ handlers'[h].owner = owner /\ handlers'[h].found = found

LEMMA DeliverDoes ==
    ASSUME BillingInv, NEW h \in Handlers, NEW e, Deliver(h, e)
    PROVE  /\ ~Past(h) /\ ~Past(h)' /\ Others(h)
           /\ UNCHANGED <<rows, claims, answered, raced, stranded, provider>>
<1>1. PICK n : /\ n = [at |-> "claim", event |-> e, owner |-> None, found |-> None]
               /\ handlers' = [handlers EXCEPT ![h] = n]
  BY DEF Deliver
<1>2. handlers'[h] = n /\ Others(h) /\ n.at = "claim"
  BY <1>1 DEF Others, BillingInv, BillingTypes
<1> QED BY <1>2 DEF Deliver, Past

LEMMA ClaimDoes ==
    ASSUME BillingInv, NEW h \in Handlers, ClaimEvent(h)
    PROVE  /\ handlers[h].at = "claim" /\ Others(h)
           /\ UNCHANGED <<rows, raced, stranded, provider>>
           /\ \/ /\ handlers[h].event \in claims /\ handlers'[h] = Free
                 /\ answered' = answered \cup {handlers[h].event} /\ UNCHANGED claims
              \/ /\ handlers[h].event \notin claims /\ claims' = claims \cup {handlers[h].event}
                 /\ handlers'[h].at = "resolve" /\ handlers'[h].event = handlers[h].event
                 /\ UNCHANGED answered
<1>1. handlers[h].at = "claim" /\ UNCHANGED <<rows, raced, stranded, provider>>
  BY DEF ClaimEvent
<1>2. CASE Claimed(handlers[h].event)
  BY <1>1, <1>2 DEF ClaimEvent, Answers, Claimed, Others, BillingInv, BillingTypes
<1>3. CASE ~Claimed(handlers[h].event)
  <2>1. PICK old : old = handlers[h] /\ old \in Handler
    BY <1>1, Working
  <2>2. PICK new : new = [old EXCEPT !.at = "resolve"]
    OBVIOUS
  <2>3. new.at = "resolve" /\ new.event = old.event
    BY <2>1, <2>2 DEF Handler
  <2>4. handlers'[h] = new /\ Others(h)
    BY <1>3, <2>1, <2>2 DEF ClaimEvent, Others, BillingInv, BillingTypes
  <2> QED BY <1>1, <1>3, <2>1, <2>3, <2>4 DEF ClaimEvent, Claimed
<1> QED BY <1>2, <1>3

LEMMA TakesHolds ==
    ASSUME BillingInv, NEW h \in Handlers, NEW at, NEW owner, NEW found, Takes(h, at, owner, found)
    PROVE  Others(h) /\ Holds(h, at, owner, found)
  BY DEF Takes, Others, Holds, BillingInv, BillingTypes

LEMMA ResolveDoes ==
    ASSUME BillingInv, NEW h \in Handlers, ResolveOwner(h)
    PROVE  /\ handlers[h].at = "resolve" /\ Others(h)
           /\ UNCHANGED <<rows, claims, stranded, provider>>
           /\ \/ \E o \in Owners(Event(h)) :
                   /\ isNewerEvent(Event(h), o)
                   /\ Holds(h, IF Event(h).carries = None THEN "fetch" ELSE "save", o, Event(h).carries)
                   /\ raced' = IF Between(o) # {} THEN raced \cup {o} ELSE raced
                   /\ UNCHANGED answered
              \/ /\ Owners(Event(h)) = {} \/ \E o \in Owners(Event(h)) : ~isNewerEvent(Event(h), o)
                 /\ handlers'[h] = Free /\ answered' = answered \cup {handlers[h].event}
                 /\ UNCHANGED raced
<1>1. handlers[h].at = "resolve" /\ UNCHANGED <<rows, claims, stranded, provider>>
  BY DEF ResolveOwner
<1>2. CASE /\ Owners(Event(h)) = {} \/ \E o \in Owners(Event(h)) : ~isNewerEvent(Event(h), o)
           /\ Answers(h) /\ UNCHANGED raced
  <2>1. handlers'[h] = Free /\ Others(h)
    BY <1>2 DEF Answers, Others, BillingInv, BillingTypes
  <2> QED BY <1>1, <1>2, <2>1 DEF Answers
<1>3. ASSUME NEW o \in Owners(Event(h)), isNewerEvent(Event(h), o),
             Takes(h, IF Event(h).carries = None THEN "fetch" ELSE "save", o, Event(h).carries),
             raced' = IF Between(o) # {} THEN raced \cup {o} ELSE raced,
             UNCHANGED answered
      PROVE  Others(h) /\ Holds(h, IF Event(h).carries = None THEN "fetch" ELSE "save", o, Event(h).carries)
  <2>1. Takes(h, IF Event(h).carries = None THEN "fetch" ELSE "save", o, Event(h).carries)
    BY <1>3
  <2> QED BY <2>1, TakesHolds
<1> QED BY <1>1, <1>2, <1>3 DEF ResolveOwner

LEMMA FetchDoes ==
    ASSUME BillingInv, NEW h \in Handlers, FetchSubscription(h)
    PROVE  /\ handlers[h].at = "fetch" /\ Others(h)
           /\ UNCHANGED <<rows, claims, answered, raced, stranded, provider>>
           /\ Holds(h, "save", handlers[h].owner, subs[Event(h).subscription])
<1>1. Takes(h, "save", handlers[h].owner, subs[Event(h).subscription])
  BY DEF FetchSubscription
<1> QED BY <1>1, TakesHolds DEF FetchSubscription

LEMMA SaveDoes ==
    ASSUME BillingInv, NEW h \in Handlers, SaveProviderState(h)
    PROVE  /\ handlers[h].at = "save" /\ Others(h) /\ handlers'[h] = Free
           /\ answered' = answered \cup {handlers[h].event}
           /\ UNCHANGED <<claims, raced, stranded, provider>>
           /\ handlers[h].owner \in Orgs /\ rows[handlers[h].owner] # None
           /\ rows[handlers[h].owner].customer = Event(h).customer
           /\ \/ /\ Event(h).hint \in {None, handlers[h].owner}
                 /\ rows'[handlers[h].owner] = Synced(rows[handlers[h].owner], Event(h), handlers[h].found)
                 /\ \A o \in Orgs : o # handlers[h].owner => rows'[o] = rows[o]
              \/ Event(h).hint \notin {None, handlers[h].owner} /\ UNCHANGED rows
<1>1. handlers[h].owner \in Orgs /\ rows[handlers[h].owner] # None
      /\ rows[handlers[h].owner].customer = Event(h).customer
  BY Working DEF SaveProviderState, HandlerInv
<1> QED BY <1>1 DEF SaveProviderState, Answers, Others, BillingInv, BillingTypes

LEMMA FailsDoes ==
    ASSUME BillingInv, NEW h \in Handlers, StepFails(h)
    PROVE  /\ Others(h) /\ UNCHANGED <<rows, claims, answered, raced, stranded, provider>>
           /\ \/ handlers[h].at = "claim" /\ handlers'[h] = Free
              \/ Past(h) /\ handlers'[h].at = "release" /\ handlers'[h].event = handlers[h].event
<1>1. handlers[h].at # "idle" /\ UNCHANGED <<rows, claims, answered, raced, stranded, provider>>
  BY DEF StepFails
<1>2. CASE handlers[h].at = "claim"
  BY <1>1, <1>2 DEF StepFails, Others, BillingInv, BillingTypes
<1>3. CASE handlers[h].at # "claim"
  <2>1. PICK old : old = handlers[h] /\ old \in Handler
    BY <1>1, Working
  <2>2. PICK new : new = [old EXCEPT !.at = "release"]
    OBVIOUS
  <2>3. new.at = "release" /\ new.event = old.event
    BY <2>1, <2>2 DEF Handler
  <2>4. handlers'[h] = new /\ Others(h)
    BY <1>3, <2>1, <2>2 DEF StepFails, Others, BillingInv, BillingTypes
  <2> QED BY <1>1, <1>3, <2>1, <2>3, <2>4 DEF Past
<1> QED BY <1>2, <1>3

LEMMA ReleaseDoes ==
    ASSUME BillingInv, NEW h \in Handlers, ReleaseEvent(h)
    PROVE  /\ handlers[h].at = "release" /\ Others(h) /\ handlers'[h] = Free
           /\ UNCHANGED <<rows, answered, raced, provider>>
           /\ \/ /\ claims' = claims \ {handlers[h].event}
                 /\ stranded' = stranded \cup ({handlers[h].event} \cap answered)
              \/ UNCHANGED claims /\ stranded' = stranded \cup {handlers[h].event}
  BY DEF ReleaseEvent, Released, Others, BillingInv, BillingTypes

LEMMA CrashDoes ==
    ASSUME BillingInv, Crash
    PROVE  /\ \A h \in Handlers : ~Past(h)'
           /\ UNCHANGED <<rows, claims, answered, raced, provider>>
           /\ stranded \subseteq stranded' /\ \A h \in Handlers : Past(h) => handlers[h].event \in stranded'
           /\ \A e \in stranded' : e \in stranded \/ \E h \in Handlers : Past(h) /\ e = handlers[h].event
<1>1. /\ stranded' = stranded \cup {handlers[h].event : h \in {i \in Handlers : Past(i)}}
      /\ handlers' = [h \in Handlers |-> Free]
      /\ UNCHANGED <<rows, claims, answered, raced, provider>>
  BY DEF Crash, Past
<1>2. \A h \in Handlers : handlers'[h].at = "idle"
  BY <1>1 DEF Free
<1> QED BY <1>1, <1>2 DEF Past

\* Everything else leaves the webhooks alone; only a new link changes a record.
LEMMA ElsewhereDoes ==
    ASSUME BillingInv, CustomerInv, [Next]_vars
    PROVE  \/ Crash
           \/ \E h \in Handlers : Handle(h) \/ StepFails(h) \/ \E e \in 1..MaxEvents : Deliver(h, e)
           \/ /\ UNCHANGED <<handlers, claims, answered, raced, stranded>>
              /\ Len(events) <= Len(events') /\ \A e \in 1..Len(events) : events'[e] = events[e]
              /\ \A o \in Orgs :
                   \/ rows'[o] = rows[o]
                   \/ /\ rows[o] = None /\ rows'[o].lastEventAt = 0
                      /\ \A e \in 1..Len(events) : events[e].customer # rows'[o].customer
<1> DEFINE still ==
             /\ UNCHANGED <<handlers, claims, answered, raced, stranded>>
             /\ Len(events) <= Len(events') /\ \A e \in 1..Len(events) : events'[e] = events[e]
<1>0. Len(events) \in Nat
  BY DEF BillingInv, BillingTypes
<1>1. CASE UNCHANGED vars \/ Tick
  BY <1>0, <1>1 DEF vars, server, provider, Tick
<1>2. ASSUME NEW c \in Checkouts, StartCheckout(c) \/ CreateCustomer(c) \/ OpenSession(c) \/ CheckoutFails(c)
      PROVE  still /\ UNCHANGED rows
  BY <1>0, <1>2 DEF StartCheckout, CreateCustomer, OpenSession, CheckoutFails, provider
<1>3. ASSUME NEW s \in Subscriptions,
             SubscribeByHand(s) \/ Update(s) \/ \E c \in Checkouts : Subscribe(s, c)
      PROVE  still /\ UNCHANGED rows
  <2>1. UNCHANGED <<rows, handlers, claims, answered, raced, stranded>>
    BY <1>3, SubscribeChanges, SubscribeByHandChanges, UpdateChanges DEF server
  <2>2. \E sub \in Standing, type \in Types : Change(s, sub, type)
    BY <1>3, SubscribeChanges, SubscribeByHandChanges, UpdateChanges
  <2>3. Len(events') \in Nat /\ Len(events) + 1 <= Len(events') /\ \A e \in 1..Len(events) : events'[e] = events[e]
    BY <2>2, ChangeTells
  <2> QED BY <1>0, <2>1, <2>3
<1>4. ASSUME NEW c \in Checkouts, LinkCustomer(c)
      PROVE  /\ still
             /\ \A o \in Orgs :
                  \/ rows'[o] = rows[o]
                  \/ /\ rows[o] = None /\ rows'[o].lastEventAt = 0
                     /\ \A e \in 1..Len(events) : events[e].customer # rows'[o].customer
  <2>1. PICK k : k = checkouts[c].customer
    OBVIOUS
  <2>2. \A s \in Subscriptions : subs[s] # None => subs[s].customer # k
    BY <1>4, <2>1 DEF CustomerInv, Linking, LinkCustomer
  <2>3. \A e \in 1..Len(events) : events[e].customer # k
    <3> TAKE e \in 1..Len(events)
    <3>1. events[e] \in EventRecord /\ EventInv(events[e])
      BY DEF BillingInv, BillingTypes
    <3> QED BY <2>2, <3>1 DEF EventInv, EventRecord
  <2>4. \A o \in Orgs : rows'[o] = rows[o] \/ (rows[o] = None /\ rows'[o] = Unsubscribed(k))
    BY <1>4, <2>1 DEF LinkCustomer, Linked, BillingInv, BillingTypes
  <2>5. still
    BY <1>0, <1>4 DEF LinkCustomer, provider
  <2> QED BY <2>3, <2>4, <2>5 DEF Unsubscribed
<1> QED BY <1>1, <1>2, <1>3, <1>4 DEF Next

--------------------------------------------------------------------------------
(* A claimed event is in one handler's hands, and an answered one is claimed, *)
(* or its claim was lost.                                                     *)

ClaimInv ==
    /\ claims \cup answered \cup stranded \subseteq 1..Len(events)
    /\ answered \subseteq claims \cup stranded
    /\ \A h \in Handlers : Past(h) => handlers[h].event \in claims
    /\ \A h, i \in Handlers : Past(h) /\ Past(i) /\ handlers[i].event = handlers[h].event => i = h

LEMMA ClaimInit == Init => ClaimInv
  BY DEF Init, ClaimInv, Past, Free

LEMMA ClaimsMove ==
    ASSUME ClaimInv, NEW h \in Handlers, Others(h), UNCHANGED events,
           claims' \cup answered' \cup stranded' \subseteq 1..Len(events),
           answered' \subseteq claims' \cup stranded',
           Past(h)' => /\ handlers'[h].event = handlers[h].event /\ handlers[h].event \in claims'
                       /\ Past(h) \/ handlers[h].event \notin claims,
           \A i \in Handlers : i # h /\ Past(i) => handlers[i].event \in claims'
    PROVE  ClaimInv'
<1>1. \A i \in Handlers : i # h => handlers'[i] = handlers[i] /\ Past(i)' = Past(i)
  BY DEF Others, Past
<1>2. \A i \in Handlers : Past(i)' => handlers'[i].event \in claims'
  BY <1>1
<1>3. ASSUME NEW i \in Handlers, NEW j \in Handlers, Past(i)', Past(j)',
             handlers'[j].event = handlers'[i].event
      PROVE  j = i
  BY <1>1, <1>3 DEF ClaimInv
<1> QED BY <1>2, <1>3 DEF ClaimInv

LEMMA ClaimStep == BillingInv /\ CustomerInv /\ ClaimInv /\ [Next]_vars => ClaimInv'
<1> SUFFICES ASSUME BillingInv, CustomerInv, ClaimInv, [Next]_vars
             PROVE  ClaimInv'
  OBVIOUS
<1>0. \A h \in Handlers : handlers[h].at # "idle" => handlers[h].event \in 1..Len(events)
  BY DEF BillingInv, HandlerInv
<1>1. CASE Crash
  <2>1. \A e \in stranded' : e \in 1..Len(events)
    BY <1>1, <1>0, CrashDoes DEF ClaimInv, Past
  <2> QED BY <1>1, <2>1, CrashDoes DEF ClaimInv, provider
<1>2. ASSUME NEW h \in Handlers, NEW e, Deliver(h, e)
      PROVE  ClaimInv'
  <2>1. UNCHANGED <<claims, answered, stranded, events>> /\ ~Past(h)' /\ Others(h)
    BY <1>2, DeliverDoes DEF provider
  <2> QED BY <2>1, ClaimsMove DEF ClaimInv
<1>3. ASSUME NEW h \in Handlers, ClaimEvent(h)
      PROVE  ClaimInv'
  <2>1. UNCHANGED <<stranded, events>> /\ Others(h) /\ handlers[h].event \in 1..Len(events)
    BY <1>0, <1>3, ClaimDoes DEF provider
  <2>2. CASE handlers[h].event \in claims /\ handlers'[h] = Free
             /\ answered' = answered \cup {handlers[h].event} /\ UNCHANGED claims
    BY <2>1, <2>2, ClaimsMove DEF ClaimInv, Past, Free
  <2>3. CASE /\ handlers[h].event \notin claims /\ claims' = claims \cup {handlers[h].event}
             /\ handlers'[h].at = "resolve" /\ handlers'[h].event = handlers[h].event
             /\ UNCHANGED answered
    BY <2>1, <2>3, ClaimsMove DEF ClaimInv
  <2> QED BY <1>3, <2>2, <2>3, ClaimDoes
<1>4. ASSUME NEW h \in Handlers, ResolveOwner(h) \/ FetchSubscription(h) \/ SaveProviderState(h)
      PROVE  ClaimInv'
  <2>1. /\ Past(h) /\ Others(h) /\ UNCHANGED <<claims, stranded, events>>
        /\ answered' = answered \/ answered' = answered \cup {handlers[h].event}
        /\ Past(h)' => handlers'[h].event = handlers[h].event
    <3>1. CASE ResolveOwner(h)
      BY <3>1, ResolveDoes DEF provider, Past, Free, Holds
    <3>2. CASE FetchSubscription(h)
      BY <3>2, FetchDoes DEF provider, Past, Holds
    <3>3. CASE SaveProviderState(h)
      BY <3>3, SaveDoes DEF provider, Past, Free
    <3> QED BY <1>4, <3>1, <3>2, <3>3
  <2> QED BY <2>1, ClaimsMove DEF ClaimInv
<1>5. ASSUME NEW h \in Handlers, StepFails(h)
      PROVE  ClaimInv'
  <2>1. /\ Others(h) /\ UNCHANGED <<claims, answered, stranded, events>>
        /\ Past(h)' => Past(h) /\ handlers'[h].event = handlers[h].event
    BY <1>5, FailsDoes DEF provider, Past, Free
  <2> QED BY <2>1, ClaimsMove DEF ClaimInv
<1>6. ASSUME NEW h \in Handlers, ReleaseEvent(h)
      PROVE  ClaimInv'
  <2>1. /\ Past(h) /\ ~Past(h)' /\ Others(h) /\ UNCHANGED <<answered, events>>
        /\ handlers[h].event \in 1..Len(events)
    BY <1>0, <1>6, ReleaseDoes DEF provider, Past, Free
  <2>2. /\ claims' \cup answered' \cup stranded' \subseteq 1..Len(events)
        /\ answered' \subseteq claims' \cup stranded'
    BY <1>6, <2>1, ReleaseDoes DEF ClaimInv
  <2>3. \A i \in Handlers : i # h /\ Past(i) => handlers[i].event \in claims'
    BY <1>6, <2>1, ReleaseDoes DEF ClaimInv
  <2> QED BY <2>1, <2>2, <2>3, ClaimsMove
<1>7. ASSUME UNCHANGED <<handlers, claims, answered, stranded>>, Len(events) <= Len(events')
      PROVE  ClaimInv'
  <2>1. 1..Len(events) \subseteq 1..Len(events')
    <3>1. Len(events) \in Nat /\ Len(events') \in Nat
      BY BillingStep DEF BillingInv, BillingTypes
    <3> QED BY <1>7, <3>1
  <2> QED BY <1>7, <2>1 DEF ClaimInv, Past
<1> QED BY <1>1, <1>2, <1>3, <1>4, <1>5, <1>6, <1>7, ElsewhereDoes DEF Handle

LEMMA ClaimHolds == Spec => []ClaimInv
  BY ClaimInit, ClaimStep, BillingHolds, CustomerHolds, PTL DEF Spec

--------------------------------------------------------------------------------
(* Unless two of its handlers overlapped, what an organization's handler is   *)
(* about to write is no older than what is stored.                            *)

FreshInv ==
    /\ \A o \in Orgs : rows[o] # None => rows[o].lastEventAt <= now
    /\ \A o \in Orgs \ raced : \A h \in Between(o) :
         Event(h).at >= rows[o].lastEventAt /\ \A i \in Between(o) : i = h

LEMMA FreshInit == Init => FreshInv
  BY DEF Init, FreshInv, Between, Free

\* Where records stay and nobody enters between check and write.
LEMMA FreshMoves ==
    ASSUME FreshInv, NEW h \in Handlers, Others(h), UNCHANGED <<rows, raced, events, now>>,
           handlers'[h].at \in {"fetch", "save"} =>
             /\ handlers[h].at \in {"fetch", "save"}
             /\ handlers'[h].owner = handlers[h].owner /\ handlers'[h].event = handlers[h].event
    PROVE  FreshInv'
<1>1. \A o \in Orgs : \A i \in Between(o)' : i \in Between(o) /\ Event(i)' = Event(i)
  BY DEF Between, Others, Event
<1> QED BY <1>1 DEF FreshInv

LEMMA ResolveIsFresh ==
    ASSUME BillingInv, FreshInv, NEW h \in Handlers, ResolveOwner(h)
    PROVE  FreshInv'
<1>1. handlers[h].at = "resolve" /\ Others(h) /\ UNCHANGED <<rows, events, now>>
  BY ResolveDoes DEF provider
<1>2. CASE handlers'[h] = Free /\ UNCHANGED raced
  BY <1>1, <1>2, FreshMoves DEF Free
<1>3. ASSUME NEW o \in Owners(Event(h)), isNewerEvent(Event(h), o),
             Holds(h, IF Event(h).carries = None THEN "fetch" ELSE "save", o, Event(h).carries),
             raced' = IF Between(o) # {} THEN raced \cup {o} ELSE raced
      PROVE  FreshInv'
  <2>1. PICK n : n = handlers'[h]
    OBVIOUS
  <2>2. n.owner = o /\ n.event = handlers[h].event /\ Event(h)' = Event(h)
    BY <1>1, <1>3, <2>1 DEF Event, Holds
  <2>3. \A q \in Orgs : q # o => \A i \in Between(q)' : i \in Between(q) /\ Event(i)' = Event(i)
    BY <1>1, <2>1, <2>2 DEF Between, Others, Event
  <2>4. o \notin raced' => o \notin raced /\ Between(o) = {}
    BY <1>3
  <2>5. o \notin raced' => \A i \in Between(o)' : i = h
    BY <1>1, <2>4 DEF Between, Others
  <2>6. Event(h).at >= rows[o].lastEventAt
    BY <1>3 DEF isNewerEvent
  <2>7. \A q \in Orgs : q # o /\ q \notin raced' => q \notin raced
    BY <1>3
  <2> QED BY <1>1, <2>2, <2>3, <2>4, <2>5, <2>6, <2>7 DEF FreshInv
<1> QED BY <1>1, <1>2, <1>3, ResolveDoes

LEMMA SaveIsFresh ==
    ASSUME BillingInv, ToldInv, FreshInv, NEW h \in Handlers, SaveProviderState(h)
    PROVE  FreshInv'
<1>1. /\ handlers[h].at = "save" /\ Others(h) /\ handlers'[h] = Free
      /\ UNCHANGED <<raced, events, now>> /\ handlers[h].owner \in Orgs
  BY SaveDoes DEF provider
<1>2. CASE UNCHANGED rows
  BY <1>1, <1>2, FreshMoves DEF Free
<1>3. ASSUME rows'[handlers[h].owner] = Synced(rows[handlers[h].owner], Event(h), handlers[h].found),
             \A o \in Orgs : o # handlers[h].owner => rows'[o] = rows[o]
      PROVE  FreshInv'
  <2>1. PICK o : o = handlers[h].owner
    OBVIOUS
  <2>2. rows'[o].lastEventAt = Event(h).at /\ \A q \in Orgs : q # o => rows'[q] = rows[q]
    BY <1>3, <2>1 DEF Synced
  <2>3. Event(h).at <= now
    <3>1. handlers[h].event \in 1..Len(events) /\ now \in Nat
      BY <1>1, Working DEF BillingInv, BillingTypes
    <3> QED BY <3>1 DEF ToldInv, EventTold, Event
  <2>4. h \in Between(o)
    BY <1>1, <2>1 DEF Between
  <2>5. \A q \in Orgs : \A i \in Between(q)' : i \in Between(q) /\ i # h /\ Event(i)' = Event(i)
    BY <1>1 DEF Between, Others, Event, Free
  <2>6. o \notin raced => Between(o)' = {}
    BY <1>1, <2>1, <2>4, <2>5 DEF FreshInv
  <2> QED BY <1>1, <2>1, <2>2, <2>3, <2>5, <2>6 DEF FreshInv
<1> QED BY <1>2, <1>3, SaveDoes

LEMMA FreshStep == BillingInv /\ CustomerInv /\ ToldInv /\ FreshInv /\ [Next]_vars => FreshInv'
<1> SUFFICES ASSUME BillingInv, CustomerInv, ToldInv, FreshInv, [Next]_vars
             PROVE  FreshInv'
  OBVIOUS
<1>1. CASE Crash
  <2>1. \A o \in Orgs : Between(o)' = {}
    BY <1>1, CrashDoes DEF Between, Past
  <2> QED BY <1>1, <2>1, CrashDoes DEF FreshInv, provider
<1>2. ASSUME NEW h \in Handlers, \E e \in 1..MaxEvents : Deliver(h, e)
      PROVE  FreshInv'
  BY <1>2, DeliverDoes, FreshMoves DEF provider, Past
<1>3. ASSUME NEW h \in Handlers, ClaimEvent(h)
      PROVE  FreshInv'
  BY <1>3, ClaimDoes, FreshMoves DEF provider, Free
<1>4. ASSUME NEW h \in Handlers, FetchSubscription(h)
      PROVE  FreshInv'
  <2>1. /\ Others(h) /\ UNCHANGED <<rows, raced, events, now>> /\ handlers[h].at = "fetch"
        /\ handlers'[h].owner = handlers[h].owner /\ handlers'[h].event = handlers[h].event
    BY <1>4, FetchDoes DEF provider, Holds
  <2> QED BY <2>1, FreshMoves
<1>5. ASSUME NEW h \in Handlers, StepFails(h) \/ ReleaseEvent(h)
      PROVE  FreshInv'
  BY <1>5, FailsDoes, ReleaseDoes, FreshMoves DEF provider, Free
<1>6. ASSUME UNCHANGED <<handlers, raced>>, \A e \in 1..Len(events) : events'[e] = events[e],
             \A o \in Orgs : rows'[o] = rows[o] \/ (rows[o] = None /\ rows'[o].lastEventAt = 0)
      PROVE  FreshInv'
  <2>1. now <= now' /\ now \in Nat /\ now' \in Nat
    <3>1. now' = now \/ now' = now + 1
      BY ProviderSteps, SubscribeChanges, SubscribeByHandChanges, UpdateChanges DEF Tick
    <3> QED BY <3>1 DEF BillingInv, BillingTypes
  <2>2. ASSUME NEW o \in Orgs, NEW h \in Between(o)
        PROVE  rows'[o] = rows[o] /\ h \in Handlers /\ Event(h)' = Event(h)
    <3>1. h \in Handlers /\ handlers[h].at \in {"fetch", "save"} /\ handlers[h].owner = o
      BY <2>2 DEF Between
    <3>2. rows[o] # None /\ handlers[h].event \in 1..Len(events)
      BY <3>1, Working DEF HandlerInv
    <3> QED BY <1>6, <3>1, <3>2 DEF Event
  <2>3. \A o \in Orgs : Between(o)' = Between(o)
    BY <1>6 DEF Between
  <2>4. ASSUME NEW o \in Orgs, rows'[o] # None
        PROVE  rows'[o].lastEventAt <= now'
    <3>1. CASE rows'[o] = rows[o]
      <4>1. rows[o].lastEventAt \in Nat
        BY <2>4, <3>1 DEF BillingInv, BillingTypes, Record
      <4> QED BY <2>1, <2>4, <3>1, <4>1 DEF FreshInv
    <3> QED BY <1>6, <2>1, <3>1
  <2> QED BY <1>6, <2>2, <2>3, <2>4 DEF FreshInv
<1> QED BY <1>1, <1>2, <1>3, <1>4, <1>5, <1>6, ResolveIsFresh, SaveIsFresh, ElsewhereDoes DEF Handle

LEMMA FreshHolds == Spec => []FreshInv
  BY FreshInit, FreshStep, BillingHolds, CustomerHolds, ToldHolds, PTL DEF Spec

--------------------------------------------------------------------------------
(* Every record is what some event f made of what g carried: the two are one, *)
(* or f is of a completed checkout and g is what was found for it.            *)

Tells(f, g) ==
    /\ f \in 1..Len(events) /\ g \in 1..Len(events) /\ events[g].carries # None
    /\ events[g].subscription = events[f].subscription /\ events[f].at <= events[g].at
    /\ events[f].carries # None => g = f

Made(row, o, f, g) ==
    /\ events[f].customer = row.customer /\ events[f].hint \in {None, o}
    /\ row = Synced(row, events[f], events[g].carries)

WitnessInv ==
    /\ \A h \in Handlers :
         /\ handlers[h].at = "fetch" => Event(h).carries = None
         /\ handlers[h].at = "save" =>
              \E g \in 1..Len(events) : Tells(handlers[h].event, g) /\ handlers[h].found = events[g].carries
    /\ \A o \in Orgs : rows[o] # None /\ rows[o].lastEventAt > 0 =>
         \E f, g \in 1..Len(events) : Tells(f, g) /\ Made(rows[o], o, f, g)

LEMMA WitnessInit == Init => WitnessInv
  BY DEF Init, WitnessInv, Free

\* The events of a tale stay.
LEMMA WitnessMoves ==
    ASSUME WitnessInv, BillingInv, BillingInv',
           Len(events) <= Len(events'), \A e \in 1..Len(events) : events'[e] = events[e],
           \A h \in Handlers : handlers'[h].at \in {"fetch", "save"} =>
             \/ handlers'[h] = handlers[h]
             \/ handlers'[h].at = "fetch" /\ Event(h)'.carries = None
             \/ /\ handlers'[h].at = "save"
                /\ \E g \in 1..Len(events) : Tells(handlers'[h].event, g) /\ handlers'[h].found = events[g].carries,
           \A o \in Orgs : rows'[o] # None /\ rows'[o].lastEventAt > 0 =>
             \/ rows'[o] = rows[o]
             \/ \E f, g \in 1..Len(events) : Tells(f, g) /\ Made(rows'[o], o, f, g)
    PROVE  WitnessInv'
<1>1. Len(events) \in Nat /\ Len(events') \in Nat
  BY DEF BillingInv, BillingTypes
<1>2. 1..Len(events) \subseteq 1..Len(events')
  BY <1>1
<1>3. ASSUME NEW f \in 1..Len(events), NEW g \in 1..Len(events), Tells(f, g)
      PROVE  events'[g] = events[g] /\ events'[f] = events[f] /\ Tells(f, g)'
  <2>1. f \in 1..Len(events') /\ g \in 1..Len(events') /\ events'[f] = events[f] /\ events'[g] = events[g]
    BY <1>2
  <2> QED BY <1>3, <2>1 DEF Tells
<1>4. ASSUME NEW h \in Handlers, handlers'[h].at = "fetch"
      PROVE  Event(h)'.carries = None
  <2>1. CASE handlers'[h] = handlers[h]
    <3>1. handlers[h].event \in 1..Len(events) /\ Event(h).carries = None
      BY <1>4, <2>1, Working DEF WitnessInv
    <3> QED BY <2>1, <3>1 DEF Event
  <2> QED BY <1>4, <2>1
<1>5. ASSUME NEW h \in Handlers, handlers'[h].at = "save"
      PROVE  \E g \in 1..Len(events') : Tells(handlers[h].event, g)' /\ handlers'[h].found = events'[g].carries
  <2>1. PICK g \in 1..Len(events) : Tells(handlers'[h].event, g) /\ handlers'[h].found = events[g].carries
    <3>1. CASE handlers'[h] = handlers[h]
      BY <1>5, <3>1 DEF WitnessInv
    <3> QED BY <1>5, <3>1
  <2>2. PICK f : f = handlers'[h].event
    OBVIOUS
  <2>3. f \in 1..Len(events) /\ Tells(f, g)
    BY <2>1, <2>2 DEF Tells
  <2>4. events'[g] = events[g] /\ Tells(f, g)'
    BY <1>3, <2>3
  <2> QED BY <1>2, <2>1, <2>2, <2>4 DEF Tells
<1>6. ASSUME NEW o \in Orgs, rows'[o] # None, rows'[o].lastEventAt > 0
      PROVE  \E f, g \in 1..Len(events') : Tells(f, g)' /\ Made(rows[o], o, f, g)'
  <2>1. PICK f \in 1..Len(events), g \in 1..Len(events) : Tells(f, g) /\ Made(rows'[o], o, f, g)
    <3>1. CASE rows'[o] = rows[o]
      BY <1>6, <3>1 DEF WitnessInv
    <3> QED BY <1>6, <3>1
  <2>2. events'[g] = events[g] /\ events'[f] = events[f] /\ Tells(f, g)'
    BY <1>3, <2>1
  <2> QED BY <1>2, <2>1, <2>2 DEF Made
<1> QED BY <1>4, <1>5, <1>6 DEF WitnessInv

\* The owner of an event that is found by the customer is alone in being it.
LEMMA OwnerIsOne ==
    ASSUME BillingInv, CustomerInv, NEW o \in Orgs, rows[o] # None, NEW event,
           rows[o].customer = event.customer
    PROVE  Owners(event) = {o}
<1>1. {q \in Orgs : rows[q] # None /\ rows[q].customer = event.customer} = {o}
  BY DEF CustomerInv
<1> QED BY <1>1 DEF Owners

LEMMA ResolveTells ==
    ASSUME BillingInv, BillingInv', WitnessInv, ToldInv, NEW h \in Handlers, ResolveOwner(h)
    PROVE  WitnessInv'
<1>1. /\ handlers[h].at = "resolve" /\ Others(h) /\ UNCHANGED <<rows, events>>
      /\ handlers[h].event \in 1..Len(events)
  BY ResolveDoes, Working DEF provider
<1>2. CASE handlers'[h] = Free
  <2>1. \A i \in Handlers : handlers'[i].at \in {"fetch", "save"} => handlers'[i] = handlers[i]
    BY <1>1, <1>2 DEF Others, Free
  <2> QED BY <1>1, <2>1, WitnessMoves
<1>3. ASSUME NEW o,
             Holds(h, IF Event(h).carries = None THEN "fetch" ELSE "save", o, Event(h).carries)
      PROVE  WitnessInv'
  <2>1. handlers'[h].event = handlers[h].event /\ Event(h)' = Event(h)
    BY <1>1, <1>3 DEF Holds, Event
  <2>2. CASE Event(h).carries = None
    <3>1. \A i \in Handlers : handlers'[i].at \in {"fetch", "save"} =>
            \/ handlers'[i] = handlers[i]
            \/ handlers'[i].at = "fetch" /\ Event(i)'.carries = None
      BY <1>1, <1>3, <2>1, <2>2 DEF Holds, Others
    <3> QED BY <1>1, <3>1, WitnessMoves
  <2>3. CASE Event(h).carries # None
    <3>1. PICK g : g = handlers[h].event
      OBVIOUS
    <3>2. Tells(g, g)
      <4>1. events[g].at \in Nat
        BY <1>1, <3>1 DEF ToldInv, EventTold, BillingInv, BillingTypes
      <4> QED BY <1>1, <2>3, <3>1, <4>1 DEF Tells, Event
    <3>3. handlers'[h].at = "save" /\ handlers'[h].event = g /\ handlers'[h].found = events[g].carries
      BY <1>3, <2>3, <3>1 DEF Holds, Event
    <3>4. \A i \in Handlers : handlers'[i].at \in {"fetch", "save"} =>
            \/ handlers'[i] = handlers[i]
            \/ /\ handlers'[i].at = "save"
               /\ \E x \in 1..Len(events) : Tells(handlers'[i].event, x) /\ handlers'[i].found = events[x].carries
      BY <1>1, <3>1, <3>2, <3>3 DEF Others
    <3> QED BY <1>1, <3>4, WitnessMoves
  <2> QED BY <2>2, <2>3
<1> QED BY <1>2, <1>3, ResolveDoes

\* What is found for a completed checkout is no older than the checkout.
LEMMA FetchTells ==
    ASSUME BillingInv, BillingInv', WitnessInv, ToldInv, NEW h \in Handlers, FetchSubscription(h)
    PROVE  WitnessInv'
<1>1. PICK f, s : f = handlers[h].event /\ s = events[f].subscription
  OBVIOUS
<1>2. /\ Others(h) /\ UNCHANGED <<rows, events>> /\ f \in 1..Len(events)
      /\ events[f] \in EventRecord /\ EventInv(events[f]) /\ events[f].carries = None
      /\ handlers'[h].at = "save" /\ handlers'[h].event = f /\ handlers'[h].found = subs[s]
  <2>1. handlers[h].at = "fetch" /\ Holds(h, "save", handlers[h].owner, subs[Event(h).subscription])
        /\ Others(h) /\ UNCHANGED <<rows, events>>
    BY FetchDoes DEF provider
  <2>2. f \in 1..Len(events) /\ Event(h) \in EventRecord /\ EventInv(Event(h)) /\ Event(h).carries = None
    BY <1>1, <2>1, Working DEF WitnessInv
  <2>3. Event(h) = events[f]
    BY <1>1 DEF Event
  <2> QED BY <1>1, <2>1, <2>2, <2>3 DEF Holds
<1>3. s \in Subscriptions /\ subs[s] # None
  BY <1>1, <1>2 DEF EventInv, EventRecord
<1>4. PICK g \in 1..Len(events) : Latest(s, g)
  BY <1>3 DEF ToldInv
<1>5. PICK c \in 1..Len(events) :
        events[c].type = "created" /\ events[c].subscription = s /\ events[c].at = events[f].at
  BY <1>1, <1>2 DEF ToldInv, EventTold
<1>6. events[c].carries # None
  BY <1>5 DEF ToldInv, EventTold
<1>7. events[f].at <= events[g].at
  BY <1>4, <1>5, <1>6 DEF Latest, ToldInv
<1>8. Tells(f, g) /\ handlers'[h].found = events[g].carries
  BY <1>1, <1>2, <1>3, <1>4, <1>7 DEF Tells, Latest
<1>9. \A i \in Handlers : handlers'[i].at \in {"fetch", "save"} =>
        \/ handlers'[i] = handlers[i]
        \/ /\ handlers'[i].at = "save"
           /\ \E x \in 1..Len(events) : Tells(handlers'[i].event, x) /\ handlers'[i].found = events[x].carries
  BY <1>2, <1>8 DEF Others
<1> QED BY <1>2, <1>9, WitnessMoves

LEMMA SaveTells ==
    ASSUME BillingInv, BillingInv', WitnessInv, NEW h \in Handlers, SaveProviderState(h)
    PROVE  WitnessInv'
<1>1. /\ handlers[h].at = "save" /\ Others(h) /\ handlers'[h] = Free /\ UNCHANGED events
      /\ handlers[h].event \in 1..Len(events)
  BY SaveDoes, Working DEF provider
<1>2. \A i \in Handlers : handlers'[i].at \in {"fetch", "save"} => handlers'[i] = handlers[i]
  BY <1>1 DEF Others, Free
<1>3. PICK f, o : f = handlers[h].event /\ o = handlers[h].owner
  OBVIOUS
<1>4. PICK g \in 1..Len(events) : Tells(f, g) /\ handlers[h].found = events[g].carries
  BY <1>1, <1>3 DEF WitnessInv
<1>5. CASE UNCHANGED rows
  BY <1>1, <1>2, <1>5, WitnessMoves
<1>6. ASSUME Event(h).hint \in {None, o}, rows'[o] = Synced(rows[o], Event(h), handlers[h].found),
             \A q \in Orgs : q # o => rows'[q] = rows[q], rows[o].customer = Event(h).customer
      PROVE  WitnessInv'
  <2>1. rows'[o] = Synced(rows[o], events[f], events[g].carries)
    BY <1>3, <1>4, <1>6 DEF Event
  <2>2. rows'[o].customer = rows[o].customer /\ rows'[o] = Synced(rows'[o], events[f], events[g].carries)
    BY <2>1 DEF Synced
  <2>3. Made(rows'[o], o, f, g)
    BY <1>3, <1>6, <2>2 DEF Made, Event
  <2>4. \A q \in Orgs : rows'[q] # None /\ rows'[q].lastEventAt > 0 =>
          \/ rows'[q] = rows[q]
          \/ \E x, y \in 1..Len(events) : Tells(x, y) /\ Made(rows'[q], q, x, y)
    BY <1>1, <1>3, <1>4, <1>6, <2>3
  <2> QED BY <1>1, <1>2, <2>4, WitnessMoves
<1> QED BY <1>3, <1>5, <1>6, SaveDoes

LEMMA WitnessStep == BillingInv /\ CustomerInv /\ ToldInv /\ WitnessInv /\ [Next]_vars => WitnessInv'
<1> SUFFICES ASSUME BillingInv, CustomerInv, ToldInv, WitnessInv, [Next]_vars
             PROVE  WitnessInv'
  OBVIOUS
<1>0. BillingInv' /\ Len(events) \in Nat
  BY BillingStep DEF BillingInv, BillingTypes
<1>1. CASE Crash
  <2>1. UNCHANGED <<rows, events>> /\ \A h \in Handlers : handlers'[h].at \notin {"fetch", "save"}
    BY <1>1, CrashDoes DEF Past, provider
  <2> QED BY <1>0, <2>1, WitnessMoves
<1>2. ASSUME NEW h \in Handlers, Others(h), handlers'[h].at \notin {"fetch", "save"}, UNCHANGED <<rows, events>>
      PROVE  WitnessInv'
  <2>1. \A i \in Handlers : handlers'[i].at \in {"fetch", "save"} => handlers'[i] = handlers[i]
    BY <1>2 DEF Others
  <2> QED BY <1>0, <1>2, <2>1, WitnessMoves
<1>3. ASSUME NEW h \in Handlers, \E e \in 1..MaxEvents : Deliver(h, e)
      PROVE  WitnessInv'
  BY <1>2, <1>3, DeliverDoes DEF provider, Past
<1>4. ASSUME NEW h \in Handlers, ClaimEvent(h)
      PROVE  WitnessInv'
  BY <1>2, <1>4, ClaimDoes DEF provider, Free
<1>5. ASSUME NEW h \in Handlers, StepFails(h) \/ ReleaseEvent(h)
      PROVE  WitnessInv'
  BY <1>2, <1>5, FailsDoes, ReleaseDoes DEF provider, Free
<1>6. ASSUME UNCHANGED handlers, Len(events) <= Len(events'), \A e \in 1..Len(events) : events'[e] = events[e],
             \A o \in Orgs : rows'[o] = rows[o] \/ (rows[o] = None /\ rows'[o].lastEventAt = 0)
      PROVE  WitnessInv'
  BY <1>0, <1>6, WitnessMoves
<1> QED BY <1>0, <1>1, <1>3, <1>4, <1>5, <1>6, ResolveTells, FetchTells, SaveTells, ElsewhereDoes DEF Handle

LEMMA WitnessHolds == Spec => []WitnessInv
  BY WitnessInit, WitnessStep, BillingHolds, CustomerHolds, ToldHolds, PTL DEF Spec

--------------------------------------------------------------------------------
(* An event that was handled to its end is no newer than the record.          *)

\* EventsOf(o), by number.
Regards(o, e) ==
    /\ e \in 1..Len(events) /\ rows[o] # None
    /\ events[e].customer = rows[o].customer /\ events[e].hint \in {None, o}

DoneInv ==
    \A o \in Orgs \ raced : \A e \in claims \ stranded :
        Regards(o, e) /\ (\A h \in Handlers : Past(h) => handlers[h].event # e)
            => rows[o].lastEventAt >= events[e].at

LEMMA DoneInit == Init => DoneInv
  BY DEF Init, DoneInv

\* Where records stay: the handler still has its event, or never claimed it, or gives the claim
\* up, or ends with a record that is new enough.
LEMMA DoneMoves ==
    ASSUME DoneInv, NEW h \in Handlers, Others(h), UNCHANGED <<rows, events>>, raced \subseteq raced',
           NEW e,
           Past(h) => handlers[h].event = e, Past(h)' => handlers'[h].event = e,
           claims' \ stranded' \subseteq (claims \ stranded) \cup {e},
           \/ Past(h)'
           \/ ~Past(h) /\ claims' \ stranded' \subseteq claims \ stranded
           \/ e \notin claims' \ stranded'
           \/ \A o \in Orgs \ raced : Regards(o, e) => rows[o].lastEventAt >= events[e].at
    PROVE  DoneInv'
<1> SUFFICES ASSUME NEW o \in Orgs \ raced', NEW f \in claims' \ stranded', Regards(o, f)',
                    \A i \in Handlers : Past(i)' => handlers'[i].event # f
             PROVE  rows'[o].lastEventAt >= events'[f].at
  BY DEF DoneInv
<1>1. o \in Orgs \ raced /\ Regards(o, f)
  BY DEF Regards
<1>2. \A i \in Handlers : i # h /\ Past(i) => handlers[i].event # f
  BY DEF Others, Past
<1>3. CASE f # e
  BY <1>1, <1>2, <1>3 DEF DoneInv
<1>4. CASE f = e /\ ~Past(h) /\ claims' \ stranded' \subseteq claims \ stranded
  BY <1>1, <1>2, <1>4 DEF DoneInv
<1>5. CASE f = e /\ \A q \in Orgs \ raced : Regards(q, e) => rows[q].lastEventAt >= events[e].at
  BY <1>1, <1>5
<1> QED BY <1>3, <1>4, <1>5

\* An event that is answered without a write has an owner whose record is newer, or none.
LEMMA ResolveIsDone ==
    ASSUME BillingInv, CustomerInv, ToldInv, DoneInv, NEW h \in Handlers, ResolveOwner(h)
    PROVE  DoneInv'
<1>1. PICK e : e = handlers[h].event
  OBVIOUS
<1>2. /\ handlers[h].at = "resolve" /\ Others(h) /\ UNCHANGED <<rows, events, claims, stranded>>
      /\ e \in 1..Len(events) /\ Event(h) = events[e]
  BY <1>1, ResolveDoes, Working DEF provider, Event
<1>3. CASE /\ Owners(Event(h)) = {} \/ \E o \in Owners(Event(h)) : ~isNewerEvent(Event(h), o)
           /\ handlers'[h] = Free /\ UNCHANGED raced
  <2>1. ASSUME NEW o \in Orgs \ raced, Regards(o, e)
        PROVE  rows[o].lastEventAt >= events[e].at
    <3>1. Owners(Event(h)) = {o}
      BY <1>2, <2>1, OwnerIsOne DEF Regards
    <3>2. ~isNewerEvent(Event(h), o)
      BY <1>3, <3>1
    <3>3. rows[o].lastEventAt \in Nat /\ events[e].at \in Nat
      BY <1>2, <2>1 DEF Regards, BillingInv, BillingTypes, Record, ToldInv, EventTold
    <3> QED BY <1>2, <3>2, <3>3 DEF isNewerEvent
  <2>2. ~Past(h)'
    BY <1>3 DEF Past, Free
  <2> QED BY <1>1, <1>2, <1>3, <2>1, <2>2, DoneMoves
<1>4. ASSUME NEW o, Holds(h, IF Event(h).carries = None THEN "fetch" ELSE "save", o, Event(h).carries),
             raced \subseteq raced'
      PROVE  DoneInv'
  <2>1. Past(h)' /\ handlers'[h].event = e
    BY <1>1, <1>4 DEF Holds, Past
  <2> QED BY <1>1, <1>2, <1>4, <2>1, DoneMoves
<1>5. ASSUME NEW o, raced' = IF Between(o) # {} THEN raced \cup {o} ELSE raced
      PROVE  raced \subseteq raced'
  BY <1>5
<1> QED BY <1>3, <1>4, <1>5, ResolveDoes

\* A write is no older than what it replaces, and as new as its event.
LEMMA SaveIsDone ==
    ASSUME BillingInv, CustomerInv, ToldInv, FreshInv, ClaimInv, DoneInv,
           NEW h \in Handlers, SaveProviderState(h)
    PROVE  DoneInv'
<1>1. PICK e, o : e = handlers[h].event /\ o = handlers[h].owner
  OBVIOUS
<1>2. /\ handlers[h].at = "save" /\ Others(h) /\ handlers'[h] = Free
      /\ UNCHANGED <<claims, raced, stranded, events>>
      /\ e \in 1..Len(events) /\ Event(h) = events[e]
      /\ o \in Orgs /\ rows[o] # None /\ rows[o].customer = events[e].customer
  BY <1>1, SaveDoes, Working DEF provider, Event
<1>3. ~Past(h)' /\ Past(h)
  BY <1>2 DEF Past, Free
<1>4. \A q \in Orgs : Regards(q, e) => q = o
  BY <1>2 DEF Regards, CustomerInv
<1>5. CASE events[e].hint \notin {None, o} /\ UNCHANGED rows
  <2>1. \A q \in Orgs \ raced : ~Regards(q, e)
    BY <1>4, <1>5 DEF Regards
  <2> QED BY <1>1, <1>2, <1>3, <1>5, <2>1, DoneMoves
<1>6. ASSUME rows'[o] = Synced(rows[o], Event(h), handlers[h].found),
             \A q \in Orgs : q # o => rows'[q] = rows[q]
      PROVE  DoneInv'
  <2>1. rows'[o].lastEventAt = events[e].at /\ rows'[o].customer = rows[o].customer
    BY <1>2, <1>6 DEF Synced
  <2>2. o \notin raced => events[e].at >= rows[o].lastEventAt
    BY <1>1, <1>2 DEF FreshInv, Between
  <2> SUFFICES ASSUME NEW q \in Orgs \ raced, NEW f \in claims \ stranded, Regards(q, f)',
                      \A i \in Handlers : Past(i)' => handlers'[i].event # f
               PROVE  rows'[q].lastEventAt >= events[f].at
    BY <1>2 DEF DoneInv
  <2>3. \A i \in Handlers : i # h /\ Past(i) => handlers[i].event # f
    BY <1>2 DEF Others, Past
  <2>4. f \in 1..Len(events) /\ events[f].at \in Nat /\ events[e].at \in Nat
    BY <1>2 DEF Regards, ToldInv, EventTold
  <2>5. Regards(q, f)
    BY <1>2, <1>6, <2>1 DEF Regards
  <2>6. CASE f = e
    BY <1>4, <2>1, <2>4, <2>5, <2>6
  <2>7. CASE f # e
    <3>1. rows[q].lastEventAt >= events[f].at
      BY <1>1, <2>3, <2>5, <2>7 DEF DoneInv
    <3>2. rows[q].lastEventAt \in Nat
      BY <2>5 DEF Regards, BillingInv, BillingTypes, Record
    <3> QED BY <1>6, <2>1, <2>2, <2>4, <3>1, <3>2
  <2> QED BY <2>6, <2>7
<1> QED BY <1>1, <1>2, <1>5, <1>6, SaveDoes

LEMMA DoneStep ==
    BillingInv /\ CustomerInv /\ ToldInv /\ FreshInv /\ ClaimInv /\ DoneInv /\ [Next]_vars => DoneInv'
<1> SUFFICES ASSUME BillingInv, CustomerInv, ToldInv, FreshInv, ClaimInv, DoneInv, [Next]_vars
             PROVE  DoneInv'
  OBVIOUS
<1>1. CASE Crash
  <2>1. /\ UNCHANGED <<rows, claims, raced, events>> /\ stranded \subseteq stranded'
        /\ \A h \in Handlers : Past(h) => handlers[h].event \in stranded'
    BY <1>1, CrashDoes DEF provider
  <2> QED BY <2>1 DEF DoneInv, Regards
<1>2. ASSUME NEW h \in Handlers, \E e \in 1..MaxEvents : Deliver(h, e)
      PROVE  DoneInv'
  <2>1. ~Past(h) /\ ~Past(h)' /\ Others(h) /\ UNCHANGED <<rows, claims, raced, stranded, events>>
    BY <1>2, DeliverDoes DEF provider
  <2> QED BY <2>1, DoneMoves
<1>3. ASSUME NEW h \in Handlers, ClaimEvent(h)
      PROVE  DoneInv'
  <2>1. PICK e : e = handlers[h].event
    OBVIOUS
  <2>2. ~Past(h) /\ Others(h) /\ UNCHANGED <<rows, raced, stranded, events>>
    BY <1>3, ClaimDoes DEF provider, Past
  <2>3. CASE UNCHANGED claims /\ handlers'[h] = Free
    <3>1. ~Past(h)'
      BY <2>3 DEF Past, Free
    <3> QED BY <2>2, <2>3, <3>1, DoneMoves
  <2>4. CASE claims' = claims \cup {e} /\ handlers'[h].at = "resolve" /\ handlers'[h].event = e
    <3>1. Past(h)'
      BY <2>4 DEF Past
    <3> QED BY <2>2, <2>4, <3>1, DoneMoves
  <2> QED BY <1>3, <2>1, <2>3, <2>4, ClaimDoes
<1>4. ASSUME NEW h \in Handlers, FetchSubscription(h)
      PROVE  DoneInv'
  <2>1. PICK e : e = handlers[h].event
    OBVIOUS
  <2>2. /\ Others(h) /\ UNCHANGED <<rows, claims, raced, stranded, events>>
        /\ Past(h)' /\ handlers'[h].event = e
    BY <1>4, <2>1, FetchDoes DEF provider, Past, Holds
  <2> QED BY <2>1, <2>2, DoneMoves
<1>5. ASSUME NEW h \in Handlers, StepFails(h)
      PROVE  DoneInv'
  <2>1. PICK e : e = handlers[h].event
    OBVIOUS
  <2>2. Others(h) /\ UNCHANGED <<rows, claims, raced, stranded, events>>
    BY <1>5, FailsDoes DEF provider
  <2>3. \/ ~Past(h) /\ ~Past(h)'
        \/ Past(h)' /\ handlers'[h].event = e
    BY <1>5, <2>1, FailsDoes DEF Past, Free
  <2> QED BY <2>1, <2>2, <2>3, DoneMoves
<1>6. ASSUME NEW h \in Handlers, ReleaseEvent(h)
      PROVE  DoneInv'
  <2>1. PICK e : e = handlers[h].event
    OBVIOUS
  <2>2. Others(h) /\ UNCHANGED <<rows, raced, events>> /\ ~Past(h)'
    BY <1>6, ReleaseDoes DEF provider, Past, Free
  <2>3. claims' \ stranded' \subseteq claims \ stranded /\ e \notin claims' \ stranded'
    BY <1>6, <2>1, ReleaseDoes
  <2> QED BY <2>1, <2>2, <2>3, DoneMoves
<1>7. ASSUME UNCHANGED <<handlers, claims, raced, stranded>>, \A e \in 1..Len(events) : events'[e] = events[e],
             \A o \in Orgs :
                  \/ rows'[o] = rows[o]
                  \/ \A e \in 1..Len(events) : events[e].customer # rows'[o].customer
      PROVE  DoneInv'
  <2> SUFFICES ASSUME NEW o \in Orgs \ raced, NEW e \in claims \ stranded, Regards(o, e)',
                      \A h \in Handlers : Past(h)' => handlers'[h].event # e
               PROVE  rows'[o].lastEventAt >= events'[e].at
    BY <1>7 DEF DoneInv
  <2>1. e \in 1..Len(events) /\ events'[e] = events[e]
    BY <1>7 DEF ClaimInv
  <2>2. rows'[o] = rows[o]
    BY <1>7, <2>1 DEF Regards
  <2>3. \A h \in Handlers : Past(h) => handlers[h].event # e
    BY <1>7 DEF Past
  <2> QED BY <1>7, <2>1, <2>2, <2>3 DEF DoneInv, Regards
<1> QED BY <1>1, <1>2, <1>3, <1>4, <1>5, <1>6, <1>7, ResolveIsDone, SaveIsDone, ElsewhereDoes DEF Handle

LEMMA DoneHolds == Spec => []DoneInv
  BY DoneInit, DoneStep, BillingHolds, CustomerHolds, ToldHolds, FreshHolds, ClaimHolds, PTL DEF Spec

--------------------------------------------------------------------------------
(* What is promised of the order of events.                                   *)

\* Newer billing state is replaced by older (isNewerEvent) only where two handlers of an
\* organization overlap between their check and their write.
THEOREM NewerStands == Spec => NewerStateStands
<1>1. ASSUME BillingInv, CustomerInv, FreshInv, [Next]_vars, NEW o \in Orgs, rows[o] # None,
             rows'[o].lastEventAt < rows[o].lastEventAt
      PROVE  o \in raced
  <2>1. rows[o].lastEventAt \in Nat
    BY <1>1 DEF BillingInv, BillingTypes, Record
  <2>2. rows'[o] # rows[o]
    BY <1>1, <2>1
  <2>3. CASE Crash
    BY <2>2, <2>3, <1>1, CrashDoes
  <2>4. ASSUME NEW h \in Handlers, Handle(h) \/ StepFails(h) \/ \E e \in 1..MaxEvents : Deliver(h, e)
        PROVE  o \in raced
    <3>1. SaveProviderState(h)
      BY <1>1, <2>2, <2>4, DeliverDoes, ClaimDoes, ResolveDoes, FetchDoes, FailsDoes, ReleaseDoes DEF Handle
    <3>2. /\ handlers[h].at = "save" /\ handlers[h].owner = o
          /\ rows'[o] = Synced(rows[o], Event(h), handlers[h].found)
      BY <1>1, <2>2, <3>1, SaveDoes
    <3>3. rows'[o].lastEventAt = Event(h).at
      BY <3>2 DEF Synced
    <3>4. h \in Between(o)
      BY <3>2 DEF Between
    <3>5. Event(h) \in EventRecord
      BY <1>1, <3>2, Working
    <3>6. Event(h).at \in Nat
      BY <3>5 DEF EventRecord
    <3> QED BY <1>1, <2>1, <3>3, <3>4, <3>6 DEF FreshInv
  <2> QED BY <1>1, <2>2, <2>3, <2>4, ElsewhereDoes
<1>2. BillingInv /\ CustomerInv /\ FreshInv /\ [Next]_vars
        => [\A o \in Orgs : rows[o] # None /\ rows'[o].lastEventAt < rows[o].lastEventAt => o \in raced]_vars
  BY <1>1
<1> QED BY <1>2, BillingHolds, CustomerHolds, FreshHolds, PTL DEF Spec, NewerStateStands

\* What a settled, unexcused record is made of: with the newest events of its organization comes the
\* last that its subscription carried.
LEMMA RecordIsLatest ==
    ASSUME BillingInv, ToldInv, ClaimInv, WitnessInv, DoneInv,
           NEW o \in Orgs, NEW e \in Newest(o), EventsOf(o) \subseteq answered,
           \A d \in EventsOf(o) : InHand(d) = {}, ~Excused(o)
    PROVE  \E f, l \in 1..Len(events) :
             /\ Tells(f, l) /\ Made(rows[o], o, f, l) /\ events[f].at = events[e].at
             /\ Latest(events[f].subscription, l) /\ l \in EventsOf(o) /\ events[l].at = events[e].at
<1>0. events \in Seq(EventRecord) /\ DOMAIN events = 1..Len(events) /\ now \in Nat
  BY DEF BillingInv, BillingTypes
<1>1. /\ e \in 1..Len(events) /\ rows[o] # None /\ rows[o] \in Record
      /\ \A d \in EventsOf(o) : events[d].at <= events[e].at
      /\ e \in EventsOf(o) /\ events[e].at \in 1..now
  <2>1. e \in EventsOf(o) /\ \A d \in EventsOf(o) : events[d].at <= events[e].at
    BY DEF Newest
  <2>2. e \in 1..Len(events) /\ rows[o] # None
    BY <1>0, <2>1 DEF EventsOf
  <2> QED BY <2>1, <2>2 DEF BillingInv, BillingTypes, ToldInv, EventTold
<1>2. o \notin raced /\ e \in claims \ stranded
  BY <1>1 DEF Excused, ClaimInv
<1>3. \A h \in Handlers : Past(h) => handlers[h].event # e
  BY <1>1 DEF Past, InHand
<1>4. rows[o].lastEventAt >= events[e].at
  <2>1. Regards(o, e)
    BY <1>1 DEF Regards, EventsOf
  <2> QED BY <1>2, <1>3, <2>1 DEF DoneInv
<1>5. rows[o].lastEventAt \in Nat /\ rows[o].lastEventAt > 0
  BY <1>0, <1>1, <1>4 DEF Record
<1>6. PICK f \in 1..Len(events), g \in 1..Len(events) : Tells(f, g) /\ Made(rows[o], o, f, g)
  BY <1>1, <1>5 DEF WitnessInv
<1>7. rows[o].lastEventAt = events[f].at
  BY <1>6 DEF Made, Synced
<1>8. \A d \in 1..Len(events) : events[d].customer = rows[o].customer /\ events[d].hint \in {None, o}
                                  => d \in EventsOf(o) /\ events[d].at <= events[e].at
  BY <1>0, <1>1 DEF EventsOf
<1>9. events[f].at = events[e].at
  <2>1. events[f].at <= events[e].at
    BY <1>6, <1>8 DEF Made
  <2> QED BY <1>0, <1>1, <1>4, <1>5, <1>7, <2>1
<1>10. PICK s : s = events[f].subscription
  OBVIOUS
<1>11. s \in Subscriptions /\ subs[s] # None /\ subs[s].customer = rows[o].customer /\ subs[s].hint \in {None, o}
  <2>1. events[f] \in EventRecord /\ EventInv(events[f]) /\ EventTold(events[f])
    BY <1>0, <1>6 DEF BillingInv, ToldInv
  <2> QED BY <1>6, <1>10, <2>1 DEF EventInv, EventTold, EventRecord, Made
<1>12. PICK l \in 1..Len(events) : Latest(s, l)
  BY <1>11 DEF ToldInv
<1>13. \A d \in 1..Len(events) : events[d].subscription = s => d \in EventsOf(o) /\ events[d].at <= events[e].at
  <2> TAKE d \in 1..Len(events)
  <2>1. EventInv(events[d]) /\ EventTold(events[d])
    BY DEF BillingInv, ToldInv
  <2> QED BY <1>8, <1>11, <2>1 DEF EventInv, EventTold
<1>14. g <= l /\ events[f].at <= events[g].at /\ events[g].at <= events[l].at
  BY <1>6, <1>10, <1>12 DEF Tells, Latest, ToldInv
<1>15. /\ g \in EventsOf(o) /\ l \in EventsOf(o)
       /\ events[g].at <= events[e].at /\ events[l].at <= events[e].at
  BY <1>6, <1>10, <1>12, <1>13 DEF Tells, Latest
<1>16. events[g].at \in Nat /\ events[l].at \in Nat
  BY <1>0, <1>6, <1>12 DEF ToldInv, EventTold
<1>17. events[g].at = events[e].at /\ events[l].at = events[e].at
  BY <1>0, <1>1, <1>9, <1>14, <1>15, <1>16
<1>18. events[g].carries # None /\ events[l].carries # None
  BY <1>6, <1>11, <1>12 DEF Tells, Latest
<1>19. g = l
  BY <1>15, <1>17, <1>18 DEF Excused
<1> QED BY <1>6, <1>9, <1>10, <1>12, <1>15, <1>17, <1>19

\* Once the provider has an answer for every event of an organization (handleWebhook), its record
\* says of the subscription that changed last what the provider says of it, whatever failed, was
\* repeated or came in another order; the exceptions are those of Excused.
THEOREM SettledStaysCurrent == Spec => []SettledIsCurrent
<1>1. ASSUME BillingInv, ToldInv, ClaimInv, WitnessInv, DoneInv,
             NEW o \in Orgs, EventsOf(o) \subseteq answered, \A d \in EventsOf(o) : InHand(d) = {},
             ~Excused(o), NEW e \in Newest(o)
      PROVE  LET sub == subs[events[e].subscription]
             IN  /\ rows[o].subscription = events[e].subscription
                 /\ rows[o].status = sub.status /\ rows[o].ends = sub.ends
                 /\ rows[o].plan = IF sub.status = "canceled" THEN "free" ELSE planForPriceId(sub.price)
  <2>1. PICK f \in 1..Len(events), l \in 1..Len(events) :
          /\ Tells(f, l) /\ Made(rows[o], o, f, l) /\ events[f].at = events[e].at
          /\ Latest(events[f].subscription, l) /\ l \in EventsOf(o) /\ events[l].at = events[e].at
    BY <1>1, RecordIsLatest
  <2>2. PICK s, sub : s = events[f].subscription /\ sub = subs[s]
    OBVIOUS
  <2>3. events[l].carries = sub /\ events[l].subscription = s /\ sub # None
    BY <2>1, <2>2 DEF Latest, Tells
  <2>4. \A d \in EventsOf(o) : events[d].carries # None /\ events[d].at = events[e].at => d = l
    BY <1>1, <2>1, <2>3 DEF Excused
  <2>5. e \in EventsOf(o) /\ e \in 1..Len(events) /\ rows[o] # None
    BY <1>1 DEF Newest, EventsOf, BillingInv, BillingTypes
  <2>6. ASSUME NEW d \in 1..Len(events), d \in EventsOf(o), events[d].at = events[e].at
        PROVE  /\ events[d].subscription = s
               /\ events[d].carries = None => sub.status # "canceled"
    <3>1. CASE events[d].carries # None
      BY <2>3, <2>4, <2>6, <3>1
    <3>2. CASE events[d].carries = None
      <4>1. PICK c \in 1..Len(events) :
              /\ events[c].type = "created" /\ events[c].subscription = events[d].subscription
              /\ events[c].at = events[d].at
        BY <1>1, <3>2 DEF ToldInv, EventTold
      <4>2. events[c].customer = events[d].customer /\ events[c].hint = events[d].hint
        <5>1. EventInv(events[c]) /\ EventInv(events[d]) /\ EventTold(events[c]) /\ EventTold(events[d])
          BY <1>1 DEF BillingInv, ToldInv
        <5> QED BY <4>1, <5>1 DEF EventInv, EventTold
      <4>3. c \in EventsOf(o)
        BY <2>6, <4>1, <4>2 DEF EventsOf
      <4>4. events[c].carries # None
        BY <1>1, <4>1 DEF ToldInv, EventTold
      <4>5. c = l
        BY <2>4, <2>6, <4>1, <4>3, <4>4
      <4>6. sub.status # "canceled"
        <5>1. EventTold(events[l])
          BY <1>1 DEF ToldInv
        <5> QED BY <2>3, <4>1, <4>5, <5>1 DEF EventTold
      <4> QED BY <2>3, <4>1, <4>5, <4>6
    <3> QED BY <3>1, <3>2
  <2>7. events[e].subscription = s
    BY <2>5, <2>6
  <2>8. f \in EventsOf(o)
    BY <2>1, <2>5 DEF EventsOf, Made, BillingInv, BillingTypes
  <2>9. events[f].type = "deleted" <=> sub.status = "canceled"
    <3>1. EventTold(events[f])
      BY <1>1 DEF ToldInv
    <3>2. CASE events[f].carries = None
      <4>1. events[f].type # "deleted"
        BY <3>1, <3>2 DEF EventTold
      <4> QED BY <2>1, <2>6, <2>8, <3>2, <4>1
    <3>3. CASE events[f].carries # None
      <4>1. f = l
        BY <2>1, <3>3 DEF Tells
      <4> QED BY <2>3, <3>1, <3>3, <4>1 DEF EventTold
    <3> QED BY <3>2, <3>3
  <2>10. /\ rows[o].subscription = s /\ rows[o].ends = sub.ends
         /\ rows[o].status = IF events[f].type = "deleted" THEN "canceled" ELSE sub.status
         /\ rows[o].plan = IF events[f].type = "deleted" THEN "free" ELSE planForPriceId(sub.price)
    BY <2>1, <2>2, <2>3 DEF Made, Synced
  <2> QED BY <2>2, <2>7, <2>9, <2>10
<1>2. BillingInv /\ ToldInv /\ ClaimInv /\ WitnessInv /\ DoneInv => SettledIsCurrent
  BY <1>1 DEF SettledIsCurrent, Current
<1> QED BY <1>2, BillingHolds, ToldHolds, ClaimHolds, WitnessHolds, DoneHolds, PTL

--------------------------------------------------------------------------------
\* What is left of the types: bounds, and what is marked of whom.
BoundInv == raced \subseteq Orgs /\ troubles \in 0..MaxTroubles

LEMMA BoundHolds == Spec => []BoundInv
<1>1. Init => BoundInv
  BY BillingAssumption DEF Init, BoundInv
<1>2. ASSUME BillingInv, BoundInv, [Next]_vars
      PROVE  BoundInv'
  <2>1. raced' \subseteq Orgs
    <3>1. raced' = raced \/ \E h \in Handlers : ResolveOwner(h)
      BY <1>2 DEF Next, vars, Tick, Crash, StartCheckout, CreateCustomer, LinkCustomer, OpenSession, CheckoutFails,
           Subscribe, SubscribeByHand, Update, Handle, ClaimEvent, FetchSubscription, SaveProviderState,
           ReleaseEvent, StepFails, Deliver
    <3>2. ASSUME NEW h \in Handlers, ResolveOwner(h)
          PROVE  raced' \subseteq Orgs
      BY <1>2, <3>2, ResolveDoes DEF BoundInv, Owners
    <3> QED BY <1>2, <3>1, <3>2 DEF BoundInv
  <2>2. troubles' = troubles \/ Trouble
    BY <1>2 DEF Next, vars, Tick, Crash, StartCheckout, CreateCustomer, LinkCustomer, OpenSession, CheckoutFails,
         Subscribe, SubscribeByHand, Update, Handle, ClaimEvent, ResolveOwner, FetchSubscription,
         SaveProviderState, ReleaseEvent, StepFails, Deliver
  <2> QED BY <1>2, <2>1, <2>2, BillingAssumption DEF BoundInv, Trouble
<1> QED BY <1>1, <1>2, BillingHolds, PTL DEF Spec

\* Type correctness: every variable keeps its type, whatever the numbers of organizations,
\* subscriptions, requests and events; and a claimed event is in one handler's hands.
THEOREM Typing == Spec => []TypeOK
<1>1. BillingInv /\ CustomerInv /\ ClaimInv /\ FreshInv /\ BoundInv => TypeOK
  <2> SUFFICES ASSUME BillingInv, CustomerInv, ClaimInv, FreshInv, BoundInv
               PROVE  TypeOK
    OBVIOUS
  <2>1. \A o \in Orgs : rows[o] # None =>
          rows[o] \in Record /\ rows[o].customer \in made /\ rows[o].lastEventAt <= now
    BY DEF BillingInv, BillingTypes, CustomerInv, FreshInv
  <2>2. claims \cup answered \cup stranded \subseteq DOMAIN events /\ made \subseteq Customers
    BY DEF BillingInv, BillingTypes, ClaimInv
  <2>3. ASSUME NEW h \in Handlers, handlers[h].at \notin {"idle", "claim"}
        PROVE  /\ handlers[h].event \in claims
               /\ \A i \in InHand(handlers[h].event) : i = h \/ handlers[i].at = "claim"
    BY <2>3 DEF ClaimInv, Past, InHand
  <2> QED BY <2>1, <2>2, <2>3 DEF TypeOK, BoundInv
<1> QED BY <1>1, BillingHolds, CustomerHolds, ClaimHolds, FreshHolds, BoundHolds, PTL
================================================================================
