-------------------------------- MODULE Billing --------------------------------
(***************************************************************************)
(* Paid plans.  A checkout makes a customer at the payment provider and    *)
(* records it once per organization; the provider then tells of every      *)
(* change of a subscription by webhook, late, twice or out of order, and   *)
(* a handler claims the event, finds the organization, drops what is stale *)
(* and writes the state.  Each await is a step, and handlers overlap.      *)
(*                                                                         *)
(* Definitions named x_y are x with a plausible bug y.                     *)
(***************************************************************************)
EXTENDS Integers, Sequences, FiniteSets

CONSTANTS
    Orgs, Customers, Subscriptions,
    Checkouts,        \* requests to start a checkout
    Home,             \* the organization each of them pays for
    Handlers,         \* webhook requests handled at once
    None,
    Period,           \* how long a payment pays for
    MaxTime, MaxEvents, MaxTroubles   \* bounds: the clock, the provider's events, what goes wrong

Statuses == {"incomplete", "active", "past_due", "canceled"}

\* What an organization's row says, and what the provider says of a subscription.
Record ==
    [customer: Customers, subscription: Subscriptions \cup {None}, status: Statuses,
     plan: {"free", "pro"}, ends: Nat, lastEventAt: Nat]
Standing ==
    [customer: Customers, hint: Orgs \cup {None}, session: BOOLEAN, status: Statuses,
     price: {"pro", "other"}, ends: Nat]

ASSUME BillingAssumption ==
    /\ Home \in [Checkouts -> Orgs] /\ {Period, MaxTime, MaxEvents, MaxTroubles} \subseteq Nat
    /\ None \notin Subscriptions /\ None \notin Record /\ None \notin Standing

VARIABLES
    rows,        \* billing_subscriptions: per organization, None or its record
    claims,      \* billing_events: the events claimed
    checkouts,   \* per checkout: how far it is, and its customer
    handlers,    \* per webhook request: how far it is, its event and what it has read
    (* the provider *)
    made,        \* customers made
    subs,        \* per subscription: None, or whose it is and how it stands
    events,      \* what has happened, in order
    answered,    \* the events it has had a 200 for
    now, troubles,
    (* history *)
    paid,        \* per subscription: the time up to which the Pro price is paid
    raced,       \* organizations with two handlers at once between check and write
    stranded     \* events whose claim outlived a handling that failed

server == <<rows, claims, checkouts, handlers>>
provider == <<made, subs, events, now>>
vars == <<server, provider, answered, troubles, paid, raced, stranded>>

Free == [at |-> "idle"]

Init ==
    /\ rows = [o \in Orgs |-> None] /\ claims = {}
    /\ checkouts = [c \in Checkouts |-> [at |-> "new", customer |-> None]]
    /\ handlers = [h \in Handlers |-> Free]
    /\ made = {} /\ subs = [s \in Subscriptions |-> None] /\ events = <<>>
    /\ answered = {} /\ now = 1 /\ troubles = 0
    /\ paid = [s \in Subscriptions |-> 0] /\ raced = {} /\ stranded = {}

Trouble == troubles < MaxTroubles /\ troubles' = troubles + 1

--------------------------------------------------------------------------------
(* startCheckout.                                                             *)

Proceeds(c, at, customer) == checkouts' = [checkouts EXCEPT ![c] = [at |-> at, customer |-> customer]]

\* ensureCustomer asks for the organization's record first.
StartCheckout(c) ==
    /\ checkouts[c].at = "new"
    /\ LET row == rows[Home[c]]
       IN  IF row # None THEN Proceeds(c, "session", row.customer) ELSE Proceeds(c, "customer", None)
    /\ UNCHANGED <<rows, claims, handlers, provider, answered, troubles, paid, raced, stranded>>

CreateCustomer(c) ==
    /\ checkouts[c].at = "customer"
    /\ \E customer \in Customers \ made : made' = made \cup {customer} /\ Proceeds(c, "link", customer)
    /\ UNCHANGED <<rows, claims, handlers, subs, events, now, answered, troubles, paid, raced, stranded>>

Unsubscribed(customer) ==
    [customer |-> customer, subscription |-> None, status |-> "incomplete", plan |-> "free",
     ends |-> 0, lastEventAt |-> 0]

\* Insert if absent: the organization keeps the customer that was stored first.
Linked_overwriting(o, customer) == Unsubscribed(customer)
Linked(o, customer) == IF rows[o] = None THEN Unsubscribed(customer) ELSE rows[o]

LinkCustomer(c) ==
    LET row == Linked(Home[c], checkouts[c].customer)
    IN  /\ checkouts[c].at = "link"
        /\ rows' = [rows EXCEPT ![Home[c]] = row]
        /\ Proceeds(c, "session", row.customer)
        /\ UNCHANGED <<claims, handlers, provider, answered, troubles, paid, raced, stranded>>

OpenSession(c) ==
    /\ checkouts[c].at = "session"
    /\ Proceeds(c, "open", checkouts[c].customer)
    /\ UNCHANGED <<rows, claims, handlers, provider, answered, troubles, paid, raced, stranded>>

\* A step of it throws; the customer may try again.
CheckoutFails(c) ==
    /\ checkouts[c].at \in {"customer", "link", "session"} /\ Trouble
    /\ Proceeds(c, "new", None)
    /\ UNCHANGED <<rows, claims, handlers, provider, answered, paid, raced, stranded>>

--------------------------------------------------------------------------------
(* The provider.                                                              *)

Tick ==
    /\ now < MaxTime /\ now' = now + 1
    /\ UNCHANGED <<server, made, subs, events, answered, troubles, paid, raced, stranded>>

\* Every change of a subscription is an event that carries how it now stands; of a completed
\* checkout there is a second event, which only names it.
Changes(s, sub, type) ==
    LET event(what, carries) ==
          [type |-> what, at |-> now, subscription |-> s, customer |-> sub.customer, hint |-> sub.hint,
           carries |-> carries]
        news == IF type = "created" /\ sub.session THEN <<event(type, sub), event("completed", None)>>
                ELSE <<event(type, sub)>>
    IN  /\ sub # subs[s] /\ Len(events) + Len(news) <= MaxEvents
        /\ subs' = [subs EXCEPT ![s] = sub]
        /\ events' = events \o news
        /\ paid' = IF sub.status = "active" /\ sub.price = "pro" THEN [paid EXCEPT ![s] = sub.ends] ELSE paid

\* The customer pays in an open session, or an operator subscribes by hand a customer that no
\* checkout is about to record.
Subscribe(s, c) ==
    /\ subs[s] = None /\ checkouts[c].at = "open"
    /\ Proceeds(c, "done", checkouts[c].customer)
    /\ \E status \in {"incomplete", "active"} :
         Changes(s, [customer |-> checkouts[c].customer, hint |-> Home[c], session |-> TRUE, status |-> status,
                     price |-> "pro", ends |-> now + Period], "created")
    /\ UNCHANGED <<rows, claims, handlers, made, now, answered, troubles, raced, stranded>>

SubscribeByHand(s) ==
    /\ subs[s] = None /\ Trouble
    /\ \E customer \in {k \in made : \A c \in Checkouts : checkouts[c].at # "link" \/ checkouts[c].customer # k},
          hint \in Orgs \cup {None} :
         Changes(s, [customer |-> customer, hint |-> hint, session |-> FALSE, status |-> "active",
                     price |-> "pro", ends |-> now + Period], "created")
    /\ UNCHANGED <<server, made, now, answered, raced, stranded>>

Update(s) ==
    /\ subs[s] # None /\ subs[s].status # "canceled"
    /\ \/ Changes(s, [subs[s] EXCEPT !.status = "active", !.ends = now + Period], "updated")
       \/ Changes(s, [subs[s] EXCEPT !.status = "past_due"], "updated")
       \/ Changes(s, [subs[s] EXCEPT !.price = "other"], "updated")
       \/ Changes(s, [subs[s] EXCEPT !.status = "canceled"], "deleted")
    /\ UNCHANGED <<server, made, now, answered, troubles, raced, stranded>>

--------------------------------------------------------------------------------
(* handleWebhook.                                                             *)

Event(h) == events[handlers[h].event]
InHand(e) == {h \in Handlers : handlers[h].at # "idle" /\ handlers[h].event = e}

\* The provider delivers what it has had no 200 for, and sometimes delivers again: what it has had
\* one for, or what a handler it no longer waits for still has in hand.
Deliver(h, e) ==
    /\ handlers[h].at = "idle" /\ e \in DOMAIN events
    /\ IF e \in answered \/ InHand(e) # {} THEN Trouble ELSE UNCHANGED troubles
    /\ handlers' = [handlers EXCEPT ![h] = [at |-> "claim", event |-> e, owner |-> None, found |-> None]]
    /\ UNCHANGED <<rows, claims, checkouts, provider, answered, paid, raced, stranded>>

\* The request is answered with a 200, and the event is not sent again.
Answers(h) ==
    /\ answered' = answered \cup {handlers[h].event}
    /\ handlers' = [handlers EXCEPT ![h] = Free]

\* Insert wins: an event that is claimed already is a duplicate.
Claimed_unchecked(e) == FALSE
Claimed(e) == e \in claims

ClaimEvent(h) ==
    /\ handlers[h].at = "claim"
    /\ IF Claimed(handlers[h].event) THEN Answers(h) /\ UNCHANGED claims
       ELSE /\ claims' = claims \cup {handlers[h].event}
            /\ handlers' = [handlers EXCEPT ![h].at = "resolve"] /\ UNCHANGED answered
    /\ UNCHANGED <<rows, checkouts, provider, troubles, paid, raced, stranded>>

\* resolveOwner: by the customer we stored, or else by the subscription; never by the event's hint.
Owners(event) ==
    LET byCustomer == {o \in Orgs : rows[o] # None /\ rows[o].customer = event.customer}
    IN  IF byCustomer # {} THEN byCustomer
        ELSE {o \in Orgs : rows[o] # None /\ rows[o].subscription = event.subscription}

isNewerEvent_always(event, o) == TRUE
isNewerEvent(event, o) == event.at >= rows[o].lastEventAt

Between(o) == {h \in Handlers : handlers[h].at \in {"fetch", "save"} /\ handlers[h].owner = o}

Takes(h, at, owner, found) ==
    handlers' = [handlers EXCEPT ![h] = [at |-> at, event |-> @.event, owner |-> owner, found |-> found]]

\* applyEvent up to its first write: an unknown customer or a stale event is a final answer.
ResolveOwner(h) ==
    /\ handlers[h].at = "resolve"
    /\ \/ \E o \in Owners(Event(h)) :
            /\ isNewerEvent(Event(h), o)
            /\ Takes(h, IF Event(h).carries = None THEN "fetch" ELSE "save", o, Event(h).carries)
            /\ raced' = IF Between(o) # {} THEN raced \cup {o} ELSE raced
            /\ UNCHANGED answered
       \/ /\ Owners(Event(h)) = {} \/ \E o \in Owners(Event(h)) : ~isNewerEvent(Event(h), o)
          /\ Answers(h) /\ UNCHANGED raced
    /\ UNCHANGED <<rows, claims, checkouts, provider, troubles, paid, stranded>>

\* The subscription of a completed checkout is asked for, and is what it is by then.
FetchSubscription(h) ==
    /\ handlers[h].at = "fetch"
    /\ Takes(h, "save", handlers[h].owner, subs[Event(h).subscription])
    /\ UNCHANGED <<rows, claims, checkouts, provider, answered, troubles, paid, raced, stranded>>

\* An unmapped price grants nothing.
planForPriceId(price) == IF price = "pro" THEN "pro" ELSE "free"

\* What an event makes of a record.
Synced(row, event, sub) ==
    [customer |-> row.customer, subscription |-> event.subscription, ends |-> sub.ends,
     status |-> IF event.type = "deleted" THEN "canceled" ELSE sub.status,
     plan |-> IF event.type = "deleted" THEN "free" ELSE planForPriceId(sub.price), lastEventAt |-> event.at]

\* The provider's metadata selects nothing: it may only tell that something is wrong.
SaveProviderState(h) ==
    /\ handlers[h].at = "save"
    /\ IF Event(h).hint \in {None, handlers[h].owner}
         THEN rows' = [rows EXCEPT ![handlers[h].owner] = Synced(@, Event(h), handlers[h].found)]
         ELSE UNCHANGED rows
    /\ Answers(h)
    /\ UNCHANGED <<claims, checkouts, provider, troubles, paid, raced, stranded>>

\* A step throws: nothing is claimed yet, or the claim is to be released and the provider to retry.
StepFails(h) ==
    /\ handlers[h].at \in {"claim", "resolve", "fetch", "save"} /\ Trouble
    /\ handlers' = [handlers EXCEPT ![h] = IF @.at = "claim" THEN Free ELSE [@ EXCEPT !.at = "release"]]
    /\ UNCHANGED <<rows, claims, checkouts, provider, answered, paid, raced, stranded>>

Released(h) == claims \ {handlers[h].event}

\* The release itself may fail, and then the retry will be taken for a duplicate.  So it will if the
\* provider already had a 200 for a second delivery of the event.
ReleaseEvent(h) ==
    /\ handlers[h].at = "release"
    /\ \/ claims' = Released(h) /\ UNCHANGED troubles
          /\ stranded' = stranded \cup ({handlers[h].event} \cap answered)
       \/ Trouble /\ UNCHANGED claims /\ stranded' = stranded \cup {handlers[h].event}
    /\ handlers' = [handlers EXCEPT ![h] = Free]
    /\ UNCHANGED <<rows, checkouts, provider, answered, paid, raced>>

\* The server dies with every request it has in hand.
Crash ==
    /\ Trouble
    /\ stranded' = stranded \cup {handlers[h].event : h \in {i \in Handlers : handlers[i].at \notin {"idle", "claim"}}}
    /\ handlers' = [h \in Handlers |-> Free]
    /\ checkouts' = [c \in Checkouts |-> IF checkouts[c].at \in {"customer", "link", "session"}
                     THEN [at |-> "new", customer |-> None] ELSE checkouts[c]]
    /\ UNCHANGED <<rows, claims, provider, answered, paid, raced>>

--------------------------------------------------------------------------------
Handle(h) ==
    ClaimEvent(h) \/ ResolveOwner(h) \/ FetchSubscription(h) \/ SaveProviderState(h) \/ ReleaseEvent(h)

Next ==
    \/ Tick \/ Crash
    \/ \E c \in Checkouts :
         \/ StartCheckout(c) \/ CreateCustomer(c) \/ LinkCustomer(c) \/ OpenSession(c) \/ CheckoutFails(c)
         \/ \E s \in Subscriptions : Subscribe(s, c)
    \/ \E s \in Subscriptions : SubscribeByHand(s) \/ Update(s)
    \/ \E h \in Handlers : Handle(h) \/ StepFails(h) \/ \E e \in 1..MaxEvents : Deliver(h, e)

Spec == Init /\ [][Next]_vars

--------------------------------------------------------------------------------
\* entitledPlanFor: silence downgrades.
entitledPlanFor_noExpiry(o) ==
    IF rows[o] # None /\ rows[o].status = "active" THEN rows[o].plan ELSE "free"
entitledPlanFor(o) ==
    IF rows[o] # None /\ rows[o].status = "active" /\ rows[o].ends > now THEN rows[o].plan ELSE "free"

\* Every variable keeps its type, and an event past its claim is claimed and in one handler's hands.
TypeOK ==
    /\ \A o \in Orgs : rows[o] # None =>
         rows[o] \in Record /\ rows[o].customer \in made /\ rows[o].lastEventAt <= now
    /\ claims \cup answered \cup stranded \subseteq DOMAIN events
    /\ made \subseteq Customers /\ raced \subseteq Orgs /\ troubles \in 0..MaxTroubles
    /\ \A h \in Handlers : handlers[h].at \notin {"idle", "claim"} =>
         /\ handlers[h].event \in claims
         /\ \A i \in InHand(handlers[h].event) : i = h \/ handlers[i].at = "claim"

\* An organization has Pro only for time it has paid for at the Pro price, through a customer of its
\* own: whatever event was lost, late, repeated, misrouted or applied out of order.
NothingUnpaid ==
    \A o \in Orgs : entitledPlanFor(o) = "pro" =>
        \E s \in Subscriptions : subs[s] # None /\ subs[s].customer = rows[o].customer /\ paid[s] > now

\* Every payment page a customer can pay on, and so every subscription bought there, is of the
\* customer its organization's webhooks resolve by, however many first checkouts ran at once.
SessionsAreOurs ==
    \A c \in Checkouts : checkouts[c].at \in {"open", "done"} =>
        rows[Home[c]] # None /\ rows[Home[c]].customer = checkouts[c].customer

\* Newer billing state is never replaced by older, unless two handlers of the organization overlap
\* between their check and their write.
NewerStateStands ==
    [][\A o \in Orgs : rows[o] # None /\ rows'[o].lastEventAt < rows[o].lastEventAt => o \in raced]_vars

\* The events of an organization's customer, and those after which nothing else happened.
EventsOf(o) == {e \in DOMAIN events : rows[o] # None /\ events[e].customer = rows[o].customer
                  /\ events[e].hint \in {None, o}}
Newest(o) == {e \in EventsOf(o) : \A f \in EventsOf(o) : events[f].at <= events[e].at}

\* The record says of the subscription that changed last what the provider says of it.
Current(o) ==
    \A e \in Newest(o) :
        LET sub == subs[events[e].subscription]
        IN  /\ rows[o].subscription = events[e].subscription
            /\ rows[o].status = sub.status /\ rows[o].ends = sub.ends
            /\ rows[o].plan = IF sub.status = "canceled" THEN "free" ELSE planForPriceId(sub.price)

\* What the code does not recover from: handlers that overlapped, an event whose claim outlived its
\* handling, and two changes of one second, whose order is the order they arrive in.
Excused(o) ==
    o \in raced \/ stranded \cap EventsOf(o) # {}
      \/ \E e, f \in EventsOf(o) : e # f /\ events[e].at = events[f].at /\ None \notin {events[e].carries, events[f].carries}

\* Once the provider has an answer for every event of an organization, the record agrees with it,
\* though deliveries failed, were repeated and came in any order.
SettledIsCurrent ==
    \A o \in Orgs : EventsOf(o) \subseteq answered /\ (\A e \in EventsOf(o) : InHand(e) = {})
        => Excused(o) \/ Current(o)

\* The order of the provider's events decides, whatever order they are handled in.
OlderStateNeverWins ==
    [][\A o \in Orgs : rows[o] # None => rows'[o].lastEventAt >= rows[o].lastEventAt]_vars
================================================================================
