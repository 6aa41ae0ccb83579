----------------------------- MODULE Subscriptions -----------------------------
(***************************************************************************)
(* Stripe's subscriptions mirrored onto user_profiles: checkout            *)
(* (billing.py, routers/billing.py), the webhook and its two database calls*)
(* (db.py).  Stripe itself is external: it sells, renews and cancels, and  *)
(* delivers one event per change until the webhook answers 2xx, in any     *)
(* order, several at a time, and again when the answer was lost.           *)
(*                                                                         *)
(* with_connection() without a database makes the lookup answer "nobody"   *)
(* and the update answer False; both are acknowledged with 200 all the     *)
(* same.  Only an exception is a 500.                                      *)
(***************************************************************************)
EXTENDS Integers, FiniteSets

CONSTANTS
  Users,        \* accounts
  Subs,         \* subscriptions Stripe may come to know
  Hooks,        \* webhook requests in flight at once
  None,
  MaxChanges,   \* bound: renewals, failed payments and cancellations
  MaxOutages    \* bound: skipped and raised database calls, lost answers

VARIABLES
  profile,    \* profile[u]: the subscription columns of user_profiles
  session,    \* session[s]: the checkout session that may become s
  stripe,     \* stripe[s]: Stripe's own view of s
  outbox,     \* events Stripe has not seen acknowledged
  hook,       \* hook[h]: the webhook request h, and the user it resolved
  seq, changes, outages,
  latest,     \* latest[s]: number of the newest event of s delivered (history)
  disorder,   \* subscriptions with an event delivered out of order (history)
  dropped     \* subscriptions with an event acknowledged unwritten (history)

vars == <<profile, session, stripe, outbox, hook, seq, changes, outages,
          latest, disorder, dropped>>

Statuses == {"inactive", "active", "past_due", "canceled"}
Customers == Subs     \* a customer is named after the purchase that created it

Columns == [status: Statuses, sub: Subs \cup {None}, plan: Subs \cup {None},
            period: Nat \cup {None}, customer: Customers \cup {None}]

--------------------------------------------------------------------------------
(* Stripe *)

\* One event per change.  A plan is the subscription's own; a session carries
\* no period; `user` is None when the object carries no usable metadata.
Event(s, kind, n) ==
  [kind |-> kind, sub |-> s, seq |-> n, customer |-> stripe'[s].customer,
   user   |-> IF kind = "completed" \/ stripe'[s].meta
                THEN stripe'[s].user ELSE None,
   plan   |-> IF kind = "completed" \/ stripe'[s].meta THEN s ELSE None,
   status |-> CASE kind = "completed" -> "active"
                [] kind = "deleted"   -> "canceled"
                [] OTHER              -> stripe'[s].state,
   period |-> IF kind = "completed" THEN None ELSE stripe'[s].period]

Emit(s, kinds) ==
  /\ seq' = [seq EXCEPT ![s] = @ + Cardinality(kinds)]
  /\ \E number \in [kinds -> (seq[s] + 1)..(seq[s] + Cardinality(kinds))]:
       /\ \A k, l \in kinds: number[k] = number[l] => k = l
       /\ outbox' = outbox \cup {Event(s, k, number[k]) : k \in kinds}

Idle == [event |-> None, user |-> None]

NoColumns == [status |-> "inactive", sub |-> None, plan |-> None,
              period |-> None, customer |-> None]

Init ==
  /\ profile = [u \in Users |-> NoColumns]
  /\ session = [s \in Subs |-> None]
  /\ stripe = [s \in Subs |-> [state |-> "none", user |-> None, period |-> 0,
                               customer |-> None, meta |-> TRUE]]
  /\ outbox = {} /\ hook = [h \in Hooks |-> Idle]
  /\ seq = [s \in Subs |-> 0] /\ latest = [s \in Subs |-> 0]
  /\ changes = 0 /\ outages = 0
  /\ disorder = {} /\ dropped = {}

Outage == outages < MaxOutages /\ outages' = outages + 1

(***************************************************************************)
(* create_checkout: the profile is read (an empty one without a database)  *)
(* and the session is created with the customer it names, if any.  The call*)
(* to Stripe is synchronous, so nothing runs in between.                   *)
(***************************************************************************)
Checkout(u, s) ==
  /\ session[s] = None /\ stripe[s].state = "none"
  /\ \/ /\ session' = [session EXCEPT ![s] =
                         [user |-> u, customer |-> profile[u].customer]]
        /\ UNCHANGED outages
     \/ /\ Outage
        /\ session' = [session EXCEPT ![s] = [user |-> u, customer |-> None]]
  /\ UNCHANGED <<profile, stripe, outbox, hook, seq, changes, latest, disorder, dropped>>

\* The buyer pays: without a customer in the session Stripe makes a new one.
\* The metadata may be lost on the subscription, never on the session.
Pay(s) ==
  /\ session[s] # None /\ stripe[s].state = "none"
  /\ \E meta \in BOOLEAN:
       stripe' = [stripe EXCEPT ![s] =
         [state |-> "active", user |-> session[s].user, period |-> 1, meta |-> meta,
          customer |-> IF session[s].customer = None THEN s
                                                     ELSE session[s].customer]]
  /\ Emit(s, {"completed", "created"})
  /\ UNCHANGED <<profile, session, hook, changes, outages, latest, disorder, dropped>>

Change(s, state, period, kind) ==
  /\ stripe[s].state \in {"active", "past_due"} /\ changes < MaxChanges
  /\ changes' = changes + 1
  /\ stripe' = [stripe EXCEPT ![s].state = state, ![s].period = period]
  /\ Emit(s, {kind})
  /\ UNCHANGED <<profile, session, hook, outages, latest, disorder, dropped>>

Renew(s) == Change(s, "active", stripe[s].period + 1, "updated")
PaymentFails(s) == Change(s, "past_due", stripe[s].period, "updated")
Cancel(s) == Change(s, "canceled", stripe[s].period, "deleted")

--------------------------------------------------------------------------------
(* The webhook *)

\* In Stripe's order, and what only the customer identifies after the session
\* that records the customer.
InOrder(e) ==
  /\ e.seq \in {latest[e.sub], latest[e.sub] + 1}
  /\ \A f \in outbox: f.sub = e.sub => f.seq >= e.seq /\ (e.user = None => f.kind # "completed")

\* get_user_id_by_stripe_customer
OwnersOf(customer) == {u \in Users : profile[u].customer = customer}

\* Mutant: metadata only.
ResolveByMetadata(e) == {e.user}

\* _resolve_user_id: metadata, else the customer.  The set of possible answers.
Resolve(e) ==
  IF e.user # None THEN {e.user}
  ELSE IF OwnersOf(e.customer) = {} THEN {None} ELSE OwnersOf(e.customer)

(***************************************************************************)
(* A signed event arrives and is resolved.  The lookup may find no database*)
(* ("nobody") or raise (500, Stripe keeps the event).                      *)
(***************************************************************************)
Deliver(h, e) ==
  /\ hook[h].event = None /\ \A g \in Hooks: hook[g].event # e
  /\ \/ /\ \E u \in Resolve(e):
             hook' = [hook EXCEPT ![h] = [event |-> e, user |-> u]]
        /\ UNCHANGED <<outages, dropped>>
     \/ /\ e.user = None /\ Outage
        /\ hook' = [hook EXCEPT ![h] = [event |-> e, user |-> None]]
        /\ dropped' = dropped \cup {e.sub}
     \/ /\ e.user = None /\ Outage /\ UNCHANGED <<hook, dropped>>
  /\ disorder' = IF InOrder(e) THEN disorder ELSE disorder \cup {e.sub}
  /\ latest' = [latest EXCEPT ![e.sub] = IF e.seq > @ THEN e.seq ELSE @]
  /\ UNCHANGED <<profile, session, stripe, outbox, seq, changes>>

\* Mutant: the event replaces every column.
Overwrite(new, old) == new

Coalesce(new, old) == IF new = None THEN old ELSE new

\* What the handler passes to the update: a deletion names no plan and no customer.
ColumnsOf(e) ==
  [status |-> e.status, sub |-> e.sub, period |-> e.period,
   plan     |-> IF e.kind = "deleted" THEN None ELSE e.plan,
   customer |-> IF e.kind = "deleted" THEN None ELSE e.customer]

\* Mutant: a subscription that already has a status keeps it.
UpdatedOnce(row, e) ==
  [column \in DOMAIN row |-> Coalesce(row[column], ColumnsOf(e)[column])]

\* update_subscription_state: COALESCE on everything but the status.
Updated(row, e) ==
  [column \in DOMAIN row |->
     IF column = "status" THEN e.status
                          ELSE Coalesce(ColumnsOf(e)[column], row[column])]

\* The 200 reaches Stripe, or is lost and the event stays to come again.
Acknowledge(e) ==
  \/ outbox' = outbox \ {e} /\ UNCHANGED outages
  \/ Outage /\ UNCHANGED outbox

\* _handle_stripe_event with a resolved user and a database.
Write(h) ==
  LET e == hook[h].event IN
  /\ e # None /\ hook[h].user # None
  /\ profile' = [profile EXCEPT ![hook[h].user] = Updated(@, e)]
  /\ Acknowledge(e)
  /\ hook' = [hook EXCEPT ![h] = Idle]
  /\ UNCHANGED <<session, stripe, seq, changes, latest, disorder, dropped>>

\* The update raises, with or without its effect: 500, Stripe keeps the event.
WriteRaises(h) ==
  LET e == hook[h].event IN
  /\ e # None /\ hook[h].user # None /\ Outage
  /\ \/ UNCHANGED profile
     \/ profile' = [profile EXCEPT ![hook[h].user] = Updated(@, e)]
  /\ hook' = [hook EXCEPT ![h] = Idle]
  /\ UNCHANGED <<session, stripe, outbox, seq, changes, latest, disorder, dropped>>

(***************************************************************************)
(* No user was found, or the update finds no database and answers False:   *)
(* the route answers 200 and the event is gone.                            *)
(***************************************************************************)
AcknowledgeUnwritten(h) ==
  LET e == hook[h].event IN
  /\ e # None
  /\ \/ hook[h].user = None /\ UNCHANGED <<outages, dropped>>
     \/ hook[h].user # None /\ Outage /\ dropped' = dropped \cup {e.sub}
  /\ outbox' = outbox \ {e}
  /\ hook' = [hook EXCEPT ![h] = Idle]
  /\ UNCHANGED <<profile, session, stripe, seq, changes, latest, disorder>>

Next ==
  \/ \E u \in Users, s \in Subs: Checkout(u, s)
  \/ \E s \in Subs: Pay(s) \/ Renew(s) \/ PaymentFails(s) \/ Cancel(s)
  \/ \E h \in Hooks: \E e \in outbox: Deliver(h, e)
  \/ \E h \in Hooks: Write(h) \/ WriteRaises(h) \/ AcknowledgeUnwritten(h)

Spec == Init /\ [][Next]_vars

--------------------------------------------------------------------------------
(* Properties *)

Messages ==
  [kind: {"completed", "created", "updated", "deleted"}, sub: Subs, seq: Nat,
   customer: Customers, user: Users \cup {None}, plan: Subs \cup {None},
   status: Statuses, period: Nat \cup {None}]

TypeOK ==
  /\ profile \in [Users -> Columns]
  /\ session \in [Subs -> {None} \cup [user: Users, customer: Customers \cup {None}]]
  /\ \A s \in Subs: stripe[s].state \in {"none"} \cup Statuses
  /\ outbox \subseteq Messages
  /\ hook \in [Hooks -> [event: {None} \cup Messages, user: Users \cup {None}]]
  /\ disorder \subseteq Subs /\ dropped \subseteq Subs

BoughtBy(u) == {s \in Subs : stripe[s].user = u}

Quiet == outbox = {} /\ \A h \in Hooks: hook[h].event = None

Mirrored(u, s) ==
  /\ profile[u].status = stripe[s].state /\ profile[u].period = stripe[s].period
  /\ profile[u].sub = s /\ profile[u].customer = stripe[s].customer

\* An account with one subscription, whose events came in order and of which
\* none was acknowledged for want of a database, shows exactly what Stripe
\* shows once nothing is under way: whatever was retried, repeated, raised or
\* resolved through the customer (routers/billing.py 226-277).
MirrorsStripe ==
  Quiet => \A u \in Users, s \in Subs:
             BoughtBy(u) = {s} /\ s \notin disorder \cup dropped => Mirrored(u, s)

\* The same without the excuse of a missing database: "acking with 200 would
\* drop the payment permanently" (routers/billing.py 213-216), so it must not.
PaymentsReachAccount ==
  Quiet => \A u \in Users, s \in Subs:
             BoughtBy(u) = {s} /\ s \notin disorder => Mirrored(u, s)
================================================================================
