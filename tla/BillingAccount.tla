--------------------------- MODULE BillingAccount ---------------------------
(***************************************************************************)
(* The billing record of one tenant, the Stripe account behind it, and the *)
(* tier middleware in front of POST /scan.                                 *)
(*                                                                         *)
(* Checkout and downgrade requests and webhook deliveries run in handlers  *)
(* that suspend at each call of Cosmos DB or Stripe; each stretch between  *)
(* two awaits is one action.  A handler upserts the whole record it read   *)
(* at its start, so what another one wrote meanwhile is lost.              *)
(*                                                                         *)
(* A missing record is the record BillingCustomer(tenant_id) would be: the *)
(* routes read the two alike, and no event matches an empty customer id.   *)
(***************************************************************************)
EXTENDS Plans, FiniteSets, Sequences

CONSTANTS
  Requests,     \* slots for checkout and downgrade requests
  Hooks,        \* slots for webhook deliveries
  Customers,    \* Stripe customer ids
  Subs,         \* Stripe subscription ids
  NoOne,        \* an empty id
  Shared,       \* whether the middleware reads the record the routes write:
                \* only in an application whose lifespan hook never ran
  TTL,          \* ticks a tier stays in the middleware's cache
  Adversity,    \* what may go wrong, of Adversities
  MaxEvents     \* BOUND: events Stripe emits

\* "overlap": handlers interleave; "reorder", "duplicate": Stripe's delivery;
\* "read_error", "write_error", "stripe_error": calls that fail; "crash": the
\* process restarts.
Adversities ==
  {"overlap", "reorder", "duplicate", "read_error", "write_error",
   "stripe_error", "crash"}

ASSUME BillingAssumption ==
  /\ NoOne \notin Customers \cup Subs
  /\ Shared \in BOOLEAN
  /\ TTL \in Nat \ {0} /\ MaxEvents \in Nat
  /\ Adversity \subseteq Adversities

VARIABLES
  record,       \* the document of the billing container
  req,          \* the request handlers
  hook,         \* the webhook handlers
  gate,         \* the middleware: cached tier, its age, its last answer
  made,         \* customers Stripe created
  sessions,     \* checkout pages the tenant can pay on
  subs,         \* Stripe's subscriptions
  outbox,       \* events Stripe has not been answered 200 for
  emitted,      \* events so far
  ceiling,      \* HISTORY: the highest tier ever sold
  lowered       \* HISTORY: the last write of the tier was a downgrade request

stripe == <<made, sessions, subs, outbox, emitted, ceiling>>
vars   == <<record, req, hook, gate, stripe, lowered>>

Record == [customer : Customers \cup {NoOne}, sub : Subs \cup {NoOne},
           tier : Tiers]

Blank == [customer |-> NoOne, sub |-> NoOne, tier |-> "FREE"]

\* An event: its number, the subscription and customer it is about, and the
\* price of the subscription.
Event == [n : 1..MaxEvents, kind : {"created", "updated", "deleted"},
          sub : Subs, customer : Customers, price : Prices]

\* A handler: how far it is, and the copy it will upsert.
ReqState  == [pc : {"idle", "customer", "session", "save", "lower"},
              tier : Tiers, copy : Record]
HookState == [pc : {"idle", "save"}, event : Event \cup {NoOne},
              copy : Record]
GateState == [tier : Tiers \cup {"none"}, age : 0..(TTL - 1),
              answer : {"none", "pass", "402"}]
SubState  == [status : {"new", "active", "deleted"},
              customer : Customers \cup {NoOne}, price : Prices]

IdleReq  == [pc |-> "idle", tier |-> "FREE", copy |-> Blank]
IdleHook == [pc |-> "idle", event |-> NoOne, copy |-> Blank]

Init ==
  /\ record = Blank
  /\ req = [r \in Requests |-> IdleReq]
  /\ hook = [h \in Hooks |-> IdleHook]
  /\ gate = [tier |-> "none", age |-> 0, answer |-> "none"]
  /\ made = {} /\ sessions = {}
  /\ subs = [u \in Subs |->
               [status |-> "new", customer |-> NoOne, price |-> "price_other"]]
  /\ outbox = {} /\ emitted = 0
  /\ ceiling = "FREE" /\ lowered = FALSE

\* Without "overlap" a handler starts when no other is under way.
Idle == /\ \A r \in Requests : req[r].pc = "idle"
        /\ \A h \in Hooks : hook[h].pc = "idle"

MayStart == "overlap" \in Adversity \/ Idle

\* BillingRepository.get: a read that fails looks like a tenant without record.
Read == {record} \cup IF "read_error" \in Adversity THEN {Blank} ELSE {}

-----------------------------------------------------------------------------
(* POST /billing/checkout.                                                 *)

\* The read; a record that has a customer id needs no call to create one.
CheckoutRead(r, t) ==
  /\ req[r].pc = "idle" /\ MayStart
  /\ \E copy \in Read :
       req' = [req EXCEPT ![r] =
                 [pc |-> IF copy.customer = NoOne THEN "customer"
                         ELSE "session",
                  tier |-> t, copy |-> copy]]
  /\ UNCHANGED <<record, hook, gate, stripe, lowered>>

CheckoutCustomer(r) ==
  /\ req[r].pc = "customer"
  /\ \E c \in Customers \ made :
       /\ made' = made \cup {c}
       /\ req' = [req EXCEPT ![r].pc = "session", ![r].copy.customer = c]
  /\ UNCHANGED <<record, hook, gate, sessions, subs, outbox, emitted, ceiling,
                 lowered>>

\* Only a tier with a price has a page to pay on.
CheckoutSession(r) ==
  /\ req[r].pc = "session" /\ req[r].tier \in Priced
  /\ req' = [req EXCEPT ![r].pc = "save"]
  /\ UNCHANGED <<record, hook, gate, stripe, lowered>>

\* Bug: the tier is granted before it is paid for.
CheckoutSaveGrants(r) ==
  /\ req[r].pc = "save"
  /\ record' = [req[r].copy EXCEPT !.tier = req[r].tier]
  /\ sessions' = sessions \cup
       {[customer |-> req[r].copy.customer, tier |-> req[r].tier]}
  /\ req' = [req EXCEPT ![r] = IdleReq]
  /\ UNCHANGED <<hook, gate, made, subs, outbox, emitted, ceiling, lowered>>

\* The upsert; only then is the tenant told where to pay.
CheckoutSave(r) ==
  /\ req[r].pc = "save"
  /\ record' = req[r].copy
  /\ sessions' = sessions \cup
       {[customer |-> req[r].copy.customer, tier |-> req[r].tier]}
  /\ req' = [req EXCEPT ![r] = IdleReq]
  /\ UNCHANGED <<hook, gate, made, subs, outbox, emitted, ceiling, lowered>>

\* 502 when the tier has no price or Stripe fails, 500 when the upsert does.
CheckoutFails(r) ==
  /\ \/ req[r].pc = "session" /\ req[r].tier \notin Priced
     \/ "stripe_error" \in Adversity /\ req[r].pc \in {"customer", "session"}
     \/ "write_error" \in Adversity /\ req[r].pc = "save"
  /\ req' = [req EXCEPT ![r] = IdleReq]
  /\ UNCHANGED <<record, hook, gate, stripe, lowered>>

-----------------------------------------------------------------------------
(* POST /billing/downgrade.                                                *)

\* The record to write: none (400) unless the tier is lower.
Downgraded(copy, t) ==
  IF Rank[t] >= Rank[copy.tier] THEN {}
  ELSE {[copy EXCEPT !.tier = t, !.sub = IF t = "FREE" THEN NoOne ELSE @]}

DowngradeRead(r, t) ==
  /\ req[r].pc = "idle" /\ MayStart
  /\ \E read \in Read : \E copy \in Downgraded(read, t) :
       req' = [req EXCEPT ![r] =
                 [pc |-> "lower", tier |-> t, copy |-> copy]]
  /\ UNCHANGED <<record, hook, gate, stripe, lowered>>

\* No call of Stripe: the subscription goes on.
DowngradeSave(r) ==
  /\ req[r].pc = "lower"
  /\ record' = req[r].copy
  /\ lowered' = TRUE
  /\ req' = [req EXCEPT ![r] = IdleReq]
  /\ UNCHANGED <<hook, gate, stripe>>

DowngradeFails(r) ==
  /\ "write_error" \in Adversity /\ req[r].pc = "lower"
  /\ req' = [req EXCEPT ![r] = IdleReq]
  /\ UNCHANGED <<record, hook, gate, stripe, lowered>>

-----------------------------------------------------------------------------
(* POST /billing/webhook.                                                  *)

\* Stripe retries until it is answered, in any order and maybe once too often.
InOrder(e) == "reorder" \in Adversity \/ \A f \in outbox : e.n <= f.n

Acked(e) ==
  {outbox \ {e}} \cup IF "duplicate" \in Adversity THEN {outbox} ELSE {}

Handled(e) == \E h \in Hooks : hook[h].event = e

MayDeliver(h, e) ==
  /\ hook[h].pc = "idle" /\ MayStart
  /\ e \in outbox /\ InOrder(e)
  /\ "duplicate" \in Adversity \/ ~Handled(e)

\* Bug: the end of a subscription only clears its id.
AppliedKeepingTier(rec, e) ==
  IF e.kind = "deleted" THEN [rec EXCEPT !.sub = NoOne]
  ELSE [rec EXCEPT !.tier = TierForPrice[e.price], !.sub = e.sub]

\* An end of any of the customer's subscriptions makes the tenant a FREE one.
Applied(rec, e) ==
  IF e.kind = "deleted" THEN [rec EXCEPT !.tier = "FREE", !.sub = NoOne]
  ELSE [rec EXCEPT !.tier = TierForPrice[e.price], !.sub = e.sub]

\* The customer is known and the event is one of the two kinds looked at.
HookRead(h, e) ==
  /\ MayDeliver(h, e)
  /\ record.customer = e.customer /\ e.kind # "created"
  /\ hook' = [hook EXCEPT ![h] =
                [pc |-> "save", event |-> e, copy |-> Applied(record, e)]]
  /\ UNCHANGED <<record, req, gate, stripe, lowered>>

\* 200 all the same: an event of another kind, of an unknown customer, or one
\* whose query failed.
HookIgnores(h, e) ==
  /\ MayDeliver(h, e)
  /\ \/ record.customer # e.customer
     \/ e.kind = "created"
     \/ "read_error" \in Adversity
  /\ outbox' \in Acked(e)
  /\ UNCHANGED <<record, req, hook, gate, made, sessions, subs, emitted,
                 ceiling, lowered>>

\* Bug: the failed upsert is swallowed, as the repository does elsewhere, and
\* Stripe is answered 200.
HookFailsQuietly(h) ==
  /\ "write_error" \in Adversity /\ hook[h].pc = "save"
  /\ outbox' \in Acked(hook[h].event)
  /\ hook' = [hook EXCEPT ![h] = IdleHook]
  /\ UNCHANGED <<record, req, gate, made, sessions, subs, emitted, ceiling,
                 lowered>>

HookSave(h) ==
  /\ hook[h].pc = "save"
  /\ record' = hook[h].copy
  /\ lowered' = FALSE
  /\ outbox' \in Acked(hook[h].event)
  /\ hook' = [hook EXCEPT ![h] = IdleHook]
  /\ UNCHANGED <<req, gate, made, sessions, subs, emitted, ceiling>>

\* The upsert raises, the answer is 500 and the event stays.
HookFails(h) ==
  /\ "write_error" \in Adversity /\ hook[h].pc = "save"
  /\ hook' = [hook EXCEPT ![h] = IdleHook]
  /\ UNCHANGED <<record, req, gate, stripe, lowered>>

-----------------------------------------------------------------------------
(* The tier middleware.                                                    *)

\* Who a request is from: the tenant if its X-Tenant-Id header says so, else the
\* address of the client, which has no billing record.
Keys == {"tenant", "host"}

\* _resolve_tier: the cached tier, or the one of its own repository, whose
\* read does not suspend.  Without a record that is FREE, cached or not.
Resolved(key) ==
  IF key # "tenant" THEN "FREE"
  ELSE IF gate.tier # "none" THEN gate.tier
  ELSE IF Shared THEN record.tier ELSE "FREE"

\* What the cache keeps is the entry of the tenant.
Gate(key, size) ==
  /\ gate' = [tier |-> IF key = "tenant" THEN Resolved(key) ELSE gate.tier,
              age |-> IF gate.tier = "none" THEN 0 ELSE gate.age,
              answer |-> IF size \in TooLarge[Resolved(key)] THEN "402"
                         ELSE "pass"]
  /\ UNCHANGED <<record, req, hook, stripe, lowered>>

\* Bug: the entry is used up to the TTL and a tick longer.
TickLate ==
  /\ gate.tier # "none"
  /\ gate' = IF gate.age = TTL
             THEN [gate EXCEPT !.tier = "none", !.age = 0]
             ELSE [gate EXCEPT !.age = @ + 1]
  /\ UNCHANGED <<record, req, hook, stripe, lowered>>

\* A part of the hour: the entry is used while younger than the TTL.  Nothing
\* else ends it: invalidate() is called by nobody.
Tick ==
  /\ gate.tier # "none"
  /\ gate' = IF gate.age + 1 = TTL
             THEN [gate EXCEPT !.tier = "none", !.age = 0]
             ELSE [gate EXCEPT !.age = @ + 1]
  /\ UNCHANGED <<record, req, hook, stripe, lowered>>

-----------------------------------------------------------------------------
(* Stripe and its customer.                                                *)

About(n, kind, u, s) ==
  [n |-> n, kind |-> kind, sub |-> u, customer |-> s.customer,
   price |-> s.price]

Emit(kinds, u) ==
  /\ emitted + Len(kinds) <= MaxEvents
  /\ emitted' = emitted + Len(kinds)
  /\ outbox' = outbox \cup
       {About(emitted + i, kinds[i], u, subs'[u]) : i \in 1..Len(kinds)}

\* A paid session starts a subscription; Stripe does not mind another.
Pay(u) ==
  /\ subs[u].status = "new"
  /\ \E s \in sessions :
       /\ sessions' = sessions \ {s}
       /\ subs' = [subs EXCEPT ![u] =
                     [status |-> "active", customer |-> s.customer,
                      price |-> PriceForTier[s.tier]]]
       /\ ceiling' = Higher(ceiling, s.tier)
  /\ Emit(<<"created", "updated">>, u)
  /\ UNCHANGED <<record, req, hook, gate, made, lowered>>

ChangePrice(u, p) ==
  /\ subs[u].status = "active" /\ subs[u].price # p
  /\ subs' = [subs EXCEPT ![u].price = p]
  /\ ceiling' = Higher(ceiling, Buys[p])
  /\ Emit(<<"updated">>, u)
  /\ UNCHANGED <<record, req, hook, gate, made, sessions, lowered>>

Cancel(u) ==
  /\ subs[u].status = "active"
  /\ subs' = [subs EXCEPT ![u].status = "deleted"]
  /\ Emit(<<"deleted">>, u)
  /\ UNCHANGED <<record, req, hook, gate, made, sessions, ceiling, lowered>>

\* The API process restarts: handlers and cache are gone.
Restart ==
  /\ "crash" \in Adversity
  /\ req' = [r \in Requests |-> IdleReq]
  /\ hook' = [h \in Hooks |-> IdleHook]
  /\ gate' = [tier |-> "none", age |-> 0, answer |-> "none"]
  /\ UNCHANGED <<record, stripe, lowered>>

-----------------------------------------------------------------------------

Checkout(r) ==
  \/ \E t \in Paid : CheckoutRead(r, t)
  \/ CheckoutCustomer(r)
  \/ CheckoutSession(r)
  \/ CheckoutSave(r)
  \/ CheckoutFails(r)

Downgrade(r) ==
  \/ \E t \in Tiers : DowngradeRead(r, t)
  \/ DowngradeSave(r)
  \/ DowngradeFails(r)

Receive(h) == \E e \in outbox : HookRead(h, e) \/ HookIgnores(h, e)

Webhook(h) == Receive(h) \/ HookSave(h) \/ HookFails(h)

Stripe ==
  \E u \in Subs : Pay(u) \/ (\E p \in Prices : ChangePrice(u, p)) \/ Cancel(u)

Next ==
  \/ \E r \in Requests : Checkout(r) \/ Downgrade(r)
  \/ \E h \in Hooks : Webhook(h)
  \/ \E key \in Keys, size \in Sizes : Gate(key, size)
  \/ Tick
  \/ Stripe
  \/ Restart

Spec == Init /\ [][Next]_vars

\* A handler under way goes on; Stripe retries, so an event is received again
\* and again, and its upsert does not fail for ever.
Fairness ==
  /\ \A r \in Requests :
       WF_vars(\/ CheckoutCustomer(r) \/ CheckoutSession(r) \/ CheckoutSave(r)
               \/ CheckoutFails(r) \/ DowngradeSave(r) \/ DowngradeFails(r))
  /\ \A h \in Hooks : SF_vars(Receive(h)) /\ SF_vars(HookSave(h))

FairSpec == Spec /\ Fairness

-----------------------------------------------------------------------------
(* Properties.                                                             *)

\* Every variable has its type; a handler holds a copy only while it runs.
TypeOK ==
  /\ record \in Record
  /\ req \in [Requests -> ReqState]
  /\ hook \in [Hooks -> HookState]
  /\ \A h \in Hooks : hook[h].pc = "save" =>
       \/ hook[h].event \in outbox
       \/ "duplicate" \in Adversity /\ hook[h].event \in Event
  /\ gate \in GateState
  /\ made \subseteq Customers
  /\ sessions \subseteq [customer : Customers, tier : Paid]
  /\ subs \in [Subs -> SubState]
  /\ outbox \subseteq Event /\ emitted \in 0..MaxEvents
  /\ ceiling \in Tiers /\ lowered \in BOOLEAN

Entitled == INSTANCE Entitlement WITH
  Places <- {"record", "gate"}, Lowest <- "FREE",
  held <- [p \in {"record", "gate"} |->
             IF p = "record" THEN record.tier
             ELSE IF gate.tier = "none" THEN "FREE" ELSE gate.tier]

\* Stale records, lost upserts, duplicated and reordered events and a cache:
\* none of them gives a tenant a tier above what Stripe ever sold it, when both
\* paid tiers have a price.
ImplementsEntitlement == Entitled!Spec

Sold == {u \in Subs : subs[u].status # "new"}

\* The tier a subscription is worth.
Worth(u) ==
  IF subs[u].status = "active" THEN Buys[subs[u].price] ELSE "FREE"

Quiet == outbox = {} /\ Idle

\* One handler at a time and events in order: a tenant that bought one
\* subscription and was not lowered by request has, when no event is left, the
\* tier of that subscription, through failures of Stripe, failed upserts and
\* restarts.
SettledTier ==
  Quiet /\ ~lowered =>
    \A u \in Sold : Sold = {u} =>
      /\ record.tier = Worth(u)
      /\ record.sub = IF subs[u].status = "active" THEN u ELSE NoOne

\* And it comes to that: the tier paid for arrives and stays, and so does the
\* end of the subscription.
PaidTierArrives ==
  \A u \in Subs : <>[](Sold = {u} /\ ~lowered => record.tier = Worth(u))

-----------------------------------------------------------------------------
(* What the documents say and the code does not.                           *)

\* "Stripe stays the source of truth for paid subscriptions"
\* (api/billing.py:186-187): a tenant is never left below what it pays for,
\* unless it asked for it.
NeverBelowPaid ==
  Quiet /\ ~lowered => \A u \in Sold : Rank[record.tier] >= Rank[Worth(u)]

\* Nor above it.
NeverAbovePaid ==
  Quiet => \E u \in Sold \cup {NoOne} :
    Rank[record.tier] <= Rank[IF u = NoOne THEN "FREE" ELSE Worth(u)]

\* "Return a Stripe customer id, creating one if needed"
\* (billing/stripe_service.py:80): the customer who pays is the one recorded.
PayerIsKnown ==
  \A u \in Sold : subs[u].status = "active" => subs[u].customer = record.customer

\* "Enterprise ... is never rejected" (billing/middleware.py:117-119).
EnterpriseNeverRejected ==
  [][gate'.answer = "402" /\ gate'.answer # gate.answer =>
       record.tier # "ENTERPRISE"]_vars

\* "Drop the cached tier" on a webhook (billing/middleware.py:100-101): the
\* cached tier is the one of the record.
CacheFollowsWebhook ==
  Shared /\ gate.tier # "none" /\ Quiet => gate.tier = record.tier

\* A tier that was lowered by request stays lowered until something is bought.
DowngradeSticks ==
  [][lowered /\ ceiling' = ceiling =>
       Rank[record'.tier] <= Rank[record.tier]]_vars
=============================================================================
