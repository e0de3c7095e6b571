------------------------ MODULE BillingAccountProofs ------------------------
(***************************************************************************)
(* BillingAccount keeps its types and implements Entitlement, whatever the *)
(* adversity, the slots and the bounds.                                    *)
(***************************************************************************)
EXTENDS BillingAccount, TLAPS

\* A tier that was sold, or a lower one.  A tier without a configured price is
\* taken for the one of a subscription without items: nothing is claimed then.
Sellable(t) == Priced = Paid => Rank[t] <= Rank[ceiling]

\* The ids a handler and a subscription have come by; without duplicates, no two
\* deliveries are of the same event.
Wired ==
  /\ \A r \in Requests :
       /\ req[r].pc \in {"session", "save"} => req[r].copy.customer \in Customers
       /\ req[r].pc \in {"customer", "session", "save"} => req[r].tier \in Paid
  /\ \A u \in Subs : subs[u].status # "new" => subs[u].customer \in Customers
  /\ \A g, h \in Hooks :
       g # h /\ hook[g].pc = "save" /\ hook[h].pc = "save" =>
         hook[g].event # hook[h].event \/ "duplicate" \in Adversity

\* Every tier that is stored, cached, about to be written or yet to be reported
\* was sold.
Below ==
  /\ Sellable(record.tier)
  /\ \A r \in Requests : Sellable(req[r].copy.tier)
  /\ \A h \in Hooks : Sellable(hook[h].copy.tier)
  /\ gate.tier # "none" => Sellable(gate.tier)
  /\ \A u \in Subs : Sellable(TierForPrice[subs[u].price])
  /\ \A e \in outbox : Sellable(TierForPrice[e.price])

Inv == TypeOK /\ Wired /\ Below

-----------------------------------------------------------------------------
(* The plan tables.                                                        *)

LEMMA RankTable ==
  /\ Rank["FREE"] = 0 /\ Rank["PRO"] = 1 /\ Rank["ENTERPRISE"] = 2
  /\ \A t \in Tiers : Rank[t] \in Nat /\ Rank["FREE"] <= Rank[t]
BY DEF Rank, Tiers

LEMMA PriceTable ==
  /\ \A p \in Prices : TierForPrice[p] \in Tiers /\ Buys[p] \in Tiers
  /\ Priced = Paid => \A p \in Prices : TierForPrice[p] = Buys[p]
  /\ "price_other" \in Prices /\ Buys["price_other"] = "FREE"
  /\ \A t \in Paid : PriceForTier[t] \in Prices
  /\ Priced = Paid => \A t \in Paid : TierForPrice[PriceForTier[t]] = t
  /\ Paid \subseteq Tiers
<1>1. PriceList["PRO"] = "price_pro" /\ PriceList["ENTERPRISE"] = "price_enterprise"
  BY DEF PriceList
<1>2. Paid \subseteq Tiers /\ "price_other" \in Prices
  BY DEF Paid, Tiers, Prices
<1>3. \A t \in Paid : PriceForTier[t] \in Prices
  BY <1>1 DEF PriceForTier, Paid, Prices
<1>4. \A p \in Prices : TierForPrice[p] \in Tiers /\ Buys[p] \in Tiers
  BY DEF TierForPrice, Buys, Tiers
<1>5. Buys["price_other"] = "FREE"
  BY <1>1, <1>2 DEF Buys
<1>6. ASSUME Priced = Paid
      PROVE  /\ \A p \in Prices : TierForPrice[p] = Buys[p]
             /\ \A t \in Paid : TierForPrice[PriceForTier[t]] = t
  <2>1. /\ PriceForTier["PRO"] = "price_pro"
        /\ PriceForTier["ENTERPRISE"] = "price_enterprise"
    BY <1>1, <1>6 DEF PriceForTier, Paid
  <2>2. \A p \in Prices : TierForPrice[p] = Buys[p]
    BY <1>1, <2>1 DEF TierForPrice, Buys
  <2>3. /\ TierForPrice["price_pro"] = "PRO"
        /\ TierForPrice["price_enterprise"] = "ENTERPRISE"
    BY <2>1 DEF TierForPrice, Prices
  <2> QED BY <2>1, <2>2, <2>3 DEF Paid
<1> QED BY <1>2, <1>3, <1>4, <1>5, <1>6

LEMMA HigherBounds ==
  ASSUME NEW s \in Tiers, NEW t \in Tiers
  PROVE  /\ Higher(s, t) \in Tiers
         /\ Rank[s] <= Rank[Higher(s, t)] /\ Rank[t] <= Rank[Higher(s, t)]
BY RankTable DEF Higher

\* What a fresh handler, subscription and cache are made of.
LEMMA BlankTyped ==
  /\ Blank \in Record /\ Blank.tier = "FREE" /\ Blank.customer = NoOne
  /\ IdleReq \in ReqState /\ IdleReq.pc = "idle" /\ IdleReq.copy = Blank
  /\ IdleHook \in HookState /\ IdleHook.pc = "idle" /\ IdleHook.copy = Blank
<1>1. Blank \in Record /\ Blank.tier = "FREE" /\ Blank.customer = NoOne
  BY DEF Blank, Record, Tiers
<1>2. IdleReq \in ReqState /\ IdleReq.pc = "idle" /\ IdleReq.copy = Blank
  BY <1>1 DEF IdleReq, ReqState, Tiers
<1>3. IdleHook \in HookState /\ IdleHook.pc = "idle" /\ IdleHook.copy = Blank
  BY <1>1 DEF IdleHook, HookState
<1> QED BY <1>1, <1>2, <1>3

-----------------------------------------------------------------------------
(* The invariant holds at first.                                           *)

LEMMA InitInv == Init => Inv
<1> SUFFICES ASSUME Init PROVE Inv
  OBVIOUS
<1>1. TypeOK
  <2>1. record \in Record /\ req \in [Requests -> ReqState]
    BY BlankTyped DEF Init
  <2>2. /\ hook \in [Hooks -> HookState]
        /\ \A h \in Hooks : hook[h].pc # "save"
    BY BlankTyped DEF Init
  <2>3. gate \in GateState
    BY BillingAssumption DEF Init, GateState
  <2>4. subs \in [Subs -> SubState]
    BY DEF Init, SubState, Prices
  <2>5. /\ made \subseteq Customers /\ outbox \subseteq Event
        /\ sessions \subseteq [customer : Customers, tier : Paid]
        /\ ceiling \in Tiers
    BY DEF Init, Tiers
  <2>6. emitted \in 0..MaxEvents
    BY BillingAssumption DEF Init
  <2>7. lowered \in BOOLEAN
    BY DEF Init
  <2> QED
    BY <2>1, <2>2, <2>3, <2>4, <2>5, <2>6, <2>7 DEF TypeOK
<1>2. Wired
  BY BlankTyped DEF Init, Wired
<1>3. Below
  BY RankTable, PriceTable, BlankTyped DEF Init, Below, Sellable, Tiers
<1> QED BY <1>1, <1>2, <1>3 DEF Inv

-----------------------------------------------------------------------------
(* Handlers.                                                               *)

\* A step of a request handler: whatever it stores and holds was sold.
LEMMA ReqStep ==
  ASSUME Inv, NEW r \in Requests, NEW q \in ReqState,
         q.pc \in {"session", "save"} => q.copy.customer \in Customers,
         q.pc \in {"customer", "session", "save"} => q.tier \in Paid,
         Sellable(q.copy.tier),
         req' = [req EXCEPT ![r] = q],
         record' \in Record, Sellable(record'.tier),
         made' \subseteq Customers,
         sessions' \subseteq [customer : Customers, tier : Paid],
         lowered' \in BOOLEAN,
         UNCHANGED <<hook, gate, subs, outbox, emitted, ceiling>>
  PROVE  Inv'
<1>1. TypeOK'
  <2>1. req' \in [Requests -> ReqState]
    BY DEF Inv, TypeOK
  <2> QED BY <2>1 DEF Inv, TypeOK, GateState, HookState, Event, SubState
<1>2. Wired'
  BY DEF Inv, TypeOK, Wired
<1>3. Below'
  BY DEF Inv, TypeOK, Below, Sellable
<1> QED BY <1>1, <1>2, <1>3 DEF Inv

\* A copy that was read, and one that is lowered, are records of a tier sold.
LEMMA ReadSellable ==
  ASSUME Inv, NEW copy \in Read
  PROVE  copy \in Record /\ Sellable(copy.tier)
BY BlankTyped, RankTable DEF Inv, TypeOK, Below, Sellable, Read

LEMMA DowngradedSellable ==
  ASSUME NEW read \in Record, Sellable(read.tier), NEW t \in Tiers,
         NEW copy \in Downgraded(read, t), ceiling \in Tiers
  PROVE  copy \in Record /\ Sellable(copy.tier)
<1>1. Rank[t] < Rank[read.tier]
  BY RankTable DEF Downgraded, Record
<1>2. copy \in Record /\ copy.tier = t
  BY <1>1 DEF Downgraded, Record
<1> QED BY <1>1, <1>2, RankTable DEF Sellable, Record

LEMMA IdleSellable == ASSUME Inv PROVE Sellable(Blank.tier)
BY BlankTyped, RankTable DEF Inv, TypeOK, Sellable

LEMMA CheckoutStep ==
  ASSUME Inv, NEW r \in Requests, Checkout(r)
  PROVE  Inv'
<1> USE DEF stripe
<1>0. req[r] \in ReqState /\ Sellable(req[r].copy.tier)
  BY DEF Inv, TypeOK, Below
<1>1. CASE \E t \in Paid : CheckoutRead(r, t)
  <2>1. PICK t \in Paid, copy \in Read :
          req' = [req EXCEPT ![r] =
                    [pc |-> IF copy.customer = NoOne THEN "customer"
                            ELSE "session",
                     tier |-> t, copy |-> copy]]
    BY <1>1 DEF CheckoutRead
  <2>2. copy \in Record /\ Sellable(copy.tier)
    BY ReadSellable
  <2> DEFINE q == [pc |-> IF copy.customer = NoOne THEN "customer"
                          ELSE "session",
                   tier |-> t, copy |-> copy]
  <2>3. q \in ReqState
    BY <2>2, PriceTable DEF ReqState
  <2>4. q.pc \in {"session", "save"} => q.copy.customer \in Customers
    BY <2>2 DEF Record
  <2>7. q.tier \in Paid
    OBVIOUS
  <2>5. UNCHANGED <<record, hook, gate, stripe, lowered>>
    BY <1>1 DEF CheckoutRead
  <2>6. req' = [req EXCEPT ![r] = q] /\ Sellable(q.copy.tier)
    BY <2>1, <2>2
  <2> HIDE DEF q
  <2> QED BY <2>3, <2>4, <2>5, <2>6, <2>7, ReqStep DEF Inv, TypeOK, Below
<1>2. CASE CheckoutCustomer(r)
  <2>1. PICK c \in Customers :
          /\ made' = made \cup {c}
          /\ req' = [req EXCEPT ![r].pc = "session", ![r].copy.customer = c]
    BY <1>2 DEF CheckoutCustomer
  <2> DEFINE q == [req[r] EXCEPT !.pc = "session",
                                 !.copy = [@ EXCEPT !.customer = c]]
  <2>2. /\ q \in ReqState /\ q.copy.customer = c
        /\ q.copy.tier = req[r].copy.tier /\ q.tier = req[r].tier
    BY <1>0 DEF ReqState, Record
  <2>3. req' = [req EXCEPT ![r] = q]
    BY <2>1
  <2>4. UNCHANGED <<record, hook, gate, sessions, subs, outbox, emitted,
                    ceiling, lowered>>
    BY <1>2 DEF CheckoutCustomer
  <2>5. made' \subseteq Customers
    BY <2>1 DEF Inv, TypeOK
  <2>6. q.tier \in Paid
    BY <1>2, <2>2 DEF CheckoutCustomer, Inv, Wired
  <2> HIDE DEF q
  <2> QED BY <1>0, <2>2, <2>3, <2>4, <2>5, <2>6, ReqStep DEF Inv, TypeOK, Below
<1>3. CASE CheckoutSession(r)
  <2> DEFINE q == [req[r] EXCEPT !.pc = "save"]
  <2>1. q \in ReqState /\ q.copy = req[r].copy /\ q.tier = req[r].tier
    BY <1>0 DEF ReqState
  <2>2. req[r].copy.customer \in Customers /\ req[r].tier \in Paid
    BY <1>3 DEF CheckoutSession, Inv, Wired
  <2>3. req' = [req EXCEPT ![r] = q]
    BY <1>3 DEF CheckoutSession
  <2>4. UNCHANGED <<record, hook, gate, stripe, lowered>>
    BY <1>3 DEF CheckoutSession
  <2> HIDE DEF q
  <2> QED BY <1>0, <2>1, <2>2, <2>3, <2>4, ReqStep DEF Inv, TypeOK, Below
<1>4. CASE CheckoutSave(r)
  <2>1. req[r].copy \in Record /\ req[r].copy.customer \in Customers
    BY <1>0, <1>4 DEF CheckoutSave, Inv, Wired, ReqState
  <2>2. req[r].tier \in Paid
    BY <1>4 DEF CheckoutSave, Inv, Wired
  <2>3. /\ record' = req[r].copy
        /\ req' = [req EXCEPT ![r] = IdleReq]
        /\ UNCHANGED <<hook, gate, made, subs, outbox, emitted, ceiling,
                       lowered>>
    BY <1>4 DEF CheckoutSave
  <2>4. sessions' \subseteq [customer : Customers, tier : Paid]
    BY <1>4, <2>1, <2>2 DEF CheckoutSave, Inv, TypeOK
  <2>5. record' \in Record /\ Sellable(record'.tier)
    BY <1>0, <2>1, <2>3
  <2>6. made' \subseteq Customers /\ lowered' \in BOOLEAN
    BY <2>3 DEF Inv, TypeOK
  <2> QED BY <2>3, <2>4, <2>5, <2>6, BlankTyped, IdleSellable, ReqStep
<1>5. CASE CheckoutFails(r)
  BY <1>5, BlankTyped, IdleSellable, ReqStep
  DEF CheckoutFails, Inv, TypeOK, Below
<1> QED BY <1>1, <1>2, <1>3, <1>4, <1>5 DEF Checkout

LEMMA DowngradeStep ==
  ASSUME Inv, NEW r \in Requests, Downgrade(r)
  PROVE  Inv'
<1> USE DEF stripe
<1>0. req[r] \in ReqState /\ Sellable(req[r].copy.tier)
  BY DEF Inv, TypeOK, Below
<1>1. CASE \E t \in Tiers : DowngradeRead(r, t)
  <2>0. PICK t \in Tiers, read \in Read : \E copy \in Downgraded(read, t) :
          req' = [req EXCEPT ![r] = [pc |-> "lower", tier |-> t, copy |-> copy]]
    BY <1>1 DEF DowngradeRead
  <2>1. PICK copy \in Downgraded(read, t) :
          req' = [req EXCEPT ![r] = [pc |-> "lower", tier |-> t, copy |-> copy]]
    BY <2>0
  <2>2. copy \in Record /\ Sellable(copy.tier)
    BY ReadSellable, DowngradedSellable DEF Inv, TypeOK
  <2> DEFINE q == [pc |-> "lower", tier |-> t, copy |-> copy]
  <2>3. q \in ReqState /\ q.pc = "lower" /\ q.copy = copy
    BY <2>2 DEF ReqState
  <2>4. req' = [req EXCEPT ![r] = q]
    BY <2>1
  <2>5. UNCHANGED <<record, hook, gate, stripe, lowered>>
    BY <1>1 DEF DowngradeRead
  <2> HIDE DEF q
  <2> QED BY <2>2, <2>3, <2>4, <2>5, ReqStep DEF Inv, TypeOK, Below
<1>2. CASE DowngradeSave(r)
  <2>1. req[r].copy \in Record
    BY <1>0 DEF ReqState
  <2> QED BY <1>0, <1>2, <2>1, BlankTyped, IdleSellable, ReqStep
          DEF DowngradeSave, Inv, TypeOK
<1>3. CASE DowngradeFails(r)
  BY <1>3, BlankTyped, IdleSellable, ReqStep
  DEF DowngradeFails, Inv, TypeOK, Below
<1> QED BY <1>1, <1>2, <1>3 DEF Downgrade

\* A step of a delivery: the events that others hold stay in the outbox.
LEMMA HookStep ==
  ASSUME Inv, NEW h \in Hooks, NEW q \in HookState,
         Sellable(q.copy.tier),
         hook' = [hook EXCEPT ![h] = q],
         outbox' \subseteq outbox,
         q.pc = "save" => q.event \in outbox',
         \A g \in Hooks \ {h} : hook[g].pc = "save" =>
           hook[g].event \notin outbox \ outbox' \/ "duplicate" \in Adversity,
         q.pc = "save" =>
           \A g \in Hooks \ {h} :
             hook[g].event # q.event \/ "duplicate" \in Adversity,
         record' \in Record, Sellable(record'.tier), lowered' \in BOOLEAN,
         UNCHANGED <<req, gate, made, sessions, subs, emitted, ceiling>>
  PROVE  Inv'
<1>1. TypeOK'
  <2>1. hook' \in [Hooks -> HookState]
    BY DEF Inv, TypeOK
  <2>2. ASSUME NEW g \in Hooks, hook'[g].pc = "save"
        PROVE  \/ hook'[g].event \in outbox'
               \/ "duplicate" \in Adversity /\ hook'[g].event \in Event
    BY <2>2 DEF Inv, TypeOK
  <2> QED BY <2>1, <2>2 DEF Inv, TypeOK, GateState, ReqState, Event, SubState
<1>2. Wired'
  BY DEF Inv, TypeOK, Wired
<1>3. Below'
  BY DEF Inv, TypeOK, Below, Sellable
<1> QED BY <1>1, <1>2, <1>3 DEF Inv

\* What an event makes of a record is a record, of a tier that was sold.
LEMMA AppliedSellable ==
  ASSUME Inv, NEW e \in outbox
  PROVE  Applied(record, e) \in Record /\ Sellable(Applied(record, e).tier)
<1>1. /\ record \in Record /\ e.sub \in Subs /\ e.price \in Prices
      /\ ceiling \in Tiers /\ Sellable(TierForPrice[e.price])
  BY DEF Inv, TypeOK, Below, Event
<1>2. /\ [record EXCEPT !.tier = "FREE", !.sub = NoOne] \in Record
      /\ [record EXCEPT !.tier = "FREE", !.sub = NoOne].tier = "FREE"
  BY <1>1 DEF Record, Tiers
<1>3. LET a == [record EXCEPT !.tier = TierForPrice[e.price], !.sub = e.sub]
      IN  a \in Record /\ a.tier = TierForPrice[e.price]
  BY <1>1, PriceTable DEF Record
<1> QED BY <1>1, <1>2, <1>3, RankTable DEF Applied, Sellable

LEMMA WebhookStep ==
  ASSUME Inv, NEW h \in Hooks, Webhook(h)
  PROVE  Inv'
<1> USE DEF stripe
<1>0. hook[h] \in HookState /\ Sellable(hook[h].copy.tier)
  BY DEF Inv, TypeOK, Below
<1>1. CASE \E e \in outbox : HookRead(h, e)
  <2>1. PICK e \in outbox : HookRead(h, e)
    BY <1>1
  <2> DEFINE q == [pc |-> "save", event |-> e, copy |-> Applied(record, e)]
  <2>2. q \in HookState /\ q.event = e /\ Sellable(q.copy.tier)
    BY AppliedSellable DEF HookState, Inv, TypeOK
  <2>3. hook' = [hook EXCEPT ![h] = q]
    BY <2>1 DEF HookRead
  <2>4. \A g \in Hooks : hook[g].event # e \/ "duplicate" \in Adversity
    BY <2>1 DEF HookRead, MayDeliver, Handled
  <2>5. UNCHANGED <<record, req, gate, stripe, lowered>>
    BY <2>1 DEF HookRead
  <2> HIDE DEF q
  <2> QED BY <2>2, <2>3, <2>4, <2>5, HookStep DEF Inv, TypeOK, Below
<1>2. CASE \E e \in outbox : HookIgnores(h, e)
  <2>1. PICK e \in outbox : HookIgnores(h, e)
    BY <1>2
  <2>2. outbox' \subseteq outbox /\ outbox \ outbox' \subseteq {e}
    BY <2>1 DEF HookIgnores, Acked
  <2>3. \A g \in Hooks : hook[g].event # e \/ "duplicate" \in Adversity
    BY <2>1 DEF HookIgnores, MayDeliver, Handled
  <2>4. hook[h].pc # "save"
    BY <2>1 DEF HookIgnores, MayDeliver
  <2>5. hook' = [hook EXCEPT ![h] = hook[h]]
    BY <2>1 DEF HookIgnores, Inv, TypeOK
  <2>6. UNCHANGED <<record, req, gate, made, sessions, subs, emitted, ceiling,
                    lowered>>
    BY <2>1 DEF HookIgnores
  <2>7. record' \in Record /\ Sellable(record'.tier) /\ lowered' \in BOOLEAN
    BY <2>6 DEF Inv, TypeOK, Below
  <2> DEFINE q == hook[h]
  <2>8. q \in HookState /\ Sellable(q.copy.tier) /\ q.pc # "save"
    BY <1>0, <2>4
  <2>9. hook' = [hook EXCEPT ![h] = q]
    BY <2>5
  <2>10. \A g \in Hooks \ {h} : hook[g].pc = "save" =>
           hook[g].event \notin outbox \ outbox' \/ "duplicate" \in Adversity
    BY <2>2, <2>3
  <2> HIDE DEF q
  <2> QED BY <2>2, <2>6, <2>7, <2>8, <2>9, <2>10, HookStep
<1>3. CASE HookSave(h)
  <2>1. outbox' \subseteq outbox /\ outbox \ outbox' \subseteq {hook[h].event}
    BY <1>3 DEF HookSave, Acked
  <2>2. \A g \in Hooks \ {h} : hook[g].pc = "save" =>
          hook[g].event # hook[h].event \/ "duplicate" \in Adversity
    BY <1>3 DEF HookSave, Inv, Wired
  <2>3. hook[h].copy \in Record
    BY <1>0 DEF HookState
  <2>4. /\ record' = hook[h].copy /\ lowered' = FALSE
        /\ hook' = [hook EXCEPT ![h] = IdleHook]
        /\ UNCHANGED <<req, gate, made, sessions, subs, emitted, ceiling>>
    BY <1>3 DEF HookSave
  <2> QED BY <1>0, <2>1, <2>2, <2>3, <2>4, BlankTyped, IdleSellable, HookStep
<1>4. CASE HookFails(h)
  <2>1. /\ hook' = [hook EXCEPT ![h] = IdleHook]
        /\ UNCHANGED <<record, req, gate, stripe, lowered>>
    BY <1>4 DEF HookFails
  <2> QED BY <2>1, BlankTyped, IdleSellable, HookStep DEF Inv, TypeOK, Below
<1> QED BY <1>1, <1>2, <1>3, <1>4 DEF Webhook, Receive

-----------------------------------------------------------------------------
(* The middleware, Stripe and restarts.                                    *)

LEMMA GateStep ==
  ASSUME Inv, gate' \in GateState,
         gate'.tier # "none" => Sellable(gate'.tier),
         UNCHANGED <<record, req, hook, stripe, lowered>>
  PROVE  Inv'
<1> USE DEF stripe
<1>1. TypeOK'
  BY DEF Inv, TypeOK
<1>2. Wired'
  BY DEF Inv, Wired
<1>3. Below'
  BY DEF Inv, Below, Sellable
<1> QED BY <1>1, <1>2, <1>3 DEF Inv

\* The tier the middleware goes by was sold.
LEMMA ResolvedSellable ==
  ASSUME Inv, NEW key \in Keys
  PROVE  Resolved(key) \in Tiers /\ Sellable(Resolved(key))
<1>1. /\ record.tier \in Tiers /\ gate.tier \in Tiers \cup {"none"}
      /\ ceiling \in Tiers
  BY DEF Inv, TypeOK, Record, GateState
<1> QED BY <1>1, RankTable DEF Inv, Below, Sellable, Resolved, Tiers

LEMMA GatesStep ==
  ASSUME Inv, NEW key \in Keys, NEW size \in Sizes, Gate(key, size)
  PROVE  Inv'
<1>1. gate.age \in 0..(TTL - 1) /\ 0 \in 0..(TTL - 1)
  BY BillingAssumption DEF Inv, TypeOK, GateState
<1>2. gate' \in GateState /\ gate'.tier \in {gate.tier, Resolved(key)}
  BY <1>1, ResolvedSellable DEF Gate, GateState, Inv, TypeOK
<1>3. UNCHANGED <<record, req, hook, stripe, lowered>>
  BY DEF Gate
<1> QED BY <1>2, <1>3, ResolvedSellable, GateStep DEF Inv, Below

LEMMA TickStep == ASSUME Inv, Tick PROVE Inv'
<1>1. gate \in GateState /\ 0 \in 0..(TTL - 1)
  BY BillingAssumption DEF Inv, TypeOK
<1>2. /\ gate' \in GateState
      /\ gate'.tier \in {gate.tier, "none"}
  <2>1. CASE gate.age + 1 = TTL
    <3>1. gate' = [gate EXCEPT !.tier = "none", !.age = 0]
      BY <2>1 DEF Tick
    <3> QED BY <1>1, <3>1 DEF GateState
  <2>2. CASE gate.age + 1 # TTL
    <3>1. gate' = [gate EXCEPT !.age = @ + 1]
      BY <2>2 DEF Tick
    <3>2. gate.age + 1 \in 0..(TTL - 1)
      BY <1>1, <2>2, BillingAssumption DEF GateState
    <3> QED BY <1>1, <3>1, <3>2 DEF GateState
  <2> QED BY <2>1, <2>2
<1>3. UNCHANGED <<record, req, hook, stripe, lowered>>
  BY DEF Tick
<1> QED BY <1>2, <1>3, GateStep DEF Inv, Below

\* A change of a subscription that Stripe reports: the events are about a
\* customer and a price whose tier was sold.
LEMMA EmitStep ==
  ASSUME Inv, NEW u \in Subs, NEW s \in SubState, s.customer \in Customers,
         subs' = [subs EXCEPT ![u] = s],
         NEW kinds \in Seq({"created", "updated", "deleted"}), Emit(kinds, u),
         ceiling' \in Tiers, Rank[ceiling] <= Rank[ceiling'],
         Priced = Paid => Rank[TierForPrice[s.price]] <= Rank[ceiling'],
         sessions' \subseteq [customer : Customers, tier : Paid],
         UNCHANGED <<record, req, hook, gate, made, lowered>>
  PROVE  Inv'
<1>1. subs' \in [Subs -> SubState] /\ subs'[u] = s
  BY DEF Inv, TypeOK
<1>2. Len(kinds) \in Nat /\ \A i \in 1..Len(kinds) :
        kinds[i] \in {"created", "updated", "deleted"}
  OBVIOUS
<1>3. emitted \in 0..MaxEvents /\ emitted' \in 0..MaxEvents
  BY <1>2, BillingAssumption DEF Emit, Inv, TypeOK
<1>4. ASSUME NEW e \in outbox' \ outbox
      PROVE  e \in Event /\ e.price = s.price
  <2>1. PICK i \in 1..Len(kinds) : e = About(emitted + i, kinds[i], u, s)
    BY <1>1 DEF Emit
  <2>2. emitted + i \in 1..MaxEvents
    BY <1>2, <1>3, BillingAssumption DEF Emit, Inv, TypeOK
  <2>3. s.price \in Prices
    BY DEF SubState
  <2> QED BY <1>2, <2>1, <2>2, <2>3 DEF About, Event
<1>5. outbox \subseteq outbox'
  BY DEF Emit
<1>6. outbox' \subseteq Event
  BY <1>4 DEF Inv, TypeOK
<1>7. TypeOK'
  BY <1>1, <1>3, <1>5, <1>6 DEF Inv, TypeOK
<1>8. Wired'
  BY <1>1 DEF Inv, TypeOK, Wired
<1>9. ASSUME NEW t \in Tiers, Sellable(t) 
      PROVE  Priced = Paid => Rank[t] <= Rank[ceiling']
  BY <1>9, RankTable DEF Sellable, Inv, TypeOK
<1>10. Below'
  <2>1. Sellable(record.tier)'
    BY <1>9 DEF Inv, TypeOK, Below, Record, Sellable
  <2>2. \A r \in Requests : Sellable(req[r].copy.tier)'
    BY <1>9 DEF Inv, TypeOK, Below, Record, ReqState, Sellable
  <2>3. \A h \in Hooks : Sellable(hook[h].copy.tier)'
    BY <1>9 DEF Inv, TypeOK, Below, Record, HookState, Sellable
  <2>4. gate'.tier # "none" => Sellable(gate.tier)'
    BY <1>9 DEF Inv, TypeOK, Below, GateState, Sellable
  <2>5. \A v \in Subs : Sellable(TierForPrice[subs[v].price])'
    <3>1. \A v \in Subs \ {u} : /\ subs'[v] = subs[v]
                                /\ subs[v].price \in Prices
      BY DEF Inv, TypeOK, SubState
    <3> QED BY <1>1, <1>9, <3>1, PriceTable DEF Inv, Below, Sellable
  <2>6. \A e \in outbox' : Sellable(TierForPrice[e.price])'
    <3>1. \A e \in outbox : TierForPrice[e.price] \in Tiers
      BY PriceTable DEF Inv, TypeOK, Event
    <3> QED BY <1>4, <1>9, <3>1 DEF Inv, Below, Sellable
  <2> QED BY <2>1, <2>2, <2>3, <2>4, <2>5, <2>6 DEF Below
<1> QED BY <1>7, <1>8, <1>10 DEF Inv

LEMMA StripeStep == ASSUME Inv, Stripe PROVE Inv'
<1>0. PICK u \in Subs :
        Pay(u) \/ (\E p \in Prices : ChangePrice(u, p)) \/ Cancel(u)
  BY DEF Stripe
<1>a. /\ subs \in [Subs -> SubState] /\ subs[u] \in SubState
      /\ ceiling \in Tiers /\ Rank[ceiling] \in Nat
      /\ sessions \subseteq [customer : Customers, tier : Paid]
  BY RankTable DEF Inv, TypeOK
<1>1. CASE Pay(u)
  <2>1. PICK s \in sessions :
          /\ sessions' = sessions \ {s}
          /\ subs' = [subs EXCEPT ![u] =
                        [status |-> "active", customer |-> s.customer,
                         price |-> PriceForTier[s.tier]]]
          /\ ceiling' = Higher(ceiling, s.tier)
    BY <1>1 DEF Pay
  <2> DEFINE new == [status |-> "active", customer |-> s.customer,
                     price |-> PriceForTier[s.tier]]
  <2>2. s.customer \in Customers /\ s.tier \in Paid /\ s.tier \in Tiers
    BY <1>a, PriceTable
  <2>3. new \in SubState /\ new.customer \in Customers
    BY <2>2, PriceTable DEF SubState
  <2>4. Priced = Paid => TierForPrice[new.price] = s.tier
    BY <2>2, PriceTable
  <2>5. /\ ceiling' \in Tiers /\ Rank[ceiling] <= Rank[ceiling']
        /\ Rank[s.tier] <= Rank[ceiling']
    BY <1>a, <2>1, <2>2, HigherBounds
  <2>6. Emit(<<"created", "updated">>, u)
    BY <1>1 DEF Pay
  <2>7. <<"created", "updated">> \in Seq({"created", "updated", "deleted"})
    OBVIOUS
  <2>8. /\ sessions' \subseteq [customer : Customers, tier : Paid]
        /\ UNCHANGED <<record, req, hook, gate, made, lowered>>
    BY <1>1, <1>a, <2>1 DEF Pay
  <2>9. subs' = [subs EXCEPT ![u] = new]
    BY <2>1
  <2> HIDE DEF new
  <2> QED BY <2>3, <2>4, <2>5, <2>6, <2>7, <2>8, <2>9, EmitStep
<1>2. CASE \E p \in Prices : ChangePrice(u, p)
  <2>1. PICK p \in Prices : ChangePrice(u, p)
    BY <1>2
  <2> DEFINE new == [subs[u] EXCEPT !.price = p]
  <2>2. subs[u].customer \in Customers
    BY <2>1 DEF ChangePrice, Inv, Wired
  <2>3. new \in SubState /\ new.customer \in Customers /\ new.price = p
    BY <1>a, <2>2 DEF SubState
  <2>4. Buys[p] \in Tiers /\ (Priced = Paid => TierForPrice[p] = Buys[p])
    BY PriceTable
  <2>5. /\ ceiling' \in Tiers /\ Rank[ceiling] <= Rank[ceiling']
        /\ Priced = Paid => Rank[TierForPrice[p]] <= Rank[ceiling']
    BY <1>a, <2>1, <2>4, HigherBounds DEF ChangePrice
  <2>6. Emit(<<"updated">>, u)
    BY <2>1 DEF ChangePrice
  <2>7. <<"updated">> \in Seq({"created", "updated", "deleted"})
    OBVIOUS
  <2>8. /\ sessions' \subseteq [customer : Customers, tier : Paid]
        /\ UNCHANGED <<record, req, hook, gate, made, lowered>>
    BY <1>a, <2>1 DEF ChangePrice
  <2>9. subs' = [subs EXCEPT ![u] = new]
    BY <2>1 DEF ChangePrice
  <2> HIDE DEF new
  <2> QED BY <2>3, <2>5, <2>6, <2>7, <2>8, <2>9, EmitStep
<1>3. CASE Cancel(u)
  <2> DEFINE new == [subs[u] EXCEPT !.status = "deleted"]
  <2>1. subs[u].customer \in Customers
    BY <1>3 DEF Cancel, Inv, Wired
  <2>2. /\ new \in SubState /\ new.customer \in Customers
        /\ new.price = subs[u].price
    BY <1>a, <2>1 DEF SubState
  <2>3. /\ ceiling' \in Tiers /\ Rank[ceiling] <= Rank[ceiling']
        /\ Priced = Paid => Rank[TierForPrice[new.price]] <= Rank[ceiling']
    BY <1>3, <1>a, <2>2 DEF Cancel, Inv, Below, Sellable
  <2>4. Emit(<<"deleted">>, u)
    BY <1>3 DEF Cancel
  <2>5. <<"deleted">> \in Seq({"created", "updated", "deleted"})
    OBVIOUS
  <2>6. /\ sessions' \subseteq [customer : Customers, tier : Paid]
        /\ UNCHANGED <<record, req, hook, gate, made, lowered>>
    BY <1>3, <1>a DEF Cancel
  <2>7. subs' = [subs EXCEPT ![u] = new]
    BY <1>3 DEF Cancel
  <2> HIDE DEF new
  <2> QED BY <2>2, <2>3, <2>4, <2>5, <2>6, <2>7, EmitStep
<1> QED BY <1>0, <1>1, <1>2, <1>3

LEMMA RestartStep == ASSUME Inv, Restart PROVE Inv'
<1>0. /\ req' = [r \in Requests |-> IdleReq]
      /\ hook' = [h \in Hooks |-> IdleHook]
      /\ gate' = [tier |-> "none", age |-> 0, answer |-> "none"]
      /\ UNCHANGED <<record, made, sessions, subs, outbox, emitted, ceiling,
                     lowered>>
  BY DEF Restart, stripe
<1>1. TypeOK'
  <2>1. req' \in [Requests -> ReqState] /\ hook' \in [Hooks -> HookState]
    BY <1>0, BlankTyped
  <2>2. \A h \in Hooks : hook'[h].pc # "save"
    BY <1>0, BlankTyped
  <2>3. gate' \in GateState
    BY <1>0, BillingAssumption DEF GateState
  <2> QED BY <1>0, <2>1, <2>2, <2>3 DEF Inv, TypeOK
<1>2. Wired'
  BY <1>0, BlankTyped DEF Inv, Wired
<1>3. Below'
  BY <1>0, BlankTyped, IdleSellable DEF Inv, Below, Sellable
<1> QED BY <1>1, <1>2, <1>3 DEF Inv

LEMMA NextInv == ASSUME Inv, [Next]_vars PROVE Inv'
<1>1. CASE \E r \in Requests : Checkout(r) \/ Downgrade(r)
  BY <1>1, CheckoutStep, DowngradeStep
<1>2. CASE \E h \in Hooks : Webhook(h)
  BY <1>2, WebhookStep
<1>3. CASE \E key \in Keys, size \in Sizes : Gate(key, size)
  BY <1>3, GatesStep
<1>4. CASE Tick
  BY <1>4, TickStep
<1>5. CASE Stripe
  BY <1>5, StripeStep
<1>6. CASE Restart
  BY <1>6, RestartStep
<1>7. CASE UNCHANGED vars
  BY <1>7 DEF vars, stripe, Inv, TypeOK, Wired, Below, Sellable
<1> QED BY <1>1, <1>2, <1>3, <1>4, <1>5, <1>6, <1>7 DEF Next

-----------------------------------------------------------------------------
(* The theorems.                                                           *)

\* Whatever the adversity, when both paid tiers have a price every tier stored,
\* cached, held by a handler or waiting in an event was sold: api/billing.py and
\* billing/middleware.py.
THEOREM OnlySoldTiers == Spec => []Inv
<1>1. Init => Inv
  BY InitInv
<1>2. Inv /\ [Next]_vars => Inv'
  BY NextInv
<1> QED BY <1>1, <1>2, PTL DEF Spec

\* The variables of the billing handlers and of the middleware keep their types.
THEOREM TypeCorrect == Spec => []TypeOK
<1>1. Inv => TypeOK
  BY DEF Inv
<1> QED BY <1>1, OnlySoldTiers, PTL

-----------------------------------------------------------------------------
(* BillingAccount implements Entitlement.                                  *)

\* The tiers the refinement mapping shows.
GateHolds == IF gate.tier = "none" THEN "FREE" ELSE gate.tier

Holds == [p \in {"record", "gate"} |->
            IF p = "record" THEN record.tier
            ELSE IF gate.tier = "none" THEN "FREE" ELSE gate.tier]

\* A step moves the record, or what the middleware holds, or sells a tier.
Moves ==
  \/ UNCHANGED <<ceiling, gate>>
  \/ UNCHANGED <<ceiling, record>>
  \/ /\ \E t \in Tiers : ceiling' = Higher(ceiling, t)
     /\ UNCHANGED <<record, gate>>

LEMMA EveryStepMoves == ASSUME Inv, [Next]_vars PROVE Moves
<1> USE DEF stripe, Moves
<1>1. CASE \E r \in Requests : Checkout(r) \/ Downgrade(r)
  BY <1>1 DEF Checkout, CheckoutRead, CheckoutCustomer, CheckoutSession,
     CheckoutSave, CheckoutFails, Downgrade, DowngradeRead, DowngradeSave,
     DowngradeFails
<1>2. CASE \E h \in Hooks : Webhook(h)
  BY <1>2 DEF Webhook, Receive, HookRead, HookIgnores, HookSave, HookFails
<1>3. CASE (\E key \in Keys, size \in Sizes : Gate(key, size)) \/ Tick \/ Restart
  BY <1>3 DEF Gate, Tick, Restart
<1>4. CASE Stripe
  <2>1. PICK u \in Subs :
          Pay(u) \/ (\E p \in Prices : ChangePrice(u, p)) \/ Cancel(u)
    BY <1>4 DEF Stripe
  <2>2. CASE Pay(u)
    <3>1. PICK s \in sessions : ceiling' = Higher(ceiling, s.tier)
      BY <2>2 DEF Pay
    <3>2. s.tier \in Tiers
      BY PriceTable DEF Inv, TypeOK
    <3> QED BY <2>2, <3>1, <3>2 DEF Pay
  <2>3. CASE \E p \in Prices : ChangePrice(u, p)
    BY <2>3, PriceTable DEF ChangePrice
  <2>4. CASE Cancel(u)
    BY <2>4 DEF Cancel
  <2> QED BY <2>1, <2>2, <2>3, <2>4
<1>5. CASE UNCHANGED vars
  BY <1>5 DEF vars
<1> QED BY <1>1, <1>2, <1>3, <1>4, <1>5 DEF Next

LEMMA EntitledStep ==
  ASSUME Priced = Paid, Inv, Inv', [Next]_vars
  PROVE  [Entitled!Next]_<<ceiling, Holds>>
<1>0. /\ record.tier \in Tiers /\ record'.tier \in Tiers
      /\ Sellable(record.tier)'
      /\ GateHolds' \in Tiers /\ Sellable(GateHolds)'
  <2>1. record.tier \in Tiers /\ record'.tier \in Tiers /\ Sellable(record.tier)'
    BY DEF Inv, TypeOK, Record, Below
  <2>2. GateHolds' \in Tiers
    BY DEF GateHolds, Inv, TypeOK, GateState, Tiers
  <2>3. ceiling' \in Tiers
    BY DEF Inv, TypeOK
  <2>4. Sellable(GateHolds)'
    BY <2>3, RankTable DEF GateHolds, Sellable, Inv, Below
  <2> QED BY <2>1, <2>2, <2>4
<1>1. Moves
  BY EveryStepMoves
<1>2. CASE UNCHANGED <<ceiling, gate>>
  <2>0. PICK t \in Tiers : t = record'.tier
    BY <1>0
  <2>1. Holds' = [Holds EXCEPT !["record"] = t]
    BY <1>2, <2>0 DEF Holds
  <2>2. Rank[t] <= Rank[ceiling]
    BY <1>0, <1>2, <2>0 DEF Sellable
  <2>3. Entitled!Hold("record", t)
    BY <1>2, <2>1, <2>2 DEF Entitled!Hold, Holds
  <2> QED BY <2>3 DEF Entitled!Next
<1>3. CASE UNCHANGED <<ceiling, record>>
  <2>0. PICK t \in Tiers : t = GateHolds'
    BY <1>0
  <2>1. Holds' = [Holds EXCEPT !["gate"] = t]
    BY <1>3, <2>0 DEF Holds, GateHolds
  <2>2. Rank[t] <= Rank[ceiling]
    BY <1>0, <1>3, <2>0 DEF Sellable
  <2>3. Entitled!Hold("gate", t)
    BY <1>3, <2>1, <2>2 DEF Entitled!Hold, Holds
  <2> QED BY <2>3 DEF Entitled!Next
<1>4. CASE /\ \E t \in Tiers : ceiling' = Higher(ceiling, t)
           /\ UNCHANGED <<record, gate>>
  <2>1. PICK t \in Tiers : ceiling' = Higher(ceiling, t)
    BY <1>4
  <2>2. Holds' = Holds
    BY <1>4 DEF Holds
  <2>3. Entitled!Sell(t)
    BY <2>1, <2>2 DEF Entitled!Sell, Higher, Holds
  <2> QED BY <2>3 DEF Entitled!Next
<1> QED BY <1>1, <1>2, <1>3, <1>4 DEF Moves

\* What billing promises: neither the record nor the middleware's cache ever
\* shows a tier above the highest one Stripe sold the tenant, however the
\* handlers of api/billing.py interleave and whatever fails.  Both paid tiers
\* must have a price: an empty one is the price of a subscription without items
\* (billing/stripe_service.py:66-72).
THEOREM Implements ==
  ASSUME Priced = Paid
  PROVE  Spec => ImplementsEntitlement
<1>1. Init => Entitled!Init
  BY RankTable DEF Init, Blank, Entitled!Init
<1>2. Inv /\ Inv' /\ [Next]_vars => [Entitled!Next]_<<ceiling, Holds>>
  BY EntitledStep
<1> QED
  BY <1>1, <1>2, OnlySoldTiers, PTL
  DEF Spec, ImplementsEntitlement, Entitled!Spec, Holds
=============================================================================
