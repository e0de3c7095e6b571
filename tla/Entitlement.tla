----------------------------- MODULE Entitlement -----------------------------
(***************************************************************************)
(* What billing promises about entitlements: wherever a tenant's tier is   *)
(* kept, it is never above the highest tier the tenant was ever sold.      *)
(***************************************************************************)
EXTENDS Naturals

CONSTANTS
  Places,       \* where a tier is kept
  Tiers,        \* the tiers
  Rank,         \* their order
  Lowest        \* the tier everybody has

VARIABLES
  ceiling,      \* the highest tier sold so far
  held          \* the tier kept in each place

Init ==
  /\ ceiling = Lowest
  /\ held = [p \in Places |-> Lowest]

\* Stripe sells the tenant a tier.
Sell(t) ==
  /\ ceiling' = IF Rank[ceiling] >= Rank[t] THEN ceiling ELSE t
  /\ UNCHANGED held

\* A place takes a tier up to what was sold.
Hold(p, t) ==
  /\ Rank[t] <= Rank[ceiling]
  /\ held' = [held EXCEPT ![p] = t]
  /\ UNCHANGED ceiling

Next ==
  \E t \in Tiers : Sell(t) \/ \E p \in Places : Hold(p, t)

Spec == Init /\ [][Next]_<<ceiling, held>>
=============================================================================
