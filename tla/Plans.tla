-------------------------------- MODULE Plans --------------------------------
(***************************************************************************)
(* The subscription tiers, the Stripe prices they are sold under, and the  *)
(* size of a scan each plan allows.                                        *)
(***************************************************************************)
EXTENDS Naturals

CONSTANT Priced   \* the paid tiers whose Stripe price is configured

Tiers == {"FREE", "PRO", "ENTERPRISE"}

\* The order downgrade_tier compares by.
Rank == [FREE |-> 0, PRO |-> 1, ENTERPRISE |-> 2]

Paid == {"PRO", "ENTERPRISE"}

ASSUME PricedAssumption == Priced \subseteq Paid

\* Prices Stripe may bill: the two on the price list, any other, and none: a
\* subscription that has no items.
Prices == {"price_pro", "price_enterprise", "price_other", ""}

PriceList == [PRO |-> "price_pro", ENTERPRISE |-> "price_enterprise"]

\* What a price on the list buys; any other buys nothing.
Buys ==
  [p \in Prices |-> IF p = PriceList["PRO"] THEN "PRO"
                    ELSE IF p = PriceList["ENTERPRISE"] THEN "ENTERPRISE"
                    ELSE "FREE"]

\* The settings: the price of a tier that is not sold is empty.
PriceForTier == [t \in Paid |-> IF t \in Priced THEN PriceList[t] ELSE ""]

\* The settings compared with a price, which may be empty as well.
TierForPrice ==
  [p \in Prices |-> IF p = PriceForTier["ENTERPRISE"] THEN "ENTERPRISE"
                    ELSE IF p = PriceForTier["PRO"] THEN "PRO"
                    ELSE "FREE"]

\* What X-Expected-Resource-Count says of a scan: nothing, up to a hundred,
\* up to a thousand, more.
Sizes == {"undeclared", "hundred", "thousand", "more"}

\* The declared sizes over max_resources_per_scan of a tier.
TooLarge ==
  [FREE |-> {"thousand", "more"}, PRO |-> {"more"}, ENTERPRISE |-> {}]

Higher(s, t) == IF Rank[s] >= Rank[t] THEN s ELSE t
=============================================================================
