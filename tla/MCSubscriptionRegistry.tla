----------------------- MODULE MCSubscriptionRegistry -----------------------
(* Small instances of SubscriptionRegistry for TLC.                        *)
EXTENDS SubscriptionRegistry, TLC

CONSTANTS s1, s2, u1, u2

Symmetric == Permutations(Subs) \cup Permutations(Users)
=============================================================================
