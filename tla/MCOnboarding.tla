---------------------------- MODULE MCOnboarding ----------------------------
(* Small instances of Onboarding: one Azure session, for another tenant, and *)
(* one AWS session.                                                          *)
EXTENDS Onboarding

CONSTANTS x1, theirs

MCCustomer == [s \in Sessions |-> theirs]
MCAccount == [m \in MemSessions |-> x1]

\* All but the history of the mirrors, which no action reads: states that differ
\* in it alone have the same futures.  Sound for properties not about it.
ButMirrors == <<azure, mem, consent, linked, store, task>>
=============================================================================
