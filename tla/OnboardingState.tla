-------------------------- MODULE OnboardingState --------------------------
(***************************************************************************)
(* The state of onboarding, for one operator tenant: sessions, consents,   *)
(* connections, credentials, and the handlers that work on them.           *)
(***************************************************************************)
EXTENDS FiniteSets

CONSTANTS
  Sessions,     \* ids of Azure sessions, minted by uuid4
  MemSessions,  \* ids of AWS and GCP sessions
  Conns,        \* ids of cloud connections
  Scopes,       \* subscriptions, accounts and projects
  Customers,    \* Azure tenants
  Home,         \* the operator's own one
  Customer,     \* whom an Azure session is for
  Account,      \* the account or project of an AWS or GCP session
  AuthDisabled, \* the switch of development: nobody is asked for a token
  Slots,        \* BOUND: requests under way at a time
  Adversity,    \* what may go wrong, of Adversities
  None          \* nothing

\* "overlap": requests interleave; "store_error": a call of Cosmos DB fails;
\* "reject": a subscription cannot be added; "crash": the process restarts.
Adversities == {"overlap", "store_error", "reject", "crash"}

SessionStatus ==
  {"pending_consent", "pending_reader", "pending_discovery",
   "subscriptions_discovered", "completed"}

Session == [status : SessionStatus, discovered : SUBSET Scopes,
            connected : SUBSET Scopes]

MemStatus == {"none", "initiated", "trust_pending", "verified", "connected"}

Connection == [status : {"active", "disconnected"}, scopes : SUBSET Scopes]

Steps ==
  {"idle", "consent", "list", "add", "save", "put", "callback", "conn", "cred",
   "mirror", "refresh", "disconnect", "query", "delete"}

ASSUME OnboardingAssumption ==
  /\ Adversity \subseteq Adversities
  /\ AuthDisabled \in BOOLEAN
  /\ Customer \in [Sessions -> Customers]
  /\ Account \in [MemSessions -> Scopes]
  /\ None \notin Conns \cup Sessions \cup MemSessions \cup Session
                  \cup Connection

VARIABLES
  azure,        \* the container onboarding_sessions
  mem,          \* the status of the sessions in memory
  consent,      \* customers with a document in tenant_consents
  linked,       \* HISTORY: customer and subscription, once added
  mirrored,     \* HISTORY: scopes mirrored to the operator, hence scanned
  conn,         \* the container cloud_connections
  held,         \* the memory of CloudConnectionRepository
  cred,         \* connections with a document in credential_refs
  credHeld,     \* the memory of CredentialRefRepository
  task,         \* the handlers
  revoked,      \* HISTORY: connections whose DELETE was answered 204
  failed        \* HISTORY: connections one of whose calls failed unnoticed

sessions == <<azure, mem, consent, linked, mirrored>>
store    == <<conn, held, cred, credHeld, revoked, failed>>
vars     == <<sessions, store, task>>

\* A handler: its session and the copy it will write; the scopes it is about and
\* those it has yet to link; whether it came by the v1 route; its connection,
\* the copy it will write, and whether that is the object in memory.
Task == [pc : Steps, session : Sessions \cup MemSessions \cup {None},
         copy : Session \cup {None},
         scopes : SUBSET Scopes, todo : SUBSET Scopes, v1 : BOOLEAN,
         conn : Conns \cup {None}, rec : Connection \cup {None},
         alias : BOOLEAN]

IdleTask == [pc |-> "idle", session |-> None, copy |-> None, scopes |-> {},
             todo |-> {}, v1 |-> FALSE, conn |-> None, rec |-> None,
             alias |-> FALSE]

Failing == "store_error" \in Adversity

\* Without "overlap" a request is admitted when no other is under way.
Admitted(h) ==
  /\ task[h].pc = "idle"
  /\ "overlap" \in Adversity \/ \A g \in Slots : task[g].pc = "idle"

Ends(h) == task' = [task EXCEPT ![h] = IdleTask]

Init ==
  /\ azure = [s \in Sessions |-> None]
  /\ mem = [m \in MemSessions |-> "none"]
  /\ consent = {} /\ linked = {} /\ mirrored = {}
  /\ conn = [c \in Conns |-> None] /\ held = [c \in Conns |-> None]
  /\ cred = {} /\ credHeld = {} /\ revoked = {} /\ failed = {}
  /\ task = [h \in Slots |-> IdleTask]
=============================================================================
