----------------------------- MODULE Onboarding -----------------------------
(***************************************************************************)
(* Onboarding sessions: the Azure ones of api/subscriptions.py, stored in  *)
(* Cosmos DB, and the AWS and GCP ones of api/onboarding_v1.py, kept in    *)
(* the memory of one process, together with the cloud connections that     *)
(* connecting a session makes.                                             *)
(*                                                                         *)
(* A handler reads its session at the start, awaits Azure, the consent or  *)
(* the subscriptions container, and upserts the whole copy at the end.     *)
(***************************************************************************)
EXTENDS CloudConnections

-----------------------------------------------------------------------------
(* Consent.                                                                *)

Consented(c) == c = Home \/ c \in consent

\* has_active_consent for another tenant than one's own: a read that fails is
\* no consent.
ConsentSeen(c) == {Consented(c)} \cup IF Failing /\ c # Home THEN {FALSE} ELSE {}

\* Whose subscriptions may be listed and added.
Permitted(c) == AuthDisabled \/ Consented(c)

\* GET /subscriptions/consent-callback: the consent is recorded, then the
\* session that the state parameter names is looked up, if it names one.
CallbackConsent(h, c, s) ==
  /\ Admitted(h)
  /\ consent' = consent \cup {c}
  /\ task' = IF s = None THEN task
             ELSE [task EXCEPT ![h].pc = "callback", ![h].session = s]
  /\ UNCHANGED <<azure, mem, linked, mirrored, store>>

-----------------------------------------------------------------------------
(* Azure sessions.                                                         *)

New(status) == [status |-> status, discovered |-> {}, connected |-> {}]

\* The consent is looked up, then a new document is written.
CreateSession(h, s) ==
  /\ Admitted(h)
  /\ azure[s] = None
  /\ \A g \in Slots : task[g].session # s
  /\ \E seen \in IF AuthDisabled THEN {TRUE} ELSE ConsentSeen(Customer[s]) :
       task' = [task EXCEPT ![h] =
         [IdleTask EXCEPT !.pc = "put", !.session = s,
            !.copy = New(IF seen THEN "pending_reader" ELSE "pending_consent")]]
  /\ UNCHANGED <<sessions, store>>

\* A handler has read session s; the later write will replace the document.
Reads(h, s, pc, copy) ==
  /\ azure[s] # None
  /\ task' = [task EXCEPT ![h] =
                [IdleTask EXCEPT !.pc = pc, !.session = s, !.copy = copy]]
  /\ UNCHANGED <<sessions, store>>

\* GET: a session that waits for consent looks for it, with its next await.
GetSession(h, s) ==
  /\ Admitted(h)
  /\ azure[s] # None /\ azure[s].status = "pending_consent"
  /\ Reads(h, s, "consent", azure[s])

\* Bug: the status is stored under the name the v1 routes give it.
GetConsentV1Status(h) ==
  /\ task[h].pc = "consent"
  /\ \E seen \in ConsentSeen(Customer[task[h].session]) :
       IF seen THEN task' = [task EXCEPT ![h].pc = "put",
                                         ![h].copy.status = "trust_pending"]
       ELSE Ends(h)
  /\ UNCHANGED <<sessions, store>>

GetConsent(h) ==
  /\ task[h].pc = "consent"
  /\ \E seen \in ConsentSeen(Customer[task[h].session]) :
       IF seen THEN task' = [task EXCEPT ![h].pc = "put",
                                         ![h].copy.status = "pending_reader"]
       ELSE Ends(h)
  /\ UNCHANGED <<sessions, store>>

\* POST .../reader-granted, whatever the status.
ReaderGranted(h, s) ==
  /\ Admitted(h)
  /\ azure[s] # None
  /\ Reads(h, s, "put", [azure[s] EXCEPT !.status = "pending_discovery"])

\* The rest of the callback: the session waits for the Reader role, whatever
\* its status and its customer.
CallbackSession(h) ==
  /\ task[h].pc = "callback"
  /\ LET s == task[h].session IN
     \/ Reads(h, s, "put", [azure[s] EXCEPT !.status = "pending_reader"])
     \/ /\ azure[s] = None \/ Failing
        /\ Ends(h) /\ UNCHANGED <<sessions, store>>

\* POST .../discover, v1 verify: the read.
DiscoverRead(h, s) == Admitted(h) /\ azure[s] # None /\ Reads(h, s, "list", azure[s])

\* Bug: the consent is left to the session's status.
DiscoverListUnchecked(h) ==
  /\ task[h].pc = "list"
  /\ \/ \E found \in SUBSET Scopes :
          task' = [task EXCEPT ![h].pc = "put",
                     ![h].copy.status = "subscriptions_discovered",
                     ![h].copy.discovered = found]
     \/ Ends(h)
  /\ UNCHANGED <<sessions, store>>

\* discover_subscriptions: 400 without consent or Reader role, 502 when Azure
\* fails; else what Azure shows, but for what the operator has linked.
DiscoverList(h) ==
  /\ task[h].pc = "list"
  /\ \/ /\ Permitted(Customer[task[h].session])
        /\ \E found \in SUBSET Scopes :
             task' = [task EXCEPT ![h].pc = "put",
                        ![h].copy.status = "subscriptions_discovered",
                        ![h].copy.discovered = found]
     \/ Ends(h)
  /\ UNCHANGED <<sessions, store>>

\* POST .../connect, by the older or the v1 route: the scopes named, or else
\* those discovered; 400 when there are none.
ConnectRead(h, s, named, v1) ==
  /\ Admitted(h)
  /\ azure[s] # None
  /\ LET picked == IF named # {} THEN named ELSE azure[s].discovered IN
     /\ picked # {}
     /\ task' = [task EXCEPT ![h] =
                   [IdleTask EXCEPT !.pc = "add", !.session = s,
                      !.copy = azure[s], !.scopes = picked, !.todo = picked,
                      !.v1 = v1]]
  /\ UNCHANGED <<sessions, store>>

\* add_subscription for the next scope: it wants the customer's consent, but in
\* development.
ConnectAdd(h) ==
  /\ task[h].pc = "add"
  /\ Permitted(Customer[task[h].session])
  /\ \E x \in task[h].todo :
       /\ linked' = linked \cup {[customer |-> Customer[task[h].session],
                                  scope |-> x]}
       /\ task' = [task EXCEPT ![h].todo = @ \ {x}]
  /\ UNCHANGED <<azure, mem, consent, mirrored, store>>

\* Bug: a scope that cannot be added is skipped and counted as connected.
ConnectRejectedQuietly(h) ==
  /\ task[h].pc = "add" /\ task[h].todo # {}
  /\ \/ "reject" \in Adversity \/ Failing
     \/ ~Permitted(Customer[task[h].session])
  /\ \E x \in task[h].todo : task' = [task EXCEPT ![h].todo = @ \ {x}]
  /\ UNCHANGED <<sessions, store>>

\* The cap, the access probe, the consent or a store: the exception leaves what
\* was linked, and the session as it was.
ConnectRejected(h) ==
  /\ task[h].pc = "add" /\ task[h].todo # {}
  /\ \/ "reject" \in Adversity \/ Failing
     \/ ~Permitted(Customer[task[h].session])
  /\ Ends(h)
  /\ UNCHANGED <<sessions, store>>

\* Bug: an earlier connect is forgotten.
CompletedAfresh(copy, picked) ==
  [copy EXCEPT !.status = "completed", !.connected = picked]

Completed(copy, picked) ==
  [copy EXCEPT !.status = "completed", !.connected = @ \cup picked]

ConnectAdded(h) ==
  /\ task[h].pc = "add" /\ task[h].todo = {}
  /\ task' = [task EXCEPT ![h].pc = "save",
                          ![h].copy = Completed(@, task[h].scopes)]
  /\ UNCHANGED <<sessions, store>>

\* The upsert that ends connect; the v1 route goes on to the connection, with
\* all the scopes ever connected in the session.
ConnectSave(h) ==
  /\ task[h].pc = "save"
  /\ azure' = [azure EXCEPT ![task[h].session] = task[h].copy]
  /\ IF task[h].v1
     THEN task' = [task EXCEPT ![h].pc = "conn", ![h].copy = None,
                               ![h].scopes = task[h].copy.connected]
     ELSE Ends(h)
  /\ UNCHANGED <<mem, consent, linked, mirrored, store>>

\* The upsert of the other handlers.
SessionPut(h) ==
  /\ task[h].pc = "put"
  /\ azure' = [azure EXCEPT ![task[h].session] = task[h].copy]
  /\ Ends(h)
  /\ UNCHANGED <<mem, consent, linked, mirrored, store>>

\* It raises: 500.
SessionPutFails(h) ==
  /\ Failing /\ task[h].pc \in {"put", "save"}
  /\ Ends(h)
  /\ UNCHANGED <<sessions, store>>

-----------------------------------------------------------------------------
(* AWS and GCP sessions: no handler awaits between its read and its write. *)

MemBecomes(m, status) ==
  /\ mem' = [mem EXCEPT ![m] = status]
  /\ UNCHANGED <<azure, consent, linked, mirrored, store>>

MemCreate(h, m) ==
  /\ Admitted(h) /\ mem[m] = "none"
  /\ MemBecomes(m, "initiated") /\ UNCHANGED task

MemGenerate(h, m) ==
  /\ Admitted(h) /\ mem[m] # "none"
  /\ MemBecomes(m, "trust_pending") /\ UNCHANGED task

\* The three checks pass, whatever the cloud would say.
MemVerify(h, m) ==
  /\ Admitted(h) /\ mem[m] # "none"
  /\ MemBecomes(m, "verified") /\ UNCHANGED task

\* The scopes named, or else the one account; the status is set before the
\* connection is stored.
MemConnect(h, m, named) ==
  /\ Admitted(h) /\ mem[m] # "none"
  /\ MemBecomes(m, "connected")
  /\ task' = [task EXCEPT ![h] =
       [IdleTask EXCEPT !.pc = "conn", !.session = m,
          !.scopes = IF named # {} THEN named ELSE {Account[m]}]]

-----------------------------------------------------------------------------
(* What follows the connection.                                            *)

\* Azure: every scope; AWS and GCP: the account, whatever was selected.
ToMirror(h) ==
  IF task[h].session \in MemSessions THEN {Account[task[h].session]}
  ELSE task[h].scopes

\* A scope that cannot be mirrored is logged.
Mirror(h) ==
  /\ task[h].pc = "mirror"
  /\ \E done \in SUBSET ToMirror(h) :
       /\ done = ToMirror(h) \/ Failing
       /\ mirrored' = mirrored \cup done
  /\ Ends(h)
  /\ UNCHANGED <<azure, mem, consent, linked, store>>

Restart ==
  /\ "crash" \in Adversity
  /\ mem' = [m \in MemSessions |-> "none"]
  /\ held' = [c \in Conns |-> None] /\ credHeld' = {}
  /\ task' = [h \in Slots |-> IdleTask]
  /\ UNCHANGED <<azure, consent, linked, mirrored, conn, cred, revoked, failed>>

-----------------------------------------------------------------------------

AzureStep(h) ==
  \/ \E s \in Sessions :
       \/ CreateSession(h, s) \/ GetSession(h, s) \/ ReaderGranted(h, s)
       \/ DiscoverRead(h, s)
       \/ \E named \in SUBSET Scopes, v1 \in BOOLEAN :
            ConnectRead(h, s, named, v1)
  \/ \E c \in Customers, s \in Sessions \cup {None} : CallbackConsent(h, c, s)
  \/ GetConsent(h) \/ CallbackSession(h) \/ DiscoverList(h)
  \/ ConnectAdd(h) \/ ConnectRejected(h) \/ ConnectAdded(h) \/ ConnectSave(h)
  \/ SessionPut(h) \/ SessionPutFails(h)

MemStep(h) ==
  \E m \in MemSessions :
    \/ MemCreate(h, m) \/ MemGenerate(h, m) \/ MemVerify(h, m)
    \/ \E named \in SUBSET Scopes : MemConnect(h, m, named)

Next ==
  \/ \E h \in Slots :
       AzureStep(h) \/ MemStep(h) \/ ConnectionStep(h) \/ Mirror(h)
  \/ Restart

Spec == Init /\ [][Next]_vars

-----------------------------------------------------------------------------
(* Properties.                                                             *)

\* Every variable has its type; a handler that writes has what it writes.
TypeOK ==
  /\ azure \in [Sessions -> Session \cup {None}]
  /\ mem \in [MemSessions -> MemStatus]
  /\ consent \subseteq Customers
  /\ linked \subseteq [customer : Customers, scope : Scopes]
  /\ mirrored \subseteq Scopes
  /\ conn \in [Conns -> Connection \cup {None}]
  /\ held \in [Conns -> Connection \cup {None}]
  /\ cred \subseteq Conns /\ credHeld \subseteq Conns
  /\ revoked \subseteq Conns /\ failed \subseteq Conns
  /\ task \in [Slots -> Task]
  /\ \A h \in Slots :
       /\ task[h].pc \in {"consent", "list", "add", "save", "put"} =>
            task[h].session \in Sessions /\ task[h].copy # None
       /\ task[h].pc = "callback" => task[h].session \in Sessions
       /\ task[h].pc \in {"cred", "refresh", "disconnect", "query", "delete"} =>
            task[h].conn # None
       /\ task[h].pc \in {"refresh", "disconnect"} => task[h].rec # None

\* Outside development nothing of another tenant's is discovered, linked or
\* connected without that tenant's consent on record: the session's status, which the callback and
\* reader-granted set whatever it was, lets nobody past the check.
ConsentBeforeAccess ==
  ~AuthDisabled =>
    /\ \A s \in Sessions :
         azure[s] # None /\ azure[s].discovered \cup azure[s].connected # {}
           => Consented(Customer[s])
    /\ \A l \in linked : Consented(l.customer)

\* What a session says it connected was linked, one and all: a connect that
\* fails halfway, a retry or a stale copy claims nothing more.
ConnectedWasLinked ==
  \A s \in Sessions :
    azure[s] # None =>
      \A x \in azure[s].connected :
        [customer |-> Customer[s], scope |-> x] \in linked

\* One request at a time: what a session connected it never forgets, however
\* often it is verified, connected or sent back to an earlier status.
ConnectedNeverForgotten ==
  [][\A s \in Sessions :
       azure[s] # None => azure[s].connected \subseteq azure'[s].connected]_vars

\* One request at a time: what was disconnected stays so, through restarts,
\* unless a failed call left another version in memory.
DisconnectIsFinal ==
  [][\A c \in Conns \ failed :
       conn[c] # None /\ conn[c].status = "disconnected" =>
         conn'[c].status = "disconnected"]_vars

\* "Invalidate credential references" (api/onboarding_v1.py:1396): once DELETE
\* was answered 204, no reference is left, even where an earlier DELETE of the
\* same connection died between its two writes, or another connection's calls
\* failed.
DisconnectRevokes == (revoked \ failed) \cap (cred \cup credHeld) = {}

-----------------------------------------------------------------------------
(* What the documents say and the code does not.                           *)

Idle == \A h \in Slots : task[h].pc = "idle"

Active == {c \in Conns : conn[c] # None /\ conn[c].status = "active"}

\* "verify is the only path to verified; connect allowed only from verified"
\* (docs/multicloud-onboarding-design.md:62-63).
ConnectOnlyFromVerified ==
  [][\A m \in MemSessions :
       mem'[m] = "connected" => mem[m] \in {"verified", "connected"}]_vars

\* "Stop scheduler fan-out for that connection"
\* (docs/multicloud-onboarding-design.md:206): what is scanned is connected.
DisconnectStopsScans ==
  Idle => \A x \in mirrored : \E c \in Active : x \in conn[c].scopes

\* "Create/update cloud connection and credential reference records"
\* (api/onboarding_v1.py:624): connecting again does not make another.
OneConnectionEach ==
  \A c, d \in Active : c # d => conn[c].scopes # conn[d].scopes

\* The same without the exception.
RevokedMeansGone == revoked \cap (cred \cup credHeld) = {}

\* "Link discovered subscriptions and mark onboarding complete"
\* (api/subscriptions.py:844): nothing is linked that no session tells of.
LinkedIsConnected ==
  Idle => \A l \in linked : \E s \in Sessions :
    azure[s] # None /\ Customer[s] = l.customer /\ l.scope \in azure[s].connected

\* "mark onboarding complete" (api/subscriptions.py:844): a session that is
\* complete stays complete, whatever the callback and the other routes do.
CompleteStaysComplete ==
  [][\A s \in Sessions :
       azure[s] # None /\ azure[s].status = "completed" =>
         azure'[s].status = "completed"]_vars

\* "Connect selected scopes, persist connection metadata, and mark connected"
\* (api/onboarding_v1.py:1218): a connected session has its connection.
ConnectedHasConnection ==
  Idle => \A m \in MemSessions :
    mem[m] = "connected" => \E c \in Conns : conn[c] # None

\* The scopes of a connection are scanned ("so the timer-driven scan picks it
\* up automatically", api/onboarding_v1.py:1269).
ConnectedIsScanned ==
  Idle => \A c \in Active : conn[c].scopes \subseteq mirrored
=============================================================================
