-------------------------- MODULE OnboardingProofs --------------------------
(***************************************************************************)
(* Onboarding, whatever the requests, their interleaving and what fails:   *)
(* consent comes before access, and nothing is claimed that was not        *)
(* linked.                                                                 *)
(***************************************************************************)
EXTENDS Onboarding, TLAPS

\* A handler that holds a copy of a session, and what it has to be sure of.
Writing == {"consent", "list", "add", "save", "put"}

TaskOK(q) ==
  /\ q \in Task
  /\ q.pc \in Writing => q.session \in Sessions /\ q.copy # None
  /\ q.pc = "callback" => q.session \in Sessions
  /\ q.pc \in {"cred", "refresh", "disconnect", "query", "delete"} =>
       q.conn # None
  /\ q.pc \in {"refresh", "disconnect"} => q.rec # None

LinkedFor(s) ==
  {x \in Scopes : [customer |-> Customer[s], scope |-> x] \in linked}

\* A copy of session s claims nothing that was not linked, and shows nothing
\* without consent.
Honest(s, copy) ==
  /\ copy.connected \subseteq LinkedFor(s)
  /\ copy.discovered \cup copy.connected # {} => Permitted(Customer[s])

TaskHonest(q) ==
  /\ q.pc \in Writing => Honest(q.session, q.copy)
  /\ q.pc = "add" => /\ q.todo \subseteq q.scopes
                     /\ q.scopes \ q.todo \subseteq LinkedFor(q.session)

LinksConsented == \A l \in linked : Permitted(l.customer)

SessionsHonest == \A s \in Sessions : azure[s] # None => Honest(s, azure[s])

Claims ==
  /\ SessionsHonest
  /\ LinksConsented
  /\ \A h \in Slots : TaskHonest(task[h])

Inv == TypeOK /\ Claims

StoreTyped ==
  /\ conn \in [Conns -> Connection \cup {None}]
  /\ held \in [Conns -> Connection \cup {None}]
  /\ cred \subseteq Conns /\ credHeld \subseteq Conns
  /\ revoked \subseteq Conns /\ failed \subseteq Conns

SessionsTyped ==
  /\ azure \in [Sessions -> Session \cup {None}]
  /\ mem \in [MemSessions -> MemStatus]
  /\ consent \subseteq Customers
  /\ linked \subseteq [customer : Customers, scope : Scopes]
  /\ mirrored \subseteq Scopes

LEMMA TypeParts ==
  TypeOK <=> /\ StoreTyped /\ SessionsTyped
             /\ task \in [Slots -> Task] /\ \A h \in Slots : TaskOK(task[h])
BY DEF TypeOK, StoreTyped, SessionsTyped, TaskOK, Writing

-----------------------------------------------------------------------------
(* What every step has in common.                                          *)

LEMMA IdleFits == TaskOK(IdleTask) /\ TaskHonest(IdleTask)
<1>1. IdleTask \in Task
  BY DEF IdleTask, Task, Steps
<1>2. IdleTask.pc = "idle"
  BY DEF IdleTask
<1> QED BY <1>1, <1>2 DEF TaskOK, TaskHonest, Writing

\* More consents and more links leave an honest copy honest.
LEMMA HonestStays ==
  ASSUME NEW s \in Sessions, NEW copy, Honest(s, copy),
         consent \subseteq consent', linked \subseteq linked'
  PROVE  Honest(s, copy)'
BY DEF Honest, LinkedFor, Permitted, Consented

LEMMA TaskHonestStays ==
  ASSUME NEW q, TaskOK(q), TaskHonest(q),
         consent \subseteq consent', linked \subseteq linked'
  PROVE  TaskHonest(q)'
<1>1. q.pc \in Writing => Honest(q.session, q.copy)'
  <2> SUFFICES ASSUME q.pc \in Writing PROVE Honest(q.session, q.copy)'
    OBVIOUS
  <2>1. q.session \in Sessions /\ Honest(q.session, q.copy)
    BY DEF TaskOK, TaskHonest
  <2> QED BY <2>1 DEF Honest, LinkedFor, Permitted, Consented
<1>2. q.pc = "add" => /\ q.todo \subseteq q.scopes
                      /\ q.scopes \ q.todo \subseteq LinkedFor(q.session)'
  BY DEF TaskHonest, LinkedFor
<1> QED BY <1>1, <1>2 DEF TaskHonest

\* A step of handler h that leaves it as q.
LEMMA TaskStep ==
  ASSUME Inv, NEW h \in Slots, NEW q, TaskOK(q), TaskHonest(q)',
         task' = [task EXCEPT ![h] = q],
         SessionsTyped', StoreTyped',
         consent \subseteq consent', linked \subseteq linked',
         LinksConsented',
         SessionsHonest'
  PROVE  Inv'
<1>0. /\ task \in [Slots -> Task]
      /\ \A g \in Slots : TaskOK(task[g]) /\ TaskHonest(task[g])
  BY TypeParts DEF Inv, Claims
<1>1. task' \in [Slots -> Task]
  BY <1>0 DEF TaskOK
<1>2. ASSUME NEW g \in Slots PROVE TaskOK(task'[g]) /\ TaskHonest(task[g])'
  <2>1. CASE g = h
    BY <1>0, <2>1
  <2>2. CASE g # h
    <3>1. task'[g] = task[g]
      BY <1>0, <2>2
    <3>2. TaskHonest(task[g])'
      <4>1. PICK q0 : q0 = task[g]
        OBVIOUS
      <4>2. TaskOK(q0) /\ TaskHonest(q0)
        BY <1>0, <4>1
      <4>3. TaskHonest(q0)'
        BY <4>2, TaskHonestStays
      <4>4. task'[g] = q0
        BY <3>1, <4>1
      <4> QED BY <4>3, <4>4 DEF TaskHonest
    <3> QED BY <1>0, <3>1, <3>2
  <2> QED BY <2>1, <2>2
<1>3. TypeOK'
  <2>1. \A g \in Slots : TaskOK(task[g])'
    BY <1>2 DEF TaskOK
  <2> QED BY <1>1, <2>1, TypeParts DEF TypeOK, StoreTyped, SessionsTyped, TaskOK,
          Writing
<1> QED BY <1>2, <1>3 DEF Inv, Claims

\* The same when q was honest before.
LEMMA GrowStep ==
  ASSUME Inv, NEW h \in Slots, NEW q, TaskOK(q), TaskHonest(q),
         task' = [task EXCEPT ![h] = q],
         SessionsTyped', StoreTyped',
         consent \subseteq consent', linked \subseteq linked',
         LinksConsented', SessionsHonest'
  PROVE  Inv'
BY TaskHonestStays, TaskStep

\* A step that leaves the containers alone.
LEMMA QuietStep ==
  ASSUME Inv, NEW h \in Slots, NEW q, TaskOK(q), TaskHonest(q),
         task' = [task EXCEPT ![h] = q], UNCHANGED <<sessions, store>>
  PROVE  Inv'
<1>1. SessionsTyped' /\ StoreTyped'
  BY TypeParts DEF Inv, SessionsTyped, StoreTyped, sessions, store
<1>2. SessionsHonest' /\ LinksConsented'
  BY DEF Inv, Claims, SessionsHonest, LinksConsented, Honest, LinkedFor,
         Permitted, Consented, sessions
<1> QED BY <1>1, <1>2, GrowStep DEF sessions

\* A step that changes the store only.
LEMMA StoreStep ==
  ASSUME Inv, NEW h \in Slots, NEW q, TaskOK(q), TaskHonest(q),
         task' = [task EXCEPT ![h] = q], UNCHANGED sessions, StoreTyped'
  PROVE  Inv'
<1>1. SessionsTyped'
  BY TypeParts DEF Inv, SessionsTyped, sessions
<1>2. SessionsHonest' /\ LinksConsented'
  BY DEF Inv, Claims, SessionsHonest, LinksConsented, Honest, LinkedFor,
         Permitted, Consented, sessions
<1> QED BY <1>1, <1>2, GrowStep DEF sessions

LEMMA Parts ==
  ASSUME Inv
  PROVE  /\ StoreTyped /\ SessionsTyped /\ SessionsHonest /\ LinksConsented
         /\ task \in [Slots -> Task]
         /\ \A h \in Slots : TaskOK(task[h]) /\ TaskHonest(task[h])
BY TypeParts DEF Inv, Claims

\* A handler that is about to write a copy of an Azure session.
LEMMA CopyFits ==
  ASSUME NEW s \in Sessions, NEW copy \in Session, Honest(s, copy),
         NEW pc \in {"consent", "list", "put"}
  PROVE  LET q == [IdleTask EXCEPT !.pc = pc, !.session = s, !.copy = copy]
         IN  TaskOK(q) /\ TaskHonest(q)
<1> DEFINE q == [IdleTask EXCEPT !.pc = pc, !.session = s, !.copy = copy]
<1>1. q \in Task
  BY DEF IdleTask, Task, Steps
<1>2. q.pc = pc /\ q.session = s /\ q.copy = copy
  BY DEF IdleTask
<1>3. copy # None
  BY OnboardingAssumption
<1> QED BY <1>1, <1>2, <1>3 DEF TaskOK, TaskHonest, Writing

\* The status of a copy may be anything.
LEMMA StatusFree ==
  ASSUME NEW s \in Sessions, NEW copy \in Session, Honest(s, copy),
         NEW status \in SessionStatus
  PROVE  /\ [copy EXCEPT !.status = status] \in Session
         /\ Honest(s, [copy EXCEPT !.status = status])
BY DEF Session, Honest

-----------------------------------------------------------------------------
(* Azure sessions.                                                         *)

LEMMA Ended ==
  ASSUME Inv, NEW h \in Slots, Ends(h), UNCHANGED <<sessions, store>>
  PROVE  Inv'
BY IdleFits, QuietStep DEF Ends

LEMMA ReadsSafe ==
  ASSUME Inv, NEW h \in Slots, NEW s \in Sessions,
         NEW pc \in {"consent", "list", "put"}, NEW copy \in Session,
         Honest(s, copy), Reads(h, s, pc, copy)
  PROVE  Inv'
BY CopyFits, QuietStep DEF Reads

LEMMA ReadersSafe ==
  ASSUME Inv, NEW h \in Slots, NEW s \in Sessions,
         \/ CreateSession(h, s) \/ GetSession(h, s) \/ ReaderGranted(h, s)
         \/ DiscoverRead(h, s)
  PROVE  Inv'
<1>1. /\ SessionsTyped /\ SessionsHonest
  BY Parts
<1>2. ASSUME azure[s] # None
      PROVE  azure[s] \in Session /\ Honest(s, azure[s])
  BY <1>1, <1>2 DEF SessionsTyped, SessionsHonest
<1>3. CASE CreateSession(h, s)
  <2>1. PICK status \in {"pending_reader", "pending_consent"} :
          task' = [task EXCEPT ![h] =
            [IdleTask EXCEPT !.pc = "put", !.session = s, !.copy = New(status)]]
    BY <1>3 DEF CreateSession
  <2>2. New(status) \in Session /\ Honest(s, New(status))
    BY DEF New, Session, SessionStatus, Honest
  <2> QED BY <1>3, <2>1, <2>2, CopyFits, QuietStep DEF CreateSession
<1>4. CASE GetSession(h, s)
  BY <1>2, <1>4, ReadsSafe DEF GetSession
<1>5. CASE ReaderGranted(h, s)
  <2> DEFINE copy == [azure[s] EXCEPT !.status = "pending_discovery"]
  <2>1. Reads(h, s, "put", copy)
    BY <1>5 DEF ReaderGranted
  <2>2. copy \in Session /\ Honest(s, copy)
    BY <1>2, <1>5, StatusFree DEF ReaderGranted, SessionStatus
  <2> QED BY <2>1, <2>2, ReadsSafe
<1>6. CASE DiscoverRead(h, s)
  BY <1>2, <1>6, ReadsSafe DEF DiscoverRead
<1> QED BY <1>3, <1>4, <1>5, <1>6

LEMMA CallbackSafe ==
  ASSUME Inv, NEW h \in Slots, NEW c \in Customers,
         NEW s \in Sessions \cup {None}, CallbackConsent(h, c, s)
  PROVE  Inv'
<1>1. /\ StoreTyped /\ SessionsTyped /\ SessionsHonest /\ LinksConsented
      /\ TaskOK(task[h]) /\ TaskHonest(task[h]) /\ task \in [Slots -> Task]
  BY Parts
<1>2. SessionsTyped' /\ StoreTyped'
  BY <1>1 DEF CallbackConsent, SessionsTyped, StoreTyped, store
<1>3. /\ consent \subseteq consent' /\ linked \subseteq linked'
      /\ UNCHANGED azure
  BY DEF CallbackConsent
<1>4. SessionsHonest' /\ LinksConsented'
  BY <1>1, <1>3 DEF CallbackConsent, SessionsHonest, LinksConsented, Honest,
                    LinkedFor, Permitted, Consented
<1>5. PICK q : q = IF s = None THEN task[h]
                   ELSE [task[h] EXCEPT !.pc = "callback", !.session = s]
  OBVIOUS
<1>6. task' = [task EXCEPT ![h] = q]
  BY <1>1, <1>5 DEF CallbackConsent
<1>7. TaskOK(q) /\ TaskHonest(q)
  BY <1>1, <1>5 DEF TaskOK, TaskHonest, Writing, Task, Steps
<1> QED BY <1>2, <1>3, <1>4, <1>6, <1>7, GrowStep

LEMMA CallbackSessionSafe ==
  ASSUME Inv, NEW h \in Slots, CallbackSession(h)
  PROVE  Inv'
<1> DEFINE s == task[h].session
<1> DEFINE copy == [azure[s] EXCEPT !.status = "pending_reader"]
<1>1. s \in Sessions
  BY Parts DEF CallbackSession, TaskOK
<1>2. CASE Reads(h, s, "put", copy)
  <2>1. azure[s] \in Session /\ Honest(s, azure[s])
    BY <1>1, <1>2, Parts DEF Reads, SessionsTyped, SessionsHonest
  <2>2. copy \in Session /\ Honest(s, copy)
    BY <1>1, <2>1, StatusFree DEF SessionStatus
  <2> QED BY <1>1, <1>2, <2>2, ReadsSafe
<1>3. CASE Ends(h) /\ UNCHANGED <<sessions, store>>
  BY <1>3, Ended
<1> QED BY <1>2, <1>3 DEF CallbackSession

\* The handlers that hold a copy: what they know of it.
LEMMA Holds ==
  ASSUME Inv, NEW h \in Slots, task[h].pc \in Writing
  PROVE  /\ task[h] \in Task /\ task[h].session \in Sessions
         /\ task[h].copy \in Session
         /\ Honest(task[h].session, task[h].copy)
BY Parts, OnboardingAssumption DEF TaskOK, TaskHonest, Task

LEMMA GetConsentSafe ==
  ASSUME Inv, NEW h \in Slots, GetConsent(h)
  PROVE  Inv'
<1>1. task[h].pc = "consent" /\ UNCHANGED <<sessions, store>>
  BY DEF GetConsent
<1>2. CASE Ends(h)
  BY <1>1, <1>2, Ended
<1>3. CASE task' = [task EXCEPT ![h].pc = "put",
                                ![h].copy.status = "pending_reader"]
  <2> DEFINE copy == [task[h].copy EXCEPT !.status = "pending_reader"]
             q == [task[h] EXCEPT !.pc = "put", !.copy = copy]
  <2>1. /\ task[h] \in Task /\ task[h].session \in Sessions
        /\ copy \in Session /\ Honest(task[h].session, copy)
    BY <1>1, Holds, StatusFree DEF Writing, SessionStatus
  <2>2. TaskOK(q) /\ TaskHonest(q)
    BY <2>1, OnboardingAssumption
    DEF TaskOK, TaskHonest, Writing, Task, Steps
  <2>3. task' = [task EXCEPT ![h] = q]
    BY <1>3, <2>1, Parts
  <2> QED BY <1>1, <2>2, <2>3, QuietStep
<1> QED BY <1>2, <1>3 DEF GetConsent

LEMMA DiscoverListSafe ==
  ASSUME Inv, NEW h \in Slots, DiscoverList(h)
  PROVE  Inv'
<1>1. task[h].pc = "list" /\ UNCHANGED <<sessions, store>>
  BY DEF DiscoverList
<1>2. CASE Ends(h)
  BY <1>1, <1>2, Ended
<1>3. CASE ~Ends(h)
  <2>1. Permitted(Customer[task[h].session])
    BY <1>3 DEF DiscoverList
  <2>2. PICK found \in SUBSET Scopes :
          task' = [task EXCEPT ![h].pc = "put",
                     ![h].copy.status = "subscriptions_discovered",
                     ![h].copy.discovered = found]
    BY <1>3 DEF DiscoverList
  <2> DEFINE copy == [task[h].copy EXCEPT !.status = "subscriptions_discovered",
                                          !.discovered = found]
             q == [task[h] EXCEPT !.pc = "put", !.copy = copy]
  <2>3. /\ task[h] \in Task /\ task[h].session \in Sessions
        /\ copy \in Session /\ Honest(task[h].session, copy)
    BY <1>1, <2>1, Holds DEF Writing, Session, SessionStatus, Honest
  <2>4. TaskOK(q) /\ TaskHonest(q)
    BY <2>3, OnboardingAssumption
    DEF TaskOK, TaskHonest, Writing, Task, Steps
  <2>5. task' = [task EXCEPT ![h] = q]
    BY <2>2, <2>3, Parts
  <2> QED BY <1>1, <2>4, <2>5, QuietStep
<1> QED BY <1>2, <1>3

LEMMA ConnectReadSafe ==
  ASSUME Inv, NEW h \in Slots, NEW s \in Sessions, NEW named \in SUBSET Scopes,
         NEW v1 \in BOOLEAN, ConnectRead(h, s, named, v1)
  PROVE  Inv'
<1> DEFINE picked == IF named # {} THEN named ELSE azure[s].discovered
           q == [IdleTask EXCEPT !.pc = "add", !.session = s,
                   !.copy = azure[s], !.scopes = picked, !.todo = picked,
                   !.v1 = v1]
<1>1. azure[s] \in Session /\ Honest(s, azure[s])
  BY Parts DEF ConnectRead, SessionsTyped, SessionsHonest
<1>2. picked \subseteq Scopes
  BY <1>1 DEF Session
<1>3. /\ task' = [task EXCEPT ![h] = q] /\ UNCHANGED <<sessions, store>>
  BY DEF ConnectRead
<1>4. q \in Task
  BY <1>1, <1>2 DEF IdleTask, Task, Steps
<1>5. /\ q.pc = "add" /\ q.session = s /\ q.copy = azure[s]
      /\ q.scopes = picked /\ q.todo = picked
  BY DEF IdleTask
<1>6. TaskOK(q) /\ TaskHonest(q)
  BY <1>1, <1>4, <1>5, OnboardingAssumption DEF TaskOK, TaskHonest, Writing
<1> QED BY <1>3, <1>6, QuietStep

LEMMA ConnectAddSafe ==
  ASSUME Inv, NEW h \in Slots, ConnectAdd(h)
  PROVE  Inv'
<1> DEFINE c == Customer[task[h].session]
<1>1. /\ task[h].pc = "add" /\ Permitted(c)
      /\ UNCHANGED <<azure, mem, consent, mirrored, store>>
  BY DEF ConnectAdd
<1>2. PICK x \in task[h].todo :
        /\ linked' = linked \cup {[customer |-> c, scope |-> x]}
        /\ task' = [task EXCEPT ![h].todo = @ \ {x}]
  BY DEF ConnectAdd
<1>3. /\ task[h] \in Task /\ task[h].session \in Sessions /\ TaskOK(task[h])
      /\ Honest(task[h].session, task[h].copy) /\ TaskHonest(task[h])
      /\ StoreTyped /\ SessionsTyped /\ SessionsHonest /\ LinksConsented
      /\ task \in [Slots -> Task]
  BY <1>1, Holds, Parts DEF Writing
<1>4. c \in Customers /\ x \in Scopes
  BY <1>2, <1>3, OnboardingAssumption DEF Task
<1>5. SessionsTyped' /\ StoreTyped'
  BY <1>1, <1>2, <1>3, <1>4 DEF SessionsTyped, StoreTyped, store
<1>6. SessionsHonest' /\ LinksConsented'
  BY <1>1, <1>2, <1>3 DEF SessionsHonest, LinksConsented, Honest, LinkedFor,
                          Permitted, Consented
<1>7. PICK q : q = [task[h] EXCEPT !.todo = @ \ {x}]
  OBVIOUS
<1>8. /\ task' = [task EXCEPT ![h] = q]
      /\ q \in Task /\ q.pc = "add" /\ q.session = task[h].session
      /\ q.copy = task[h].copy /\ q.scopes = task[h].scopes
      /\ q.todo = task[h].todo \ {x}
  BY <1>1, <1>2, <1>3, <1>7 DEF Task
<1>9. TaskOK(q)
  BY <1>1, <1>3, <1>8 DEF TaskOK, Writing
<1>10. TaskHonest(q)'
  <2>1. Honest(q.session, q.copy)'
    BY <1>1, <1>2, <1>3, <1>8 DEF Honest, LinkedFor, Permitted, Consented
  <2>2. q.todo \subseteq q.scopes
    BY <1>1, <1>3, <1>8 DEF TaskHonest
  <2>3. q.scopes \ q.todo \subseteq LinkedFor(q.session)'
    BY <1>1, <1>2, <1>3, <1>4, <1>8 DEF TaskHonest, LinkedFor
  <2> QED BY <2>1, <2>2, <2>3 DEF TaskHonest
<1> QED BY <1>1, <1>2, <1>5, <1>6, <1>8, <1>9, <1>10, TaskStep

LEMMA ConnectAddedSafe ==
  ASSUME Inv, NEW h \in Slots, ConnectAdded(h)
  PROVE  Inv'
<1> DEFINE s == task[h].session
           copy == Completed(task[h].copy, task[h].scopes)
           q == [task[h] EXCEPT !.pc = "save", !.copy = copy]
<1>1. /\ task[h].pc = "add" /\ task[h].todo = {}
      /\ UNCHANGED <<sessions, store>>
  BY DEF ConnectAdded
<1>2. /\ task[h] \in Task /\ s \in Sessions /\ task[h].copy \in Session
      /\ Honest(s, task[h].copy) /\ TaskHonest(task[h]) /\ LinksConsented
      /\ task \in [Slots -> Task]
  BY <1>1, Holds, Parts DEF Writing
<1>3. task[h].scopes \subseteq Scopes /\ task[h].scopes \subseteq LinkedFor(s)
  BY <1>1, <1>2 DEF TaskHonest, Task
<1>4. copy \in Session /\ copy.discovered = task[h].copy.discovered
      /\ copy.connected = task[h].copy.connected \cup task[h].scopes
  BY <1>2, <1>3 DEF Completed, Session, SessionStatus
<1>5. Honest(s, copy)
  BY <1>2, <1>3, <1>4 DEF Honest, LinkedFor, LinksConsented
<1>6. /\ q \in Task /\ q.pc = "save" /\ q.session = s /\ q.copy = copy
  BY <1>2, <1>4 DEF Task, Steps
<1>7. TaskOK(q) /\ TaskHonest(q)
  BY <1>2, <1>4, <1>5, <1>6, OnboardingAssumption
  DEF TaskOK, TaskHonest, Writing
<1>8. task' = [task EXCEPT ![h] = q]
  BY <1>2 DEF ConnectAdded
<1> QED BY <1>1, <1>7, <1>8, QuietStep

\* The document becomes a copy that is honest.
LEMMA Saved ==
  ASSUME Inv, NEW h \in Slots, task[h].pc \in Writing,
         azure' = [azure EXCEPT ![task[h].session] = task[h].copy],
         UNCHANGED <<mem, consent, linked, mirrored, store>>
  PROVE  /\ SessionsTyped' /\ StoreTyped' /\ SessionsHonest' /\ LinksConsented'
         /\ consent \subseteq consent' /\ linked \subseteq linked'
<1>1. /\ task[h].session \in Sessions /\ task[h].copy \in Session
      /\ Honest(task[h].session, task[h].copy)
      /\ StoreTyped /\ SessionsTyped /\ SessionsHonest /\ LinksConsented
  BY Holds, Parts
<1>2. SessionsTyped' /\ StoreTyped'
  BY <1>1 DEF SessionsTyped, StoreTyped, store
<1>3. SessionsHonest'
  BY <1>1 DEF SessionsHonest, SessionsTyped, Honest, LinkedFor, Permitted, Consented
<1> QED BY <1>1, <1>2, <1>3 DEF LinksConsented, Permitted, Consented

LEMMA SavesSafe ==
  ASSUME Inv, NEW h \in Slots, ConnectSave(h) \/ SessionPut(h)
  PROVE  Inv'
<1>1. CASE Ends(h)
  BY <1>1, Saved, IdleFits, GrowStep
  DEF ConnectSave, SessionPut, Writing, Ends
<1>2. CASE task' = [task EXCEPT ![h].pc = "conn", ![h].copy = None,
                                ![h].scopes = task[h].copy.connected]
           /\ ConnectSave(h)
  <2>1. task[h].pc = "save" /\ task[h] \in Task /\ task[h].copy \in Session
        /\ task \in [Slots -> Task]
    BY <1>2, Holds, Parts DEF ConnectSave, Writing
  <2> DEFINE q == [task[h] EXCEPT !.pc = "conn", !.copy = None,
                                  !.scopes = task[h].copy.connected]
  <2>2. TaskOK(q) /\ TaskHonest(q)
    BY <2>1 DEF TaskOK, TaskHonest, Writing, Task, Steps, Session
  <2>3. task' = [task EXCEPT ![h] = q]
    BY <1>2, <2>1
  <2>4. /\ SessionsTyped' /\ StoreTyped' /\ SessionsHonest' /\ LinksConsented'
        /\ consent \subseteq consent' /\ linked \subseteq linked'
    BY <1>2, <2>1, Saved DEF ConnectSave, Writing
  <2> QED BY <2>2, <2>3, <2>4, GrowStep
<1> QED BY <1>1, <1>2 DEF ConnectSave, SessionPut

LEMMA AzureSafe ==
  ASSUME Inv, NEW h \in Slots, AzureStep(h)
  PROVE  Inv'
<1>1. CASE ConnectRejected(h) \/ SessionPutFails(h)
  BY <1>1, Ended DEF ConnectRejected, SessionPutFails
<1> QED
  BY <1>1, ReadersSafe, ConnectReadSafe, CallbackSafe, CallbackSessionSafe,
     GetConsentSafe, DiscoverListSafe, ConnectAddSafe, ConnectAddedSafe,
     SavesSafe
  DEF AzureStep

-----------------------------------------------------------------------------
(* Connections, and the sessions in memory.                                *)

\* A handler on a connection has no copy of a session.
LEMMA ConnectionFits ==
  ASSUME NEW q \in Task,
         q.pc \in {"conn", "cred", "mirror", "refresh", "disconnect", "query",
                   "delete"},
         q.pc \in {"cred", "refresh", "disconnect", "query", "delete"} =>
           q.conn # None,
         q.pc \in {"refresh", "disconnect"} => q.rec # None
  PROVE  TaskOK(q) /\ TaskHonest(q)
BY DEF TaskOK, TaskHonest, Writing

LEMMA StoredTyped ==
  ASSUME StoreTyped, NEW c \in Conns, NEW rec \in Connection, Stored(c, rec),
         UNCHANGED <<cred, credHeld, revoked>>
  PROVE  StoreTyped'
BY DEF StoreTyped, Stored

LEMMA UpsertSafe ==
  ASSUME Inv, NEW h \in Slots, ConnUpsert(h) \/ CredUpsert(h)
  PROVE  Inv'
<1>1. /\ task \in [Slots -> Task] /\ task[h] \in Task /\ TaskOK(task[h])
      /\ StoreTyped
  BY Parts
<1>2. CASE ConnUpsert(h)
  <2>1. PICK c \in Conns :
          /\ Stored(c, [status |-> "active", scopes |-> task[h].scopes])
          /\ task' = [task EXCEPT ![h].pc = "cred", ![h].conn = c]
    BY <1>2 DEF ConnUpsert
  <2>2. [status |-> "active", scopes |-> task[h].scopes] \in Connection
    BY <1>1 DEF Task, Connection
  <2>3. StoreTyped' /\ UNCHANGED sessions
    BY <1>1, <1>2, <2>1, <2>2, StoredTyped DEF ConnUpsert
  <2> DEFINE q == [task[h] EXCEPT !.pc = "cred", !.conn = c]
  <2>4. q \in Task /\ q.pc = "cred" /\ q.conn = c
    BY <1>1 DEF Task, Steps
  <2>5. TaskOK(q) /\ TaskHonest(q)
    BY <2>4, ConnectionFits, OnboardingAssumption
  <2>6. task' = [task EXCEPT ![h] = q]
    BY <1>1, <2>1
  <2> QED BY <2>3, <2>5, <2>6, StoreStep
<1>3. CASE CredUpsert(h)
  <2>1. task[h].conn \in Conns
    BY <1>1, <1>3 DEF CredUpsert, TaskOK, Task
  <2>2. StoreTyped' /\ UNCHANGED sessions
    BY <1>1, <1>3, <2>1 DEF CredUpsert, StoreTyped
  <2> DEFINE q == [task[h] EXCEPT !.pc = "mirror"]
  <2>3. q \in Task /\ q.pc = "mirror"
    BY <1>1 DEF Task, Steps
  <2>4. TaskOK(q) /\ TaskHonest(q)
    BY <2>3, ConnectionFits
  <2>5. task' = [task EXCEPT ![h] = q]
    BY <1>1, <1>3 DEF CredUpsert
  <2> QED BY <2>2, <2>4, <2>5, StoreStep
<1> QED BY <1>2, <1>3

LEMMA TakesSafe ==
  ASSUME Inv, NEW h \in Slots, NEW c \in Conns, NEW got \in Got(c),
         NEW status \in {"active", "disconnected"},
         NEW pc \in {"refresh", "disconnect"}, Takes(h, c, got, status, pc)
  PROVE  Inv'
<1>1. /\ task \in [Slots -> Task] /\ StoreTyped
  BY Parts
<1>2. got.rec \in Connection /\ got.alias \in BOOLEAN
      /\ (got.alias => held[c] \in Connection)
  <2>1. CASE got \in InCosmos(c)
    <3>1. got = [rec |-> conn[c], alias |-> FALSE] /\ got.rec # None
      BY <2>1 DEF InCosmos
    <3> QED BY <1>1, <3>1 DEF StoreTyped
  <2>2. CASE got \in InMemory(c)
    <3>1. got = [rec |-> held[c], alias |-> TRUE] /\ got.rec # None
      BY <2>2 DEF InMemory
    <3> QED BY <1>1, <3>1 DEF StoreTyped
  <2> QED BY <2>1, <2>2 DEF Got
<1> DEFINE rec == [got.rec EXCEPT !.status = status]
           q == [IdleTask EXCEPT !.pc = pc, !.conn = c, !.alias = got.alias,
                                 !.rec = rec]
<1>3. rec \in Connection
  BY <1>2 DEF Connection
<1>4. q \in Task /\ q.pc = pc /\ q.conn = c /\ q.rec = rec
  BY <1>2, <1>3 DEF IdleTask, Task, Steps
<1>5. TaskOK(q) /\ TaskHonest(q)
  BY <1>3, <1>4, ConnectionFits, OnboardingAssumption
<1>6. StoreTyped'
  <2>1. CASE got.alias
    <3>1. [held[c] EXCEPT !.status = status] \in Connection
      BY <1>2, <2>1 DEF Connection
    <3>2. held' = [held EXCEPT ![c] = [held[c] EXCEPT !.status = status]]
      BY <2>1 DEF Takes
    <3> QED BY <1>1, <3>1, <3>2 DEF Takes, StoreTyped
  <2>2. CASE ~got.alias
    BY <1>1, <2>2 DEF Takes, StoreTyped
  <2> QED BY <2>1, <2>2
<1>7. task' = [task EXCEPT ![h] = q] /\ UNCHANGED sessions
  BY DEF Takes
<1> QED BY <1>5, <1>6, <1>7, StoreStep

LEMMA PutsSafe ==
  ASSUME Inv, NEW h \in Slots, RefreshPut(h) \/ DisconnectPut(h)
  PROVE  Inv'
<1>1. /\ task \in [Slots -> Task] /\ task[h] \in Task /\ StoreTyped
      /\ task[h].conn \in Conns /\ task[h].rec \in Connection
  BY Parts DEF RefreshPut, DisconnectPut, TaskOK, Task
<1>2. PICK rec \in Outgoing(h) : Stored(task[h].conn, rec)
  BY DEF RefreshPut, DisconnectPut
<1>3. rec \in Connection
  BY <1>1 DEF Outgoing, Connection
<1>4. StoreTyped' /\ UNCHANGED sessions
  BY <1>1, <1>2, <1>3, StoredTyped DEF RefreshPut, DisconnectPut
<1>5. CASE RefreshPut(h)
  BY <1>4, <1>5, IdleFits, StoreStep DEF RefreshPut, Ends
<1>6. CASE DisconnectPut(h)
  <2> DEFINE q == [task[h] EXCEPT !.pc = "query", !.rec = None, !.alias = FALSE]
  <2>1. q \in Task /\ q.pc = "query" /\ q.conn = task[h].conn
    BY <1>1 DEF Task, Steps
  <2>2. TaskOK(q) /\ TaskHonest(q)
    BY <1>1, <2>1, ConnectionFits, OnboardingAssumption
  <2>3. task' = [task EXCEPT ![h] = q]
    BY <1>1, <1>6 DEF DisconnectPut
  <2> QED BY <1>4, <2>2, <2>3, StoreStep
<1> QED BY <1>5, <1>6

LEMMA CredsSafe ==
  ASSUME Inv, NEW h \in Slots, CredQuery(h) \/ CredDelete(h)
  PROVE  Inv'
<1>1. /\ task \in [Slots -> Task] /\ task[h] \in Task /\ StoreTyped
      /\ task[h].conn \in Conns
  BY Parts DEF CredQuery, CredDelete, TaskOK, Task
<1>2. StoreTyped' /\ UNCHANGED sessions
  BY <1>1 DEF CredQuery, CredDelete, Answers204, StoreTyped
<1>3. CASE Ends(h)
  BY <1>2, <1>3, IdleFits, StoreStep DEF Ends
<1>4. CASE task' = [task EXCEPT ![h].pc = "delete"]
  <2> DEFINE q == [task[h] EXCEPT !.pc = "delete"]
  <2>1. q \in Task /\ q.pc = "delete" /\ q.conn = task[h].conn
    BY <1>1 DEF Task, Steps
  <2>2. TaskOK(q) /\ TaskHonest(q)
    BY <1>1, <2>1, ConnectionFits, OnboardingAssumption
  <2>3. task' = [task EXCEPT ![h] = q]
    BY <1>1, <1>4
  <2> QED BY <1>2, <2>2, <2>3, StoreStep
<1> QED BY <1>3, <1>4 DEF CredQuery, CredDelete, Answers204

LEMMA ConnectionSafe ==
  ASSUME Inv, NEW h \in Slots, ConnectionStep(h)
  PROVE  Inv'
<1>1. ASSUME NEW c \in Conns, RefreshRead(h, c) \/ DisconnectRead(h, c)
      PROVE  Inv'
  BY <1>1, TakesSafe DEF RefreshRead, DisconnectRead
<1> QED BY <1>1, UpsertSafe, PutsSafe, CredsSafe DEF ConnectionStep

\* A step that changes mem or mirrored.
LEMMA SideStep ==
  ASSUME Inv, NEW h \in Slots, NEW q, TaskOK(q), TaskHonest(q),
         task' = [task EXCEPT ![h] = q],
         UNCHANGED <<azure, consent, linked, store>>,
         mem' \in [MemSessions -> MemStatus], mirrored' \subseteq Scopes
  PROVE  Inv'
<1>1. SessionsTyped' /\ StoreTyped'
  BY Parts DEF SessionsTyped, StoreTyped, store
<1>2. SessionsHonest' /\ LinksConsented'
  BY Parts DEF SessionsHonest, LinksConsented, Honest, LinkedFor, Permitted, Consented
<1> QED BY <1>1, <1>2, GrowStep

LEMMA MemSafe ==
  ASSUME Inv, NEW h \in Slots, MemStep(h)
  PROVE  Inv'
<1>1. PICK m \in MemSessions :
        \/ MemCreate(h, m) \/ MemGenerate(h, m) \/ MemVerify(h, m)
        \/ \E named \in SUBSET Scopes : MemConnect(h, m, named)
  BY DEF MemStep
<1>2. /\ task \in [Slots -> Task] /\ TaskOK(task[h]) /\ TaskHonest(task[h])
      /\ mem \in [MemSessions -> MemStatus] /\ mirrored \subseteq Scopes
  BY Parts DEF SessionsTyped
<1>3. CASE MemCreate(h, m) \/ MemGenerate(h, m) \/ MemVerify(h, m)
  <2>1. task' = [task EXCEPT ![h] = task[h]]
    BY <1>2, <1>3 DEF MemCreate, MemGenerate, MemVerify
  <2>2. /\ mem' \in [MemSessions -> MemStatus] /\ mirrored' \subseteq Scopes
        /\ UNCHANGED <<azure, consent, linked, store>>
    BY <1>2, <1>3
    DEF MemCreate, MemGenerate, MemVerify, MemBecomes, MemStatus
  <2> QED BY <1>2, <2>1, <2>2, SideStep
<1>4. ASSUME NEW named \in SUBSET Scopes, MemConnect(h, m, named)
      PROVE  Inv'
  <2> DEFINE q == [IdleTask EXCEPT !.pc = "conn", !.session = m,
                     !.scopes = IF named # {} THEN named ELSE {Account[m]}]
  <2>1. q \in Task /\ q.pc = "conn"
    BY OnboardingAssumption DEF IdleTask, Task, Steps
  <2>2. TaskOK(q) /\ TaskHonest(q)
    BY <2>1, ConnectionFits
  <2>3. task' = [task EXCEPT ![h] = q]
    BY <1>4 DEF MemConnect
  <2>4. /\ mem' \in [MemSessions -> MemStatus] /\ mirrored' \subseteq Scopes
        /\ UNCHANGED <<azure, consent, linked, store>>
    BY <1>2, <1>4 DEF MemConnect, MemBecomes, MemStatus
  <2> QED BY <2>2, <2>3, <2>4, SideStep
<1> QED BY <1>1, <1>3, <1>4

LEMMA MirrorSafe ==
  ASSUME Inv, NEW h \in Slots, Mirror(h)
  PROVE  Inv'
<1>1. task[h] \in Task /\ mirrored \subseteq Scopes
      /\ mem \in [MemSessions -> MemStatus]
  BY Parts DEF SessionsTyped
<1>2. ToMirror(h) \subseteq Scopes
  BY <1>1, OnboardingAssumption DEF ToMirror, Task
<1> QED BY <1>1, <1>2, IdleFits, SideStep DEF Mirror, Ends

LEMMA RestartSafe ==
  ASSUME Inv, Restart
  PROVE  Inv'
<1>1. task' \in [Slots -> Task] /\ \A h \in Slots : task'[h] = IdleTask
  BY IdleFits DEF Restart, TaskOK
<1>2. SessionsTyped' /\ StoreTyped'
  BY Parts DEF Restart, SessionsTyped, StoreTyped, MemStatus
<1>3. SessionsHonest' /\ LinksConsented'
  BY Parts DEF Restart, SessionsHonest, LinksConsented, Honest, LinkedFor,
               Permitted, Consented
<1>4. IdleTask.pc = "idle"
  BY DEF IdleTask
<1>5. \A h \in Slots : TaskHonest(task[h])'
  BY <1>1, <1>4 DEF TaskHonest, Writing
<1>6. \A h \in Slots : TaskOK(task[h])'
  BY <1>1, <1>4, IdleFits DEF TaskOK
<1>7. TypeOK'
  BY <1>1, <1>2, <1>6 DEF TypeOK, StoreTyped, SessionsTyped, TaskOK, Writing
<1> QED BY <1>3, <1>5, <1>7 DEF Inv, Claims

LEMMA StutterSafe ==
  ASSUME Inv, UNCHANGED vars
  PROVE  Inv'
BY DEF vars, sessions, store, Inv, TypeOK, Claims, SessionsHonest,
       LinksConsented, Honest, LinkedFor, Permitted, Consented, TaskHonest

LEMMA InitInv == Init => Inv
<1> SUFFICES ASSUME Init PROVE Inv
  OBVIOUS
<1>1. SessionsTyped /\ StoreTyped
  BY DEF Init, SessionsTyped, StoreTyped, MemStatus
<1>2. task \in [Slots -> Task]
      /\ \A h \in Slots : TaskOK(task[h]) /\ TaskHonest(task[h])
  BY IdleFits DEF Init, TaskOK
<1>3. SessionsHonest /\ LinksConsented
  BY DEF Init, SessionsHonest, LinksConsented
<1> QED BY <1>1, <1>2, <1>3, TypeParts DEF Inv, Claims

-----------------------------------------------------------------------------
(* The theorems.                                                           *)

\* A handler's copy claims what was linked and shows what was consented to,
\* and so do the documents, in every interleaving and with every failure.
THEOREM CopiesAreHonest == Spec => []Inv
<1>1. Inv /\ [Next]_vars => Inv'
  BY AzureSafe, MemSafe, ConnectionSafe, MirrorSafe, RestartSafe, StutterSafe
  DEF Next
<1> QED BY <1>1, InitInv, PTL DEF Spec

\* Every variable has its type; a handler that writes has what it writes.
THEOREM TypeCorrect == Spec => []TypeOK
BY CopiesAreHonest, PTL DEF Inv

\* Outside development, without a customer's consent on record nothing of it is
\* discovered, linked or connected, whatever the callback and reader-granted put
\* in its session.
THEOREM ConsentComesFirst == Spec => []ConsentBeforeAccess
<1>1. Inv => ConsentBeforeAccess
  BY Parts
  DEF ConsentBeforeAccess, SessionsHonest, LinksConsented, Honest, Permitted
<1> QED BY <1>1, CopiesAreHonest, PTL

\* What a session says it connected was linked, however its handlers overlap,
\* fail halfway or write back a stale copy.
THEOREM ClaimsAreTrue == Spec => []ConnectedWasLinked
<1>1. Inv => ConnectedWasLinked
  BY Parts DEF ConnectedWasLinked, SessionsHonest, Honest, LinkedFor
<1> QED BY <1>1, CopiesAreHonest, PTL
=============================================================================
