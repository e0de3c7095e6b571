-------------------------- MODULE CloudConnections --------------------------
(***************************************************************************)
(* The cloud connections of one tenant and the references to their         *)
(* credentials: api/onboarding_v1.py over the repositories of onboarding/. *)
(*                                                                         *)
(* Both repositories keep a copy in the memory of the process for what     *)
(* they could not write, and answer from it when Cosmos DB does not.  A    *)
(* record read from memory is the stored object itself, so a handler that  *)
(* changes it changes the memory, and writes whatever it is by then.       *)
(***************************************************************************)
EXTENDS OnboardingState

-----------------------------------------------------------------------------
(* The repositories.                                                       *)

\* get: the document; the memory when there is none, or when the read fails.
InCosmos(c) ==
  {r \in {[rec |-> conn[c], alias |-> FALSE]} : r.rec # None}

InMemory(c) ==
  {r \in {[rec |-> held[c], alias |-> TRUE]} :
     r.rec # None /\ (conn[c] = None \/ Failing)}

Got(c) == InCosmos(c) \cup InMemory(c)

\* upsert: it lands in Cosmos DB, or in the memory, and never raises.
Stored(c, rec) ==
  \/ conn' = [conn EXCEPT ![c] = rec] /\ UNCHANGED <<held, failed>>
  \/ /\ Failing
     /\ held' = [held EXCEPT ![c] = rec] /\ failed' = failed \cup {c}
     /\ UNCHANGED conn

\* What a task may write of the connection it read: an object in memory has
\* the status that the last of the handlers sharing it put there.
Outgoing(h) ==
  {[task[h].rec EXCEPT !.status = s] :
     s \in IF task[h].alias /\ "overlap" \in Adversity
           THEN {"active", "disconnected"} ELSE {task[h].rec.status}}

Fresh(c) ==
  /\ conn[c] = None /\ held[c] = None
  /\ c \notin cred \cup credHeld \cup revoked
  /\ \A h \in Slots : task[h].conn # c

-----------------------------------------------------------------------------
(* _upsert_connection_and_credentials: every connect makes a new           *)
(* connection.                                                             *)

ConnUpsert(h) ==
  /\ task[h].pc = "conn"
  /\ \E c \in {d \in Conns : Fresh(d)} :
       /\ Stored(c, [status |-> "active", scopes |-> task[h].scopes])
       /\ task' = [task EXCEPT ![h].pc = "cred", ![h].conn = c]
  /\ UNCHANGED <<sessions, cred, credHeld, revoked>>

CredUpsert(h) ==
  /\ task[h].pc = "cred"
  /\ \/ cred' = cred \cup {task[h].conn} /\ UNCHANGED <<credHeld, failed>>
     \/ /\ Failing
        /\ credHeld' = credHeld \cup {task[h].conn}
        /\ failed' = failed \cup {task[h].conn} /\ UNCHANGED cred
  /\ task' = [task EXCEPT ![h].pc = "mirror"]
  /\ UNCHANGED <<sessions, conn, held, revoked>>

-----------------------------------------------------------------------------
(* POST /v1/cloud-connections/{id}/refresh and DELETE .../{id}.            *)

\* The read, and the status the handler puts on what it read.
Takes(h, c, got, status, pc) ==
  /\ task' = [task EXCEPT ![h] =
                [IdleTask EXCEPT !.pc = pc, !.conn = c, !.alias = got.alias,
                                 !.rec = [got.rec EXCEPT !.status = status]]]
  /\ held' = IF got.alias THEN [held EXCEPT ![c].status = status] ELSE held
  /\ UNCHANGED <<sessions, conn, cred, credHeld, revoked, failed>>

\* Bug: the status is not looked at.
RefreshReadUnguarded(h, c) ==
  /\ Admitted(h)
  /\ \E got \in Got(c) : Takes(h, c, got, "active", "refresh")

\* 400 for a connection that was disconnected.
RefreshRead(h, c) ==
  /\ Admitted(h)
  /\ \E got \in Got(c) :
       got.rec.status # "disconnected" /\ Takes(h, c, got, "active", "refresh")

RefreshPut(h) ==
  /\ task[h].pc = "refresh"
  /\ \E rec \in Outgoing(h) : Stored(task[h].conn, rec)
  /\ Ends(h)
  /\ UNCHANGED <<sessions, cred, credHeld, revoked>>

\* A connection may be disconnected again.
DisconnectRead(h, c) ==
  /\ Admitted(h)
  /\ \E got \in Got(c) : Takes(h, c, got, "disconnected", "disconnect")

DisconnectPut(h) ==
  /\ task[h].pc = "disconnect"
  /\ \E rec \in Outgoing(h) : Stored(task[h].conn, rec)
  /\ task' = [task EXCEPT ![h].pc = "query", ![h].rec = None,
                          ![h].alias = FALSE]
  /\ UNCHANGED <<sessions, cred, credHeld, revoked>>

Answers204(h) ==
  /\ Ends(h)
  /\ revoked' = revoked \cup {task[h].conn}

\* delete_by_connection looks the document up; the memory answers a query that
\* fails, and nothing found is nothing to do.
CredQuery(h) ==
  /\ task[h].pc = "query"
  /\ \E fails \in {FALSE} \cup IF Failing THEN {TRUE} ELSE {} :
       /\ IF task[h].conn \in IF fails THEN credHeld ELSE cred
          THEN task' = [task EXCEPT ![h].pc = "delete"] /\ UNCHANGED revoked
          ELSE Answers204(h)
       /\ failed' = IF fails THEN failed \cup {task[h].conn} ELSE failed
  /\ UNCHANGED <<sessions, conn, held, cred, credHeld>>

\* Bug: the document is deleted under the id of the connection, which is not
\* its own; the error is logged as any other.
CredDeleteByConnectionId(h) ==
  /\ task[h].pc = "delete"
  /\ credHeld' = credHeld \ {task[h].conn}
  /\ Answers204(h)
  /\ UNCHANGED <<sessions, conn, held, cred, failed>>

\* A delete that fails forgets what is in the memory.
CredDelete(h) ==
  /\ task[h].pc = "delete"
  /\ \/ /\ task[h].conn \in cred
        /\ cred' = cred \ {task[h].conn} /\ UNCHANGED <<credHeld, failed>>
     \/ /\ task[h].conn \notin cred \/ Failing
        /\ credHeld' = credHeld \ {task[h].conn}
        /\ failed' = failed \cup {task[h].conn} /\ UNCHANGED cred
  /\ Answers204(h)
  /\ UNCHANGED <<sessions, conn, held>>

-----------------------------------------------------------------------------

ConnectionStep(h) ==
  \/ ConnUpsert(h) \/ CredUpsert(h)
  \/ RefreshPut(h) \/ DisconnectPut(h) \/ CredQuery(h) \/ CredDelete(h)
  \/ \E c \in Conns : RefreshRead(h, c) \/ DisconnectRead(h, c)
=============================================================================
