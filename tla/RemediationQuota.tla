-------------------------- MODULE RemediationQuota --------------------------
(***************************************************************************)
(* AI remediation of one tenant: the scan that queues findings, the Service *)
(* Bus queue, the workers and POST generate-remediation, which all share   *)
(* the monthly usage counter of the plan.                                  *)
(*                                                                         *)
(* The counter is checked before a generation and incremented after it by  *)
(* a read and an upsert; neither is serialised with anything.              *)
(***************************************************************************)
EXTENDS Integers, FiniteSets

CONSTANTS
  NumFindings,      \* findings of a scan, numbered by descending priority
  Workers,          \* concurrent runs of ai_worker_trigger
  Users,            \* concurrent POST generate-remediation requests
  Cap,              \* max_ai_remediations_per_month of the tenant's plan
  FreeCap,          \* the one of the FREE plan
  MaxRetries,       \* _MAX_RETRIES
  Ops,              \* who asks for cards: "scan", "ask"
  Adversity,        \* which hazards the environment exhibits
  Unlimited,        \* the cap of a plan without one
  Past,             \* a usage document of an earlier month
  Idle,             \* no job
  MaxQueued,        \* bound: messages per finding
  MaxDelivered      \* bound: cards per month

AllAdversity ==
  {"overlap",       \* several generations at a time
   "model_error",   \* Azure OpenAI raises or answers with malformed JSON
   "send_error",    \* Service Bus refuses a message
   "read_error",    \* a Cosmos read raises
   "write_error",   \* a Cosmos write raises, landed or not
   "redeliver",     \* the lock of a message expires while it is processed
   "crash"}         \* a host dies

Findings == 1..NumFindings
Actors   == Workers \cup Users
Usage    == 0..MaxDelivered
Steps    == {"check", "generate", "save", "resave", "count", "charge"}

\* A generation in progress; usage is the counter document it will write.
Job == [step : Steps, finding : Findings, attempt : 1..MaxRetries,
        usage : Usage \cup {Past}]

ASSUME QuotaAssumption ==
  /\ NumFindings \in Nat /\ MaxRetries \in Nat \ {0}
  /\ MaxQueued \in Nat /\ MaxDelivered \in Nat
  /\ FreeCap \in Nat
  /\ Unlimited \notin Int /\ Past \notin Int
  /\ Cap \in Nat \cup {Unlimited}
  /\ Idle \notin Job
  /\ IsFiniteSet(Actors) /\ Workers \cap Users = {}
  /\ Ops \subseteq {"scan", "ask"} /\ Adversity \subseteq AllAdversity

VARIABLES
  queue,            \* messages waiting, per finding
  sending,          \* findings a scan has still to queue
  job,              \* what each actor is generating
  locked,           \* workers that hold the lock of their message
  cards,            \* findings with a stored card
  used,             \* ai_remediations of this month's usage document
  delivered         \* cards generated and to be counted this month (history)

vars == <<queue, sending, job, locked, cards, used, delivered>>

At(step) == {a \in Actors : job[a] # Idle /\ job[a].step = step}

Busy == {a \in Actors : job[a] # Idle}

\* Serialised runs have one generation at a time.
Admitted ==
  /\ "overlap" \in Adversity \/ Busy = {}
  /\ delivered + Cardinality(Busy) < MaxDelivered

\* A failed read is taken for a missing document: the FREE plan, no usage.
PlanSeen  == {Cap} \cup (IF "read_error" \in Adversity THEN {FreeCap} ELSE {})
UsageSeen == {used} \cup (IF "read_error" \in Adversity THEN {0} ELSE {})

\* Bug: the comparison of the cap is off by one.
AllowedOneMore(cap, n) == cap # Unlimited => n <= cap

\* check_ai_quota.
Allowed(cap, n) == cap # Unlimited => n < cap

\* Bug: the lowest priorities go first.
ToSendLowest(cap, n) == {f \in Findings : cap = Unlimited \/ NumFindings - f < cap - n}

\* The findings of highest priority that fit what is left of the quota.
ToSend(cap, n) == {f \in Findings : cap = Unlimited \/ f <= cap - n}

\* Bug: the increment counts twice.
CountedTwice(n) == IF n = Past THEN used ELSE n + 2

\* increment_ai_remediations: an upsert of what was read, plus one.  A document
\* of an earlier month has an id of its own.
Counted(n) == IF n = Past THEN used ELSE n + 1

\* Bug: the attempts are counted from zero, which allows one more.
NewJobFromZero(f) == [step |-> "check", finding |-> f, attempt |-> 0, usage |-> 0]

NewJob(f) == [step |-> "check", finding |-> f, attempt |-> 1, usage |-> 0]

-----------------------------------------------------------------------------
Init ==
  /\ queue = [f \in Findings |-> 0] /\ sending = {}
  /\ job = [a \in Actors |-> Idle] /\ locked = {}
  /\ cards = {} /\ used = 0 /\ delivered = 0

\* _current_period changes; what is counted from now on counts for the new one.
NewMonth ==
  /\ used' = 0
  /\ delivered' = Cardinality(At("resave") \cup At("count"))
  /\ job' = [a \in Actors |-> IF a \in At("charge") THEN [job[a] EXCEPT !.usage = Past]
                              ELSE job[a]]
  /\ UNCHANGED <<queue, sending, locked, cards>>

-----------------------------------------------------------------------------
(* The producer: a scan queues every finding it detects that fits, the     *)
(* ones that have a card too.                                              *)

QueueFindings ==
  /\ "scan" \in Ops /\ sending = {}
  /\ \E cap \in PlanSeen, n \in UsageSeen : sending' = ToSend(cap, n)
  /\ UNCHANGED <<queue, job, locked, cards, used, delivered>>

\* In order of priority; a message that cannot be sent is logged and lost.
Send(f) ==
  /\ f \in sending /\ \A g \in sending : f <= g
  /\ sending' = sending \ {f}
  /\ \/ queue[f] < MaxQueued /\ queue' = [queue EXCEPT ![f] = @ + 1]
     \/ "send_error" \in Adversity /\ queue' = queue
  /\ UNCHANGED <<job, locked, cards, used, delivered>>

-----------------------------------------------------------------------------
(* A generation: AIWorker.process_message and generate_finding_remediation. *)

Is(a, step) == job[a] # Idle /\ job[a].step = step

Goes(a, j) == job' = [job EXCEPT ![a] = j] /\ UNCHANGED <<queue, sending, locked, used>>

\* The message is completed whatever came of it: ai_worker_trigger swallows
\* every error.
Ends(a) ==
  /\ job' = [job EXCEPT ![a] = Idle]
  /\ locked' = locked \ {a}
  /\ UNCHANGED <<queue, sending>>

Receive(w, f) ==
  /\ job[w] = Idle /\ queue[f] > 0 /\ Admitted
  /\ queue' = [queue EXCEPT ![f] = @ - 1]
  /\ job' = [job EXCEPT ![w] = NewJob(f)]
  /\ locked' = locked \cup {w}
  /\ UNCHANGED <<sending, cards, used, delivered>>

Ask(u, f) ==
  /\ "ask" \in Ops /\ job[u] = Idle /\ Admitted
  /\ Goes(u, NewJob(f)) /\ UNCHANGED <<cards, delivered>>

\* The quota check.  The lookup of an existing card compares card ids with the
\* finding's id and finds none.
Check(a) ==
  /\ Is(a, "check")
  /\ \E cap \in PlanSeen, n \in UsageSeen :
       \/ Allowed(cap, n) /\ Goes(a, [job[a] EXCEPT !.step = "generate"])
       \/ ~Allowed(cap, n) /\ Ends(a) /\ UNCHANGED used
  /\ UNCHANGED <<cards, delivered>>

\* The next attempt, or AIEngineError.
Retry(a) ==
  \/ /\ job[a].attempt < MaxRetries
     /\ Goes(a, [job[a] EXCEPT !.step = "generate", !.attempt = @ + 1])
  \/ job[a].attempt = MaxRetries /\ Ends(a) /\ UNCHANGED used

\* The call of the model; an AIEngineError of the call itself is not retried.
Generate(a) ==
  /\ Is(a, "generate")
  /\ \/ Goes(a, [job[a] EXCEPT !.step = "save"])
     \/ "model_error" \in Adversity /\ (Retry(a) \/ (Ends(a) /\ UNCHANGED used))
  /\ UNCHANGED <<cards, delivered>>

\* The worker saves the card it got once more, the route does not.
AfterSave(a) == IF a \in Workers THEN "resave" ELSE "count"

Saved(a) ==
  /\ Goes(a, [job[a] EXCEPT !.step = AfterSave(a)])
  /\ cards' = cards \cup {job[a].finding}
  /\ delivered' = delivered + 1

\* Bug: a card that could not be saved is returned all the same.
SaveFailsReturned(a) ==
  /\ Goes(a, [job[a] EXCEPT !.step = AfterSave(a)])
  /\ cards' = cards /\ delivered' = delivered + 1

\* A save that raised costs an attempt, and the model is called again.
SaveFails(a) ==
  /\ Retry(a)
  /\ cards' \in {cards, cards \cup {job[a].finding}}
  /\ UNCHANGED delivered

\* The save inside RemediationEngine.generate.
Save(a) ==
  /\ Is(a, "save")
  /\ Saved(a) \/ ("write_error" \in Adversity /\ SaveFails(a))

\* The save of the worker, whose failure is swallowed.
Resave(a) ==
  /\ Is(a, "resave")
  /\ Goes(a, [job[a] EXCEPT !.step = "count"])
  /\ \/ cards' = cards \cup {job[a].finding}
     \/ "write_error" \in Adversity /\ cards' = cards
  /\ UNCHANGED delivered

\* record_ai_remediation: the read.
Count(a) ==
  /\ Is(a, "count")
  /\ \E n \in UsageSeen : Goes(a, [job[a] EXCEPT !.step = "charge", !.usage = n])
  /\ UNCHANGED <<cards, delivered>>

\* record_ai_remediation: the upsert, whose failure is swallowed.
Charge(a) ==
  /\ Is(a, "charge")
  /\ \/ used' = Counted(job[a].usage)
     \/ "write_error" \in Adversity /\ used' = used
  /\ Ends(a)
  /\ UNCHANGED <<cards, delivered>>

-----------------------------------------------------------------------------
(* Service Bus and the hosts.                                              *)

\* The message goes back to the queue while its worker carries on.
LockExpires(w) ==
  /\ "redeliver" \in Adversity /\ w \in locked
  /\ queue[job[w].finding] < MaxQueued
  /\ queue' = [queue EXCEPT ![job[w].finding] = @ + 1]
  /\ locked' = locked \ {w}
  /\ UNCHANGED <<sending, job, cards, used, delivered>>

\* A locked message is delivered again, or dead-lettered after the last attempt.
Dies(a) ==
  /\ "crash" \in Adversity /\ job[a] # Idle
  /\ LET f == job[a].finding IN
       \/ a \in locked /\ queue[f] < MaxQueued /\ queue' = [queue EXCEPT ![f] = @ + 1]
       \/ queue' = queue
  /\ job' = [job EXCEPT ![a] = Idle]
  /\ locked' = locked \ {a}
  /\ UNCHANGED <<sending, cards, used, delivered>>

-----------------------------------------------------------------------------
Works(a) ==
  Check(a) \/ Generate(a) \/ Save(a) \/ Resave(a) \/ Count(a) \/ Charge(a)

Next ==
  \/ NewMonth \/ QueueFindings
  \/ \E f \in Findings : Send(f)
  \/ \E w \in Workers : LockExpires(w) \/ \E f \in Findings : Receive(w, f)
  \/ \E u \in Users, f \in Findings : Ask(u, f)
  \/ \E a \in Actors : Works(a) \/ Dies(a)

Spec == Init /\ [][Next]_vars

\* Months pass, the scan timer fires for ever, jobs go on, and a call that is
\* made again and again succeeds in the end.
Fairness ==
  /\ WF_vars(NewMonth) /\ WF_vars(QueueFindings)
  /\ \A f \in Findings :
       WF_vars(Send(f)) /\ SF_vars(Send(f) /\ queue' # queue)
  /\ \A w \in Workers, f \in Findings :
       LET of == job[w] # Idle /\ job[w].finding = f IN
       /\ SF_vars(Receive(w, f))
       /\ SF_vars(of /\ Check(w) /\ job'[w] # Idle)
       /\ SF_vars(of /\ Generate(w) /\ job'[w] # Idle /\ job'[w].step = "save")
       /\ SF_vars(of /\ Save(w) /\ Saved(w))
  /\ \A a \in Actors : WF_vars(Works(a))

FairSpec == Spec /\ Fairness

-----------------------------------------------------------------------------
(* Properties.                                                             *)

\* Every variable has its type, and a counter its bound.
TypeOK ==
  /\ queue \in [Findings -> 0..MaxQueued]
  /\ sending \subseteq Findings /\ cards \subseteq Findings
  /\ job \in [Actors -> Job \cup {Idle}]
  /\ locked \subseteq Workers
  /\ used \in Usage /\ delivered \in Usage

\* The plan's allowance: no more cards in a month than it includes, although
\* scans queue more messages than the quota has left.
QuotaHonoured == Cap # Unlimited => delivered <= Cap

\* Between generations the counter says what the tenant got, across the end of
\* a month too.
UsageExact == Busy = {} => used = delivered

\* The tenant is never billed for more than was generated for it: lost
\* increments, redelivery, crashes and stale upserts only ever err in its favour.
NeverOvercharged == used <= delivered

\* What is being counted is stored: a tenant pays for no card it cannot read.
ChargedCardStored ==
  \A a \in At("resave") \cup At("count") \cup At("charge") : job[a].finding \in cards

\* The finding of highest priority gets a card in the end, although every error
\* of the worker loses its message: the next scan queues it again.
TopFindingGetsCard == <>(1 \in cards)

-----------------------------------------------------------------------------
(* What the documentation says and the code does not do.                   *)

\* "If a card already exists in Cosmos it is returned immediately."
CachedCardReturned ==
  [][\A u \in Users :
       Is(u, "check") /\ job'[u] # Idle => job[u].finding \notin cards]_vars

\* "A hard failure in metering must never block paying customers": only a tenant
\* that has used up its own plan is turned away.
PayingNeverBlocked ==
  [][\A a \in Actors : Is(a, "check") /\ job'[a] = Idle => ~Allowed(Cap, used)]_vars

\* "The current-period counter (zero if absent)": it does not fall within a month.
CounterNeverFalls == [][used' >= used \/ used' = 0]_vars

\* "Each finding produces a Remediation Card": all of them, month after month.
EveryFindingGetsCard == \A f \in Findings : <>(f \in cards)
=============================================================================
