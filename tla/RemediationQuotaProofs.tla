----------------------- MODULE RemediationQuotaProofs -----------------------
(***************************************************************************)
(* What holds of the usage counter for any plan, any number of workers,    *)
(* requests and findings, and any adversity.                               *)
(*                                                                         *)
(* used <= delivered is not inductive: a generation whose card is out but  *)
(* not counted yet has a claim on the difference, and so has every stale   *)
(* copy of the counter that is still to be written.                        *)
(***************************************************************************)
EXTENDS RemediationQuota, FiniteSetTheorems, TLAPS

Late  == At("resave") \cup At("count")
Early == At("check") \cup At("generate") \cup At("save")

Jobs == [Actors -> Job \cup {Idle}]

\* Each generation that is still to be counted has its own unit of delivered.
Claims == used + Cardinality(Late) <= delivered

\* So has each of them beside any copy of the counter that is in flight.
CopiesClaim ==
  \A a \in At("charge") :
    job[a].usage # Past => job[a].usage + 1 + Cardinality(Late) <= delivered

\* The bound on the cards of a month leaves room for the jobs in progress.
Room == delivered + Cardinality(Early) <= MaxDelivered

IInv ==
  /\ TypeOK /\ locked \subseteq Busy
  /\ ChargedCardStored /\ Claims /\ CopiesClaim /\ Room

-----------------------------------------------------------------------------
(* Sets of actors.                                                         *)

\* The actors at a step are finitely many.
LEMMA FewActors ==
  ASSUME NEW S \in SUBSET Actors
  PROVE  IsFiniteSet(S) /\ Cardinality(S) \in Nat
BY QuotaAssumption, FS_Subset, FS_CardinalityType

\* Adding or removing one actor changes a count by at most one.
LEMMA OneActor ==
  ASSUME NEW S \in SUBSET Actors, NEW a \in Actors
  PROVE  /\ Cardinality(S \cup {a}) = IF a \in S THEN Cardinality(S) ELSE Cardinality(S) + 1
         /\ Cardinality(S \ {a}) = IF a \in S THEN Cardinality(S) - 1 ELSE Cardinality(S)
BY FewActors, FS_AddElement, FS_RemoveElement

\* A smaller set of actors has a smaller count.
LEMMA FewerActors ==
  ASSUME NEW S \in SUBSET Actors, NEW T \in SUBSET S
  PROVE  Cardinality(T) <= Cardinality(S)
BY FewActors, FS_Subset

LateJob(j)  == j # Idle /\ j.step \in {"resave", "count"}
EarlyJob(j) == j # Idle /\ j.step \in {"check", "generate", "save"}

\* What one actor's move does to the groups.
LEMMA Moves ==
  ASSUME job \in Jobs, NEW a \in Actors, NEW j \in Job \cup {Idle},
         job' = [job EXCEPT ![a] = j]
  PROVE  /\ job' \in Jobs
         /\ \A b \in Actors : job'[b] = IF b = a THEN j ELSE job[b]
         /\ Late' = IF LateJob(j) THEN Late \cup {a} ELSE Late \ {a}
         /\ Early' = IF EarlyJob(j) THEN Early \cup {a} ELSE Early \ {a}
<1>1. job' \in Jobs /\ \A b \in Actors : job'[b] = IF b = a THEN j ELSE job[b]
  BY DEF Jobs
<1>2. Late' = IF LateJob(j) THEN Late \cup {a} ELSE Late \ {a}
  BY <1>1 DEF Late, At, LateJob
<1>3. Early' = IF EarlyJob(j) THEN Early \cup {a} ELSE Early \ {a}
  BY <1>1 DEF Early, At, EarlyJob
<1> QED
  BY <1>1, <1>2, <1>3

\* A move to a step of the same group, or to rest, adds to no group.
LEMMA MovesWithin ==
  ASSUME job \in Jobs, NEW a \in Actors, NEW j \in Job \cup {Idle},
         job' = [job EXCEPT ![a] = j],
         LateJob(j) => a \in Late, EarlyJob(j) => a \in Early
  PROVE  /\ job' \in Jobs
         /\ \A b \in Actors : job'[b] = IF b = a THEN j ELSE job[b]
         /\ Late' \subseteq Late /\ Early' \subseteq Early
<1>1. /\ job' \in Jobs
      /\ \A b \in Actors : job'[b] = IF b = a THEN j ELSE job[b]
      /\ Late' = IF LateJob(j) THEN Late \cup {a} ELSE Late \ {a}
      /\ Early' = IF EarlyJob(j) THEN Early \cup {a} ELSE Early \ {a}
  BY Moves
<1>2. Late' \subseteq Late
  BY <1>1
<1>3. Early' \subseteq Early
  BY <1>1
<1> QED
  BY <1>1, <1>2, <1>3

\* The groups are sets of actors, also after the step.
LEMMA Groups == Late \subseteq Actors /\ Early \subseteq Actors
                /\ Late' \subseteq Actors /\ Early' \subseteq Actors
BY DEF Late, Early, At

-----------------------------------------------------------------------------
(* One lemma per kind of step.                                             *)

\* A job that moves on without becoming a new claim, or ends.
LEMMA Steady ==
  ASSUME IInv, NEW a \in Actors, NEW j \in Job \cup {Idle},
         job' = [job EXCEPT ![a] = j],
         LateJob(j) => a \in Late, EarlyJob(j) => a \in Early,
         j # Idle => LateJob(j) \/ EarlyJob(j),
         j # Idle => j.finding = job[a].finding,
         queue' \in [Findings -> 0..MaxQueued], sending' \subseteq Findings,
         cards \subseteq cards', cards' \subseteq Findings,
         locked' \subseteq locked, j = Idle => a \notin locked',
         delivered' = delivered,
         used' \in Nat, used' + Cardinality(Late') <= delivered
  PROVE  IInv'
<1> DEFINE T == Cardinality(Late)
           U == Cardinality(Late')
<1>0. job \in Jobs
  BY DEF IInv, TypeOK, Jobs
<1>1. /\ job' \in Jobs
      /\ \A b \in Actors : job'[b] = IF b = a THEN j ELSE job[b]
      /\ Late' \subseteq Late /\ Early' \subseteq Early
  BY <1>0, MovesWithin
<1>2. /\ U <= T /\ U \in Nat /\ T \in Nat
      /\ Cardinality(Early') <= Cardinality(Early)
      /\ Cardinality(Early') \in Nat /\ Cardinality(Early) \in Nat
  BY <1>1, Groups, FewActors, FewerActors
<1>3. delivered \in Nat /\ delivered <= MaxDelivered
  BY QuotaAssumption DEF IInv, TypeOK, Usage
<1>4. used' \in Usage
  BY <1>2, <1>3, QuotaAssumption DEF Usage
<1>5. TypeOK'
  BY <1>1, <1>4 DEF IInv, TypeOK, Jobs
<1>6. (locked \subseteq Busy)'
  BY <1>1 DEF IInv, Busy, TypeOK
<1>7. ChargedCardStored'
  BY <1>1 DEF IInv, ChargedCardStored, At, LateJob, EarlyJob, Late
<1>8. Claims'
  BY DEF Claims
<1>9. CopiesClaim'
  <2>1. SUFFICES ASSUME NEW b \in At("charge")', job'[b].usage # Past
                 PROVE  job'[b].usage + 1 + U <= delivered
    BY DEF CopiesClaim
  <2>2. b \in At("charge") /\ job'[b] = job[b]
    BY <1>1, <2>1 DEF At, LateJob, EarlyJob
  <2>3. job[b].usage \in Nat
    BY <2>1, <2>2 DEF At, IInv, TypeOK, Job, Usage
  <2>4. job[b].usage + 1 + T <= delivered
    BY <2>1, <2>2 DEF IInv, CopiesClaim
  <2> HIDE DEF T, U
  <2> QED
    BY <1>2, <1>3, <2>2, <2>3, <2>4
<1>10. Room'
  BY <1>2, <1>3, QuotaAssumption DEF IInv, Room
<1> QED
  BY <1>5, <1>6, <1>7, <1>8, <1>9, <1>10 DEF IInv

\* A step of an actor that leaves the counter alone.
LEMMA Uncounted ==
  ASSUME IInv, NEW a \in Actors, NEW j \in Job \cup {Idle},
         job' = [job EXCEPT ![a] = j],
         LateJob(j) => a \in Late, EarlyJob(j) => a \in Early,
         j # Idle => LateJob(j) \/ EarlyJob(j),
         j # Idle => j.finding = job[a].finding,
         queue' \in [Findings -> 0..MaxQueued], sending' \subseteq Findings,
         cards \subseteq cards', cards' \subseteq Findings,
         locked' \subseteq locked, j = Idle => a \notin locked',
         delivered' = delivered, used' = used
  PROVE  IInv'
<1>0. job \in Jobs
  BY DEF IInv, TypeOK, Jobs
<1>1. Late' \subseteq Late
  BY <1>0, MovesWithin
<1>2. Cardinality(Late') <= Cardinality(Late)
  BY <1>1, Groups, FewerActors
<1>3. Cardinality(Late') \in Nat /\ Cardinality(Late) \in Nat
  BY Groups, FewActors
<1>4. used \in Nat /\ delivered \in Nat
  BY DEF IInv, TypeOK, Usage
<1>5. used' \in Nat /\ used' + Cardinality(Late') <= delivered
  BY <1>2, <1>3, <1>4 DEF IInv, Claims
<1> QED
  BY <1>5, Steady

\* The end of a job, whatever becomes of its message.
LEMMA EndsIInv ==
  ASSUME IInv, NEW a \in Actors, Ends(a), cards \subseteq cards',
         cards' \subseteq Findings, delivered' = delivered, used' = used
  PROVE  IInv'
<1>1. ~LateJob(Idle) /\ ~EarlyJob(Idle)
  BY DEF LateJob, EarlyJob
<1>2. queue' \in [Findings -> 0..MaxQueued] /\ sending' \subseteq Findings
  BY DEF Ends, IInv, TypeOK
<1> QED
  BY <1>1, <1>2, Uncounted DEF Ends

\* A job that moves on within its group.
LEMMA GoesIInv ==
  ASSUME IInv, NEW a \in Actors, NEW j \in Job, Goes(a, j),
         LateJob(j) \/ EarlyJob(j), j.finding = job[a].finding,
         LateJob(j) => a \in Late, EarlyJob(j) => a \in Early,
         cards \subseteq cards', cards' \subseteq Findings, delivered' = delivered
  PROVE  IInv'
<1>1. queue' \in [Findings -> 0..MaxQueued] /\ sending' \subseteq Findings
  BY DEF Goes, IInv, TypeOK
<1>2. j # Idle /\ used' = used /\ locked' \subseteq locked
  BY QuotaAssumption DEF Goes
<1> QED
  BY <1>1, <1>2, Uncounted DEF Goes

\* A failed attempt: the next one, or the end.
LEMMA RetryIInv ==
  ASSUME IInv, NEW a \in Early, Retry(a), cards \subseteq cards',
         cards' \subseteq Findings, delivered' = delivered
  PROVE  IInv'
<1>1. a \in Actors /\ job[a] \in Job
  BY DEF Early, At, IInv, TypeOK
<1>2. CASE Ends(a) /\ UNCHANGED used
  BY <1>1, <1>2, EndsIInv
<1>3. CASE /\ job[a].attempt < MaxRetries
           /\ Goes(a, [job[a] EXCEPT !.step = "generate", !.attempt = @ + 1])
  <2> DEFINE j == [job[a] EXCEPT !.step = "generate", !.attempt = @ + 1]
  <2>1. j \in Job /\ j.step = "generate" /\ j.finding = job[a].finding
    <3>0. job[a].attempt \in 1..MaxRetries
      BY <1>1 DEF Job
    <3>1. job[a].attempt + 1 \in 1..MaxRetries /\ "generate" \in Steps
      BY <1>3, <3>0, QuotaAssumption DEF Steps
    <3> DEFINE k == [job[a] EXCEPT !.step = "generate"]
    <3>2. k \in Job /\ k.step = "generate" /\ k.finding = job[a].finding
      BY <1>1, <3>1 DEF Job
    <3>3. j = [k EXCEPT !.attempt = job[a].attempt + 1]
      OBVIOUS
    <3> HIDE DEF j, k
    <3> QED
      BY <3>1, <3>2, <3>3 DEF Job
  <2>2. EarlyJob(j) /\ ~LateJob(j)
    BY <2>1, QuotaAssumption DEF EarlyJob, LateJob
  <2>3. Goes(a, j)
    BY <1>3
  <2> HIDE DEF j
  <2> QED
    BY <1>1, <2>1, <2>2, <2>3, GoesIInv
<1> QED
  BY <1>2, <1>3 DEF Retry

\* A step of the same job to another step of the same group.
LEMMA StepIInv ==
  ASSUME IInv, NEW a \in Actors, job[a] # Idle, NEW step \in Steps,
         Goes(a, [job[a] EXCEPT !.step = step]),
         \/ a \in Early /\ step \in {"check", "generate", "save"}
         \/ a \in Late /\ step \in {"resave", "count"},
         cards \subseteq cards', cards' \subseteq Findings, delivered' = delivered
  PROVE  IInv'
<1> DEFINE j == [job[a] EXCEPT !.step = step]
<1>1. j \in Job /\ j.step = step /\ j.finding = job[a].finding
  BY DEF Job, IInv, TypeOK
<1>2. j # Idle /\ Goes(a, j)
  BY <1>1, QuotaAssumption
<1> HIDE DEF j
<1>3. /\ LateJob(j) \/ EarlyJob(j)
      /\ LateJob(j) => a \in Late
      /\ EarlyJob(j) => a \in Early
  BY <1>1, <1>2 DEF LateJob, EarlyJob
<1> QED
  BY <1>1, <1>2, <1>3, GoesIInv

\* A new job finds room under the bound and claims nothing yet.
LEMMA NewJobIInv ==
  ASSUME IInv, NEW a \in Actors, NEW f \in Findings, job[a] = Idle, Admitted,
         job' = [job EXCEPT ![a] = NewJob(f)],
         queue' \in [Findings -> 0..MaxQueued],
         locked' \subseteq (locked \cup {a}), locked' \subseteq Workers,
         UNCHANGED <<sending, cards, used, delivered>>
  PROVE  IInv'
<1>1. NewJob(f) \in Job /\ NewJob(f).step = "check" /\ NewJob(f) # Idle
  BY QuotaAssumption DEF NewJob, Job, Steps, Usage
<1>2. EarlyJob(NewJob(f)) /\ ~LateJob(NewJob(f))
  BY <1>1 DEF EarlyJob, LateJob
<1>3. job \in Jobs
  BY DEF IInv, TypeOK, Jobs
<1>4. /\ job' \in Jobs
      /\ \A b \in Actors : job'[b] = IF b = a THEN NewJob(f) ELSE job[b]
      /\ Late' = Late \ {a} /\ Early' = Early \cup {a}
  BY <1>1, <1>2, <1>3, Moves
<1>5. a \notin Late /\ a \notin Early /\ Early \subseteq Busy /\ Busy \subseteq Actors
  BY DEF Late, Early, At, Busy
<1>6. Late' = Late
  BY <1>4, <1>5
<1>7. Cardinality(Early') = Cardinality(Early) + 1
  BY <1>4, <1>5, Groups, OneActor
<1>8. Cardinality(Early) <= Cardinality(Busy)
  BY <1>5, FewerActors
<1>9. Cardinality(Early) \in Nat /\ Cardinality(Busy) \in Nat
  BY <1>5, Groups, FewActors
<1>10. Room'
  BY <1>7, <1>8, <1>9, QuotaAssumption DEF Room, Admitted, IInv, TypeOK, Usage
<1>11. TypeOK' /\ (locked \subseteq Busy)'
  BY <1>1, <1>4 DEF IInv, TypeOK, Jobs, Busy
<1>12. ChargedCardStored'
  BY <1>1, <1>4 DEF IInv, ChargedCardStored, At
<1>13. Claims'
  BY <1>6 DEF IInv, Claims
<1>14. CopiesClaim'
  BY <1>1, <1>4, <1>6 DEF IInv, CopiesClaim, At
<1> QED
  BY <1>10, <1>11, <1>12, <1>13, <1>14 DEF IInv

-----------------------------------------------------------------------------
(* The actions.                                                            *)

\* With no job there is no claim.
LEMMA InitIInv == Init => IInv
<1> SUFFICES ASSUME Init PROVE IInv
  OBVIOUS
<1>1. Late = {} /\ Early = {} /\ At("charge") = {}
      /\ At("resave") = {} /\ At("count") = {}
  BY DEF Init, Late, Early, At
<1>2. Cardinality(Late) = 0 /\ Cardinality(Early) = 0
  BY <1>1, FS_EmptySet
<1>3. TypeOK /\ locked \subseteq Busy
  BY QuotaAssumption DEF Init, TypeOK, Usage
<1>4. Claims /\ Room
  BY <1>2, QuotaAssumption DEF Init, Claims, Room
<1> QED
  BY <1>1, <1>3, <1>4 DEF IInv, ChargedCardStored, CopiesClaim

\* The new month counts exactly the generations that are not counted yet.
LEMMA NewMonthIInv == IInv /\ NewMonth => IInv'
<1> SUFFICES ASSUME IInv, NewMonth PROVE IInv'
  OBVIOUS
<1>1. job \in Jobs /\ locked \subseteq Busy
  BY DEF IInv, TypeOK, Jobs
<1>2. \A a \in Actors : /\ job'[a] # Idle <=> job[a] # Idle
                        /\ job[a] # Idle => job'[a].step = job[a].step
                        /\ job[a] # Idle => job'[a].finding = job[a].finding
                        /\ a \in At("charge") => job'[a].usage = Past
                        /\ job'[a] \in Job \cup {Idle}
  <2> SUFFICES ASSUME NEW a \in Actors
               PROVE  /\ job'[a] # Idle <=> job[a] # Idle
                      /\ job[a] # Idle => job'[a].step = job[a].step
                      /\ job[a] # Idle => job'[a].finding = job[a].finding
                      /\ a \in At("charge") => job'[a].usage = Past
                      /\ job'[a] \in Job \cup {Idle}
    OBVIOUS
  <2>1. CASE a \in At("charge")
    <3>1. job[a] \in Job /\ job[a] # Idle
      BY <1>1, <2>1 DEF At, Jobs
    <3>2. job'[a] = [job[a] EXCEPT !.usage = Past]
      BY <2>1 DEF NewMonth
    <3>3. job'[a] \in Job /\ job'[a].step = job[a].step
          /\ job'[a].finding = job[a].finding /\ job'[a].usage = Past
      BY <3>1, <3>2 DEF Job
    <3> QED
      BY <3>1, <3>3, QuotaAssumption
  <2>2. CASE a \notin At("charge")
    BY <1>1, <2>2 DEF NewMonth, Jobs
  <2> QED
    BY <2>1, <2>2
<1>3. Late' = Late /\ Early' = Early /\ At("charge")' = At("charge") /\ Busy' = Busy
      /\ At("resave")' = At("resave") /\ At("count")' = At("count")
  BY <1>2 DEF Late, Early, At, Busy
<1>4. delivered' = Cardinality(Late) /\ used' = 0
  BY DEF NewMonth, Late
<1>5. Cardinality(Late) \in Nat /\ Cardinality(Early) \in Nat
  BY Groups, FewActors
<1>6. used \in Nat /\ delivered \in Nat /\ delivered <= MaxDelivered
  BY QuotaAssumption DEF IInv, TypeOK, Usage
<1>7. Cardinality(Late) <= delivered
  BY <1>5, <1>6 DEF IInv, Claims
<1>8. Claims' /\ Room'
  BY <1>3, <1>4, <1>5, <1>6, <1>7, QuotaAssumption DEF IInv, Claims, Room
<1>9. used' \in Usage /\ delivered' \in Usage
  BY <1>4, <1>5, <1>6, <1>7, QuotaAssumption DEF Usage
<1>10. job' \in [Actors -> Job \cup {Idle}]
  BY <1>2 DEF NewMonth
<1>11. TypeOK' /\ (locked \subseteq Busy)'
  BY <1>1, <1>3, <1>9, <1>10 DEF IInv, TypeOK, NewMonth
<1>12. ChargedCardStored'
  <2> SUFFICES ASSUME NEW a \in (At("resave") \cup At("count") \cup At("charge"))'
               PROVE  (job[a].finding \in cards)'
    BY DEF ChargedCardStored
  <2>1. a \in At("resave") \cup At("count") \cup At("charge") /\ a \in Actors /\ job[a] # Idle
    BY <1>3 DEF At
  <2> QED
    BY <1>2, <2>1 DEF IInv, ChargedCardStored, NewMonth
<1>13. CopiesClaim'
  BY <1>2, <1>3 DEF CopiesClaim, At
<1> QED
  BY <1>8, <1>11, <1>12, <1>13 DEF IInv

\* The producer and the queue touch no job.
LEMMA QueueIInv ==
  ASSUME IInv, UNCHANGED <<job, cards, used, delivered>>,
         queue' \in [Findings -> 0..MaxQueued], sending' \subseteq Findings,
         locked' \subseteq locked
  PROVE  IInv'
BY DEF IInv, TypeOK, Busy, ChargedCardStored, Claims, CopiesClaim, Room, Late, Early, At

\* The scan decides what to queue.
LEMMA QueueFindingsIInv == IInv /\ QueueFindings => IInv'
BY QueueIInv DEF QueueFindings, ToSend, IInv, TypeOK

\* A message is queued or lost.
LEMMA SendIInv ==
  ASSUME IInv, NEW f \in Findings, Send(f)
  PROVE  IInv'
<1>1. queue' \in [Findings -> 0..MaxQueued]
  BY QuotaAssumption DEF Send, IInv, TypeOK
<1> QED
  BY <1>1, QueueIInv DEF Send, IInv, TypeOK

\* The message of a running worker is queued again.
LEMMA LockExpiresIInv ==
  ASSUME IInv, NEW w \in Workers, LockExpires(w)
  PROVE  IInv'
<1>1. job[w].finding \in Findings
  BY DEF LockExpires, IInv, TypeOK, Busy, Job, Actors
<1>2. queue' \in [Findings -> 0..MaxQueued]
  BY <1>1, QuotaAssumption DEF LockExpires, IInv, TypeOK
<1> QED
  BY <1>2, QueueIInv DEF LockExpires, IInv, TypeOK

\* A worker takes a message.
LEMMA ReceiveIInv ==
  ASSUME IInv, NEW w \in Workers, NEW f \in Findings, Receive(w, f)
  PROVE  IInv'
<1>1. queue' \in [Findings -> 0..MaxQueued]
  BY QuotaAssumption DEF Receive, IInv, TypeOK
<1>2. w \in Actors /\ locked' \subseteq (locked \cup {w}) /\ locked' \subseteq Workers
  BY DEF Receive, Actors, IInv, TypeOK
<1> QED
  BY <1>1, <1>2, NewJobIInv DEF Receive

\* A user asks for a card.
LEMMA AskIInv ==
  ASSUME IInv, NEW u \in Users, NEW f \in Findings, Ask(u, f)
  PROVE  IInv'
<1>1. u \in Actors /\ queue' \in [Findings -> 0..MaxQueued] /\ locked' \subseteq Workers
  BY DEF Ask, Goes, Actors, IInv, TypeOK
<1> QED
  BY <1>1, NewJobIInv DEF Ask, Goes

\* Up to the save a job makes no claim.
LEMMA CheckIInv ==
  ASSUME IInv, NEW a \in Actors, Check(a)
  PROVE  IInv'
<1>1. a \in Early /\ job[a] # Idle /\ "generate" \in Steps
  BY DEF Check, Is, Early, At, Steps
<1>2. cards' = cards /\ delivered' = delivered /\ cards \subseteq Findings
  BY DEF Check, IInv, TypeOK
<1>3. CASE Goes(a, [job[a] EXCEPT !.step = "generate"])
  BY <1>1, <1>2, <1>3, StepIInv
<1>4. CASE Ends(a) /\ UNCHANGED used
  BY <1>2, <1>4, EndsIInv
<1> QED
  BY <1>3, <1>4 DEF Check

\* The model answers, or an attempt is lost.
LEMMA GenerateIInv ==
  ASSUME IInv, NEW a \in Actors, Generate(a)
  PROVE  IInv'
<1>1. a \in Early /\ job[a] # Idle /\ "save" \in Steps
  BY DEF Generate, Is, Early, At, Steps
<1>2. cards' = cards /\ delivered' = delivered /\ cards \subseteq Findings
  BY DEF Generate, IInv, TypeOK
<1>3. CASE Goes(a, [job[a] EXCEPT !.step = "save"])
  BY <1>1, <1>2, <1>3, StepIInv
<1>4. CASE Retry(a)
  BY <1>1, <1>2, <1>4, RetryIInv
<1>5. CASE Ends(a) /\ UNCHANGED used
  BY <1>2, <1>5, EndsIInv
<1> QED
  BY <1>3, <1>4, <1>5 DEF Generate

\* The save delivers the card: the claim it makes comes with its unit.
LEMMA SavedIInv ==
  ASSUME IInv, NEW a \in Early, Saved(a)
  PROVE  IInv'
<1> DEFINE j == [job[a] EXCEPT !.step = AfterSave(a)]
           T == Cardinality(Late)
           N == Cardinality(Early)
<1>1. a \in Actors /\ job[a] # Idle /\ job[a] \in Job /\ job \in Jobs
  BY DEF Early, At, IInv, TypeOK, Jobs
<1>2. AfterSave(a) \in {"resave", "count"} /\ AfterSave(a) \in Steps
  BY DEF AfterSave, Steps
<1>3. j \in Job /\ j.step = AfterSave(a) /\ j.finding = job[a].finding
  BY <1>1, <1>2 DEF Job
<1>4. j # Idle /\ LateJob(j) /\ ~EarlyJob(j)
  BY <1>2, <1>3, QuotaAssumption DEF LateJob, EarlyJob
<1>5. job' = [job EXCEPT ![a] = j]
  BY DEF Saved, Goes
<1> HIDE DEF j
<1>6. /\ job' \in Jobs
      /\ \A b \in Actors : job'[b] = IF b = a THEN j ELSE job[b]
      /\ Late' = Late \cup {a} /\ Early' = Early \ {a}
  BY <1>1, <1>3, <1>4, <1>5, Moves
<1>7. a \notin Late
  BY DEF Late, Early, At
<1>8. Cardinality(Late') = T + 1 /\ Cardinality(Early') = N - 1
  BY <1>1, <1>6, <1>7, Groups, OneActor
<1>9. T \in Nat /\ N \in Nat
  BY Groups, FewActors
<1>10. delivered' = delivered + 1 /\ delivered \in Nat /\ used \in Nat /\ used' = used
  BY DEF Saved, Goes, IInv, TypeOK, Usage
<1>11. N - 1 \in Nat
  BY <1>1, <1>6, <1>8, Groups, FewActors
<1> HIDE DEF T, N
<1>12. Claims' /\ Room'
  BY <1>8, <1>9, <1>10 DEF IInv, Claims, Room, T, N
<1>13. delivered' \in Usage
  BY <1>9, <1>10, <1>11, QuotaAssumption DEF IInv, Room, Usage, N
<1>14. TypeOK'
  BY <1>1, <1>6, <1>13 DEF IInv, TypeOK, Jobs, Saved, Goes, Job
<1>15. (locked \subseteq Busy)'
  BY <1>4, <1>6 DEF IInv, Busy, Saved, Goes
<1>16. ChargedCardStored'
  BY <1>3, <1>6 DEF IInv, ChargedCardStored, At, Saved
<1>17. CopiesClaim'
  <2> SUFFICES ASSUME NEW b \in At("charge")', job'[b].usage # Past
               PROVE  job'[b].usage + 1 + Cardinality(Late') <= delivered'
    BY DEF CopiesClaim
  <2>1. b \in At("charge") /\ job'[b] = job[b]
    BY <1>2, <1>3, <1>6 DEF At
  <2>2. job[b].usage \in Nat
    BY <2>1 DEF At, IInv, TypeOK, Job, Usage
  <2>3. job[b].usage + 1 + T <= delivered
    BY <2>1 DEF IInv, CopiesClaim, T
  <2> QED
    BY <1>8, <1>9, <1>10, <2>1, <2>2, <2>3
<1> QED
  BY <1>12, <1>14, <1>15, <1>16, <1>17 DEF IInv

\* The save lands, or costs an attempt.
LEMMA SaveIInv ==
  ASSUME IInv, NEW a \in Actors, Save(a)
  PROVE  IInv'
<1>1. a \in Early /\ job[a].finding \in Findings
  BY DEF Save, Is, Early, At, IInv, TypeOK, Job
<1>2. CASE Saved(a)
  BY <1>1, <1>2, SavedIInv
<1>3. CASE SaveFails(a)
  <2>1. cards \subseteq cards' /\ cards' \subseteq Findings /\ delivered' = delivered
    BY <1>1, <1>3 DEF SaveFails, IInv, TypeOK
  <2> QED
    BY <1>1, <1>3, <2>1, RetryIInv DEF SaveFails
<1> QED
  BY <1>2, <1>3 DEF Save

\* The second save stores the same card.
LEMMA ResaveIInv ==
  ASSUME IInv, NEW a \in Actors, Resave(a)
  PROVE  IInv'
<1>1. a \in Late /\ job[a] # Idle /\ "count" \in Steps /\ job[a].finding \in Findings
  BY DEF Resave, Is, Late, At, Steps, IInv, TypeOK, Job
<1>2. cards \subseteq cards' /\ cards' \subseteq Findings /\ delivered' = delivered
  BY <1>1 DEF Resave, IInv, TypeOK
<1>3. Goes(a, [job[a] EXCEPT !.step = "count"])
  BY DEF Resave
<1> QED
  BY <1>1, <1>2, <1>3, StepIInv

\* The read of the counter turns a claim into a copy that respects the others.
LEMMA CountIInv ==
  ASSUME IInv, NEW a \in Actors, Count(a)
  PROVE  IInv'
<1>1. PICK n \in UsageSeen : Goes(a, [job[a] EXCEPT !.step = "charge", !.usage = n])
  BY DEF Count
<1>2. n \in Usage /\ n \in Nat /\ n <= used
  BY QuotaAssumption DEF UsageSeen, IInv, TypeOK, Usage
<1> DEFINE j == [job[a] EXCEPT !.step = "charge", !.usage = n]
           k == [job[a] EXCEPT !.step = "charge"]
           T == Cardinality(Late)
<1>3. a \in Late /\ job[a] # Idle /\ job[a] \in Job /\ job \in Jobs
  BY DEF Count, Is, Late, At, IInv, TypeOK, Jobs
<1>4. job' = [job EXCEPT ![a] = j]
  BY <1>1 DEF Goes
<1>5. k \in Job /\ k.step = "charge" /\ k.finding = job[a].finding
  BY <1>3 DEF Job, Steps
<1>6. j = [k EXCEPT !.usage = n]
  OBVIOUS
<1> HIDE DEF j, k
<1>7. j \in Job /\ j.step = "charge" /\ j.usage = n /\ j.finding = job[a].finding
  BY <1>2, <1>5, <1>6 DEF Job
<1>8. j # Idle /\ ~LateJob(j) /\ ~EarlyJob(j)
  BY <1>7, QuotaAssumption DEF LateJob, EarlyJob
<1>9. /\ job' \in Jobs
      /\ \A b \in Actors : job'[b] = IF b = a THEN j ELSE job[b]
      /\ Late' = Late \ {a} /\ Early' = Early \ {a}
  BY <1>3, <1>4, <1>7, <1>8, Moves
<1>10. Early' = Early
  BY <1>9, <1>3 DEF Early, Late, At
<1>11. Cardinality(Late') = T - 1 /\ T \in Nat
  BY <1>3, <1>9, Groups, OneActor, FewActors
<1>12. delivered' = delivered /\ delivered \in Nat /\ used \in Nat /\ used' = used
  BY <1>1 DEF Count, Goes, IInv, TypeOK, Usage
<1> HIDE DEF T
<1>13. Claims'
  BY <1>11, <1>12 DEF IInv, Claims, T
<1>14. Room'
  BY <1>10, <1>12 DEF IInv, Room
<1>15. TypeOK'
  BY <1>1, <1>9 DEF IInv, TypeOK, Jobs, Count, Goes
<1>16. (locked \subseteq Busy)'
  BY <1>1, <1>8, <1>9 DEF IInv, Busy, Goes
<1>17. ChargedCardStored'
  <2>1. job[a].finding \in cards
    BY <1>3 DEF IInv, ChargedCardStored, Late
  <2> QED
    BY <1>7, <1>9, <2>1 DEF IInv, ChargedCardStored, At, Count
<1>18. CopiesClaim'
  <2> SUFFICES ASSUME NEW b \in At("charge")', job'[b].usage # Past
               PROVE  job'[b].usage + 1 + Cardinality(Late') <= delivered'
    BY DEF CopiesClaim
  <2>1. CASE b = a
    <3>1. used + T <= delivered
      BY DEF IInv, Claims, T
    <3> QED
      BY <1>2, <1>3, <1>7, <1>9, <1>11, <1>12, <2>1, <3>1
  <2>2. CASE b # a
    <3>1. b \in At("charge") /\ job'[b] = job[b]
      BY <1>9, <2>2 DEF At
    <3>2. job[b].usage \in Nat
      BY <3>1 DEF At, IInv, TypeOK, Job, Usage
    <3>3. job[b].usage + 1 + T <= delivered
      BY <3>1 DEF IInv, CopiesClaim, T
    <3> QED
      BY <1>11, <1>12, <3>1, <3>2, <3>3
  <2> QED
    BY <2>1, <2>2
<1> QED
  BY <1>13, <1>14, <1>15, <1>16, <1>17, <1>18 DEF IInv

\* The upsert of a copy writes no more than its claim.
LEMMA ChargeIInv ==
  ASSUME IInv, NEW a \in Actors, Charge(a)
  PROVE  IInv'
<1>1. a \in At("charge") /\ job[a] \in Job
  BY DEF Charge, Is, At, IInv, TypeOK
<1>2. ~LateJob(Idle) /\ ~EarlyJob(Idle) /\ job \in Jobs
  BY DEF LateJob, EarlyJob, IInv, TypeOK, Jobs
<1>3. Late' = Late \ {a}
  BY <1>2, Moves DEF Charge, Ends
<1>4. Late' = Late
  BY <1>1, <1>3 DEF At, Late
<1>5. Cardinality(Late) \in Nat /\ used \in Nat /\ delivered \in Nat
  BY Groups, FewActors DEF IInv, TypeOK, Usage
<1>6. used' \in Nat /\ used' + Cardinality(Late') <= delivered
  <2>1. CASE used' = used
    BY <1>4, <1>5, <2>1 DEF IInv, Claims
  <2>2. CASE used' = Counted(job[a].usage) /\ job[a].usage # Past
    <3>1. job[a].usage \in Nat
      BY <1>1, <2>2 DEF Job, Usage
    <3>2. used' = job[a].usage + 1
      BY <2>2 DEF Counted
    <3> QED
      BY <1>1, <1>4, <1>5, <2>2, <3>1, <3>2 DEF IInv, CopiesClaim
  <2> QED
    BY <2>1, <2>2 DEF Charge, Counted
<1>7. queue' \in [Findings -> 0..MaxQueued] /\ sending' \subseteq Findings
      /\ cards' = cards /\ cards' \subseteq Findings /\ delivered' = delivered
  BY DEF Charge, Ends, IInv, TypeOK
<1> QED
  BY <1>2, <1>6, <1>7, Steady DEF Charge, Ends

\* A host that dies drops its claim and its copy.
LEMMA DiesIInv ==
  ASSUME IInv, NEW a \in Actors, Dies(a)
  PROVE  IInv'
<1>1. ~LateJob(Idle) /\ ~EarlyJob(Idle)
  BY DEF LateJob, EarlyJob
<1>2. job[a].finding \in Findings
  BY DEF Dies, IInv, TypeOK, Job
<1>3. queue' \in [Findings -> 0..MaxQueued]
  BY <1>2, QuotaAssumption DEF Dies, IInv, TypeOK
<1>4. sending' \subseteq Findings /\ cards' = cards /\ cards' \subseteq Findings
      /\ delivered' = delivered /\ used' = used /\ locked' = locked \ {a}
      /\ job' = [job EXCEPT ![a] = Idle]
  BY DEF Dies, IInv, TypeOK
<1> QED
  BY <1>1, <1>3, <1>4, Uncounted

\* Every step keeps the invariant.
LEMMA NextIInv == IInv /\ [Next]_vars => IInv'
<1> SUFFICES ASSUME IInv, [Next]_vars PROVE IInv'
  OBVIOUS
<1>1. CASE UNCHANGED vars
  BY <1>1, QueueIInv DEF vars, IInv, TypeOK
<1>2. ASSUME NEW a \in Actors, Works(a) PROVE IInv'
  BY <1>2, CheckIInv, GenerateIInv, SaveIInv, ResaveIInv, CountIInv, ChargeIInv DEF Works
<1> QED
  BY <1>1, <1>2, NewMonthIInv, QueueFindingsIInv, SendIInv, LockExpiresIInv,
     ReceiveIInv, AskIInv, DiesIInv DEF Next

-----------------------------------------------------------------------------
\* The inductive invariant holds however workers, requests, months, failures,
\* redeliveries and crashes interleave.
THEOREM Invariance == Spec => []IInv
BY InitIInv, NextIInv, PTL DEF Spec

\* Type correctness of the quota model.
THEOREM TypeCorrect == Spec => []TypeOK
<1>1. IInv => TypeOK
  BY DEF IInv
<1> QED
  BY <1>1, Invariance, PTL

\* No lost increment, stale upsert, redelivery or crash ever bills a tenant for
\* a card that was not generated for it.
THEOREM NoOvercharge == Spec => []NeverOvercharged
<1>1. IInv => NeverOvercharged
  <2> SUFFICES ASSUME IInv PROVE NeverOvercharged
    OBVIOUS
  <2>1. Cardinality(Late) \in Nat /\ used \in Nat /\ delivered \in Nat
    BY Groups, FewActors DEF IInv, TypeOK, Usage
  <2> QED
    BY <2>1 DEF IInv, Claims, NeverOvercharged
<1> QED
  BY <1>1, Invariance, PTL

\* Whatever is counted has a card in the container.
THEOREM ChargedCardsExist == Spec => []ChargedCardStored
<1>1. IInv => ChargedCardStored
  BY DEF IInv
<1> QED
  BY <1>1, Invariance, PTL

=============================================================================
