----------------------- MODULE FindingLifecycleProofs -----------------------
(***************************************************************************)
(* Theorems of FindingLifecycle, for any findings, scans, users and any    *)
(* mix of adversity.                                                       *)
(***************************************************************************)
EXTENDS FindingLifecycle, TLAPS

OptDoc == Doc \cup {NoDoc}

CoherentOrNone(d) == d # NoDoc => Coherent(d)

\* Coherence is inductive only with the copies in flight: a scan or a triage
\* request writes back what it read, however long ago.
InFlightCoherent ==
  /\ \A s \in Scans, f \in Findings : CoherentOrNone(held[s][f])
  /\ \A u \in Users : edit[u] # NoEdit => Coherent(edit[u].copy)

\* The candidates of a sweep were OPEN when they were queried.
CandidatesOpen ==
  \A s \in Scans, f \in Findings :
    phase[s] = "sweep" /\ held[s][f] # NoDoc => held[s][f].status = "OPEN"

IInv == TypeOK /\ StoredDocsCoherent /\ InFlightCoherent /\ CandidatesOpen

-----------------------------------------------------------------------------
(* What the document operators preserve.                                   *)

\* A new finding is a well-formed, coherent OPEN row.
LEMMA FreshDoc ==
  ASSUME NEW s \in Scans
  PROVE  Fresh(s) \in Doc /\ Coherent(Fresh(s))
<1>1. TenantOf[s] \in Tenants
  BY FindingsAssumption
<1>2. "OPEN" \notin Decisions
  BY FindingsAssumption
<1>3. Fresh(s) \in Doc
  BY <1>1 DEF Fresh, Doc, Status, By, Stamps
<1> QED
  BY <1>2, <1>3 DEF Fresh, Coherent

\* save_finding turns any coherent row into a coherent row.
LEMMA MergedDoc ==
  ASSUME NEW s \in Scans, NEW old \in OptDoc, CoherentOrNone(old)
  PROVE  Merged(s, old) \in Doc /\ Coherent(Merged(s, old))
<1>1. CASE old = NoDoc
  BY <1>1, FreshDoc DEF Merged
<1>2. CASE old # NoDoc /\ UserTriaged(old)
  <2>1. old \in Doc /\ Coherent(old)
    BY <1>2 DEF OptDoc, CoherentOrNone
  <2>2. Merged(s, old) = [Fresh(s) EXCEPT !.status = old.status,
                            !.by = Carried(old.by), !.stamps = old.stamps,
                            !.again = TRUE]
    BY <1>2 DEF Merged
  <2>3. /\ Carried(old.by) \in By /\ Carried(old.by) # "null"
        /\ Carried(old.by) \in {"user", "auto"} => Carried(old.by) = old.by
    BY <2>1 DEF Carried, By, Doc
  <2>4. Merged(s, old) \in Doc
    BY <2>1, <2>2, <2>3, FreshDoc DEF Doc
  <2>5. /\ Merged(s, old).status = old.status /\ Merged(s, old).by = Carried(old.by)
        /\ Merged(s, old).stamps = old.stamps
    BY <2>2 DEF Fresh
  <2>6. old.status # "OPEN"
    BY <1>2 DEF UserTriaged
  <2> QED
    BY <2>1, <2>3, <2>4, <2>5, <2>6 DEF Coherent
<1>3. CASE old # NoDoc /\ ~UserTriaged(old)
  <2>1. old \in Doc
    BY <1>3 DEF OptDoc
  <2>2. Merged(s, old) = [Fresh(s) EXCEPT
            !.by = IF old.status = "RESOLVED" THEN "null" ELSE "",
            !.again = TRUE]
    BY <1>3 DEF Merged
  <2>3. Merged(s, old) \in Doc
    BY <2>2, FreshDoc DEF Doc, By
  <2>4. /\ Merged(s, old).status = "OPEN" /\ Merged(s, old).stamps = {}
        /\ Merged(s, old).by \in {"", "null"}
    BY <2>2 DEF Fresh
  <2> QED
    BY <2>3, <2>4, FindingsAssumption DEF Coherent
<1> QED
  BY <1>1, <1>2, <1>3

\* The sweep turns any row into a coherent RESOLVED row.
LEMMA AutoResolvedDoc ==
  ASSUME NEW d \in Doc
  PROVE  AutoResolved(d) \in Doc /\ Coherent(AutoResolved(d))
BY FindingsAssumption DEF AutoResolved, Doc, Coherent, Status, By, Stamps, StampOf

\* A triage decision turns any coherent row into a coherent row.
LEMMA DecidedDoc ==
  ASSUME NEW d \in Doc, Coherent(d), NEW c \in Decisions, NEW a \in Actors
  PROVE  Decided(d, c, a) \in Doc /\ Coherent(Decided(d, c, a))
<1>1. StampOf(c) \in Stamps /\ c \in Status /\ c # "OPEN"
  BY FindingsAssumption DEF StampOf, Stamps, Status
<1>2. c = "RESOLVED" => StampOf(c) = "resolved_at"
  BY DEF StampOf
<1> QED
  BY <1>1, <1>2 DEF Decided, Doc, Coherent, By, Actors
-----------------------------------------------------------------------------
(* The invariant.                                                          *)

\* The empty container of a fresh deployment satisfies the invariant.
LEMMA InitIInv == Init => IInv
<1> SUFFICES ASSUME Init PROVE IInv
  OBVIOUS
<1>1. NoDocs \in [Findings -> OptDoc]
  BY DEF NoDocs, OptDoc
<1>2. TypeOK
  BY <1>1 DEF Init, TypeOK, OptDoc
<1>3. StoredDocsCoherent /\ InFlightCoherent /\ CandidatesOpen
  BY DEF Init, NoDocs, StoredDocsCoherent, InFlightCoherent, CandidatesOpen,
         CoherentOrNone
<1> QED
  BY <1>2, <1>3 DEF IInv

\* What a writer may store under an id: nothing or a coherent document.
LEMMA StoreDoc ==
  ASSUME IInv, NEW f \in Findings, NEW d \in OptDoc, CoherentOrNone(d),
         doc' = [doc EXCEPT ![f] = d]
  PROVE  /\ doc' \in [Findings -> OptDoc]
         /\ StoredDocsCoherent'
BY DEF IInv, TypeOK, StoredDocsCoherent, CoherentOrNone, OptDoc

\* Every way the merge, the sweep and the triage route compute a document
\* from one they hold yields a document they may store.
LEMMA HeldDocs ==
  ASSUME IInv, NEW s \in Scans, NEW f \in Findings
  PROVE  /\ held[s][f] \in OptDoc /\ CoherentOrNone(held[s][f])
         /\ Merged(s, held[s][f]) \in Doc /\ Coherent(Merged(s, held[s][f]))
         /\ held[s][f] # NoDoc => /\ Swept(s, f) \in OptDoc
                                  /\ CoherentOrNone(Swept(s, f))
<1>1. held[s][f] \in OptDoc /\ CoherentOrNone(held[s][f])
  BY DEF IInv, TypeOK, InFlightCoherent, OptDoc
<1>2. held[s][f] # NoDoc => Swept(s, f) \in OptDoc /\ CoherentOrNone(Swept(s, f))
  BY <1>1, AutoResolvedDoc DEF Swept, OptDoc, CoherentOrNone
<1> QED
  BY <1>1, <1>2, MergedDoc

\* Every step of a scan, a triage route or the environment keeps it.
LEMMA NextIInv == IInv /\ [Next]_vars => IInv'
<1> SUFFICES ASSUME IInv, [Next]_vars PROVE IInv'
  OBVIOUS
<1> USE DEF OptDoc
<1>0. NoDocs \in [Findings -> OptDoc] /\ \A f \in Findings : NoDocs[f] = NoDoc
  BY DEF NoDocs
<1>1. ASSUME NEW s \in Scans, Begin(s) PROVE IInv'
  BY <1>1 DEF IInv, TypeOK, StoredDocsCoherent, InFlightCoherent, CandidatesOpen,
              Begin, world, Detectable
<1>2. ASSUME NEW s \in Scans, NEW f \in Findings, ReadExisting(s, f) PROVE IInv'
  <2>1. PICK old \in OptDoc : /\ held' = [held EXCEPT ![s][f] = old]
                              /\ CoherentOrNone(old)
    BY <1>2 DEF ReadExisting, IInv, TypeOK, StoredDocsCoherent, CoherentOrNone
  <2>2. TypeOK'
    BY <1>2, <2>1 DEF ReadExisting, IInv, TypeOK, world
  <2>3. StoredDocsCoherent' /\ InFlightCoherent' /\ CandidatesOpen'
    BY <1>2, <2>1 DEF ReadExisting, IInv, TypeOK, StoredDocsCoherent,
                      InFlightCoherent, CandidatesOpen
  <2> QED
    BY <2>2, <2>3 DEF IInv
<1>3. ASSUME NEW s \in Scans, Save(s) \/ SaveFails(s) PROVE IInv'
  <2> DEFINE d == Merged(s, held[s][cur[s]])
  <2>0. cur[s] \in Findings
    BY <1>3 DEF Save, SaveFails, IInv, TypeOK
  <2>1. d \in Doc /\ Coherent(d)
    BY <2>0, HeldDocs
  <2>2. doc' = [doc EXCEPT ![cur[s]] = d] \/ doc' = doc
    BY <1>3 DEF Save, SaveFails
  <2>3. doc' \in [Findings -> OptDoc] /\ StoredDocsCoherent'
    BY <2>0, <2>1, <2>2, StoreDoc
       DEF IInv, TypeOK, StoredDocsCoherent, CoherentOrNone
  <2>4. seen' \in [Scans -> SUBSET Findings]
    BY <1>3, <2>0 DEF Save, SaveFails, IInv, TypeOK
  <2>5. EndSave(s)
    BY <1>3 DEF Save, SaveFails
  <2>6. TypeOK'
    BY <1>0, <2>3, <2>4, <2>5 DEF EndSave, IInv, TypeOK, world
  <2>7. InFlightCoherent' /\ CandidatesOpen'
    BY <1>0, <2>5 DEF EndSave, IInv, TypeOK, InFlightCoherent, CandidatesOpen,
                      CoherentOrNone
  <2> QED
    BY <2>3, <2>6, <2>7 DEF IInv
<1>4. ASSUME NEW s \in Scans, SweepQuery(s) PROVE IInv'
  <2> DEFINE h == [f \in Findings |-> IF f \in Unseen(s) THEN doc[f] ELSE NoDoc]
  <2>1. h \in [Findings -> OptDoc]
    BY DEF IInv, TypeOK
  <2>2. \A f \in Findings : h[f] # NoDoc => Coherent(h[f]) /\ h[f].status = "OPEN"
    BY DEF IInv, StoredDocsCoherent, Unseen
  <2>3. held' = [held EXCEPT ![s] = h]
    BY <1>4 DEF SweepQuery
  <2> HIDE DEF h
  <2>4. TypeOK'
    BY <1>4, <2>1, <2>3 DEF SweepQuery, IInv, TypeOK, world
  <2>5. StoredDocsCoherent' /\ InFlightCoherent' /\ CandidatesOpen'
    BY <1>4, <2>2, <2>3 DEF SweepQuery, IInv, TypeOK, StoredDocsCoherent,
                            InFlightCoherent, CandidatesOpen, CoherentOrNone
  <2> QED
    BY <2>4, <2>5 DEF IInv
<1>5. ASSUME NEW s \in Scans, SkipSweep(s) \/ EndSweep(s) PROVE IInv'
  BY <1>5 DEF IInv, TypeOK, StoredDocsCoherent, InFlightCoherent, CandidatesOpen,
              SkipSweep, EndSweep, world
<1>6. ASSUME NEW s \in Scans, NEW f \in Findings, Sweep(s, f) \/ SweepFails(s, f)
      PROVE IInv'
  <2>1. held[s][f] # NoDoc /\ Drop(s, f)
    BY <1>6 DEF Sweep, SweepFails
  <2>2. doc' = [doc EXCEPT ![f] = Swept(s, f)] \/ doc' = doc
    BY <1>6 DEF Sweep, SweepFails
  <2>3. doc' \in [Findings -> OptDoc] /\ StoredDocsCoherent'
    BY <2>1, <2>2, HeldDocs, StoreDoc DEF IInv, TypeOK, StoredDocsCoherent
  <2>4. TypeOK'
    BY <2>1, <2>3 DEF Drop, IInv, TypeOK, world
  <2>5. InFlightCoherent' /\ CandidatesOpen'
    BY <2>1 DEF Drop, IInv, TypeOK, InFlightCoherent, CandidatesOpen, CoherentOrNone
  <2> QED
    BY <2>3, <2>4, <2>5 DEF IInv
<1>7. ASSUME NEW s \in Scans, Reset(s) PROVE IInv'
  <2>1. TypeOK'
    BY <1>0, <1>7 DEF Reset, IInv, TypeOK, world
  <2>2. StoredDocsCoherent' /\ InFlightCoherent' /\ CandidatesOpen'
    BY <1>0, <1>7 DEF Reset, IInv, TypeOK, StoredDocsCoherent, InFlightCoherent,
                      CandidatesOpen, CoherentOrNone
  <2> QED
    BY <2>1, <2>2 DEF IInv
<1>8. ASSUME NEW u \in Users, NEW f \in Findings, NEW c \in Decisions,
             TriageRead(u, f, c)
      PROVE  IInv'
  <2>1. doc[f] \in Doc /\ Coherent(doc[f])
    BY <1>8 DEF TriageRead, IInv, TypeOK, StoredDocsCoherent
  <2> QED
    BY <1>8, <2>1 DEF TriageRead, IInv, TypeOK, StoredDocsCoherent,
                      InFlightCoherent, CandidatesOpen, locals, world
<1>9. ASSUME NEW u \in Users, TriageWrite(u) \/ TriageFails(u) PROVE IInv'
  <2> DEFINE e == edit[u]
  <2>1. /\ e \in [finding : Findings, decision : Decisions, copy : Doc]
        /\ Coherent(e.copy)
    BY <1>9 DEF TriageWrite, TriageFails, IInv, TypeOK, InFlightCoherent
  <2>2. e.finding \in Findings
    BY <2>1
  <2>3. \/ doc' = doc
        \/ \E d \in Doc : Coherent(d) /\ doc' = [doc EXCEPT ![e.finding] = d]
    BY <1>9, <2>1, DecidedDoc DEF TriageWrite, TriageFails
  <2>4. doc' \in [Findings -> OptDoc] /\ StoredDocsCoherent'
    BY <2>2, <2>3, StoreDoc DEF IInv, TypeOK, StoredDocsCoherent, CoherentOrNone
  <2>5. edit' = [edit EXCEPT ![u] = NoEdit] /\ UNCHANGED <<world, locals>>
    BY <1>9 DEF TriageWrite, TriageFails
  <2> QED
    BY <2>4, <2>5 DEF IInv, TypeOK, InFlightCoherent, CandidatesOpen, locals, world
<1>10. CASE Drift
  BY <1>10 DEF Drift, IssueAppears, IssueFixed, ResourceCreated, ResourceDeleted,
               IInv, TypeOK, StoredDocsCoherent, InFlightCoherent, CandidatesOpen,
               locals
<1>11. CASE UNCHANGED vars
  BY <1>11 DEF IInv, TypeOK, StoredDocsCoherent, InFlightCoherent, CandidatesOpen,
               vars, world, locals
<1> QED
  BY <1>1, <1>2, <1>3, <1>4, <1>5, <1>6, <1>7, <1>8, <1>9, <1>10, <1>11
     DEF Next, ScanStep, Triage, Report, Crash

\* The strengthened invariant holds of every behaviour.
THEOREM Invariance == Spec => []IInv
<1> QED
  BY InitIInv, NextIInv, PTL DEF Spec

\* Type correctness of the model, for any instance.
THEOREM TypeCorrect == Spec => []TypeOK
<1>1. IInv => TypeOK
  BY DEF IInv
<1> QED
  BY <1>1, Invariance, PTL

\* No interleaving of scans, triage, failures and crashes ever stores a
\* document whose lifecycle fields contradict each other.
THEOREM Coherence == Spec => []StoredDocsCoherent
<1>1. IInv => StoredDocsCoherent
  BY DEF IInv
<1> QED
  BY <1>1, Invariance, PTL

-----------------------------------------------------------------------------
(* A write from a current copy loses nothing.                              *)

\* What must survive a write over the row old.
KeepsHistory(old, new) ==
  /\ TriagedByUser(old) => /\ new # NoDoc /\ new.status = old.status
                           /\ old.stamps \subseteq new.stamps
  /\ old.again /\ new # NoDoc => new.again

\* The merge of save_finding keeps the history of the row it read.
LEMMA MergedKeepsHistory ==
  ASSUME NEW s \in Scans, NEW d \in Doc, Coherent(d)
  PROVE  KeepsHistory(d, Merged(s, d))
<1>1. d # NoDoc
  BY FindingsAssumption
<1>2. Merged(s, d) # NoDoc
  BY MergedDoc, FindingsAssumption DEF OptDoc, CoherentOrNone
<1>3. Merged(s, d).again = TRUE
  BY <1>1 DEF Merged, Fresh
<1>4. CASE UserTriaged(d)
  <2>1. Merged(s, d).status = d.status /\ Merged(s, d).stamps = d.stamps
    BY <1>1, <1>4 DEF Merged, Fresh
  <2> QED
    BY <1>2, <1>3, <2>1 DEF KeepsHistory
<1>5. CASE ~UserTriaged(d)
  BY <1>3, <1>5 DEF KeepsHistory, TriagedByUser, UserTriaged
<1> QED
  BY <1>4, <1>5

\* Only scan s moves its own program counter and its own copies.
LEMMA OwnLocals ==
  ASSUME IInv, [Next]_vars, NEW s \in Scans
  PROVE  \/ phase'[s] = phase[s] /\ held'[s] = held[s]
         \/ ScanStep(s)
<1>1. ASSUME NEW t \in Scans, t # s, ScanStep(t)
      PROVE  phase'[s] = phase[s] /\ held'[s] = held[s]
  BY <1>1 DEF ScanStep, Begin, Save, SaveFails, EndSave, SweepQuery, SkipSweep,
              EndSweep, Report, Crash, Reset, ReadExisting, Sweep, SweepFails, Drop,
              IInv, TypeOK
<1>2. CASE Drift
  BY <1>2 DEF Drift, IssueAppears, IssueFixed, ResourceCreated, ResourceDeleted, locals
<1>3. ASSUME NEW u \in Users, Triage(u)
      PROVE  phase'[s] = phase[s] /\ held'[s] = held[s]
  BY <1>3 DEF Triage, TriageRead, TriageWrite, TriageFails, locals
<1>4. CASE UNCHANGED vars
  BY <1>4 DEF vars, locals
<1> QED
  BY <1>1, <1>2, <1>3, <1>4 DEF Next

\* The action property, for any interleaving and any failures: reverting a
\* user's triage or forgetting the history of a finding takes a stale copy.
THEOREM LosslessFreshWrites == Spec => FreshWriteIsLossless
<1>1. ASSUME IInv, [Next]_vars, NEW s \in Scans, NEW f \in Findings,
             SaveOf(s, f) \/ SweepOf(s, f), held[s][f] = doc[f], doc[f] # NoDoc
      PROVE  KeepsHistory(doc[f], doc'[f])
  <2>1. doc[f] \in Doc /\ Coherent(doc[f]) /\ doc \in [Findings -> OptDoc]
    BY <1>1 DEF IInv, TypeOK, StoredDocsCoherent, OptDoc
  <2>2. KeepsHistory(doc[f], doc[f])
    BY <2>1, <1>1 DEF KeepsHistory, Doc
  <2>3. ScanStep(s)
    BY <1>1, OwnLocals DEF SaveOf, SweepOf
  <2>4. CASE SaveOf(s, f)
    <3>1. Save(s) \/ SaveFails(s)
      BY <1>1, <2>3, <2>4
         DEF SaveOf, ScanStep, Begin, SweepQuery, SkipSweep, EndSweep, Report,
             Crash, Reset, ReadExisting, Sweep, SweepFails, IInv, TypeOK
    <3>2. doc'[f] = Merged(s, doc[f]) \/ doc'[f] = doc[f]
      BY <1>1, <2>1, <2>4, <3>1 DEF SaveOf, Save, SaveFails
    <3> QED
      BY <2>1, <2>2, <3>2, MergedKeepsHistory
  <2>5. CASE SweepOf(s, f)
    <3>1. PICK g \in Findings : Sweep(s, g) \/ SweepFails(s, g)
      <4>1. \A g \in Findings : ~ReadExisting(s, g)
        BY <2>5 DEF SweepOf, ReadExisting
      <4>2. ~EndSweep(s) /\ ~Report(s) /\ ~Crash(s)
        BY <1>1, <2>5 DEF SweepOf, EndSweep, Report, Crash, Reset, IInv, TypeOK
      <4>3. ~Begin(s) /\ ~Save(s) /\ ~SaveFails(s) /\ ~SweepQuery(s) /\ ~SkipSweep(s)
        BY <2>5 DEF SweepOf, Begin, Save, SaveFails, SweepQuery, SkipSweep
      <4> QED
        BY <2>3, <4>1, <4>2, <4>3 DEF ScanStep
    <3>2. g = f
      BY <1>1, <2>5, <3>1 DEF SweepOf, Sweep, SweepFails, Drop, IInv, TypeOK
    <3>3. doc'[f] = Swept(s, f) \/ doc'[f] = doc[f]
      BY <2>1, <3>1, <3>2 DEF Sweep, SweepFails
    <3>4. doc[f].status = "OPEN"
      BY <1>1, <2>5 DEF SweepOf, IInv, CandidatesOpen
    <3>5. KeepsHistory(doc[f], Swept(s, f))
      BY <1>1, <2>1, <3>4 DEF Swept, AutoResolved, KeepsHistory, TriagedByUser, Doc
    <3> QED
      BY <2>2, <3>3, <3>5
  <2> QED
    BY <1>1, <2>4, <2>5
<1>2. IInv /\ [Next]_vars =>
        [\A s \in Scans, f \in Findings :
           (SaveOf(s, f) \/ SweepOf(s, f)) /\ held[s][f] = doc[f] /\ doc[f] # NoDoc
           => /\ TriagedByUser(doc[f])
                   => /\ doc'[f] # NoDoc /\ doc'[f].status = doc[f].status
                      /\ doc[f].stamps \subseteq doc'[f].stamps
              /\ doc[f].again /\ doc'[f] # NoDoc => doc'[f].again]_vars
  BY <1>1 DEF KeepsHistory
<1> QED
  BY <1>2, Invariance, PTL DEF Spec, FreshWriteIsLossless
=============================================================================
