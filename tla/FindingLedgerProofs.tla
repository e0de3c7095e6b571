------------------------- MODULE FindingLedgerProofs -------------------------
(***************************************************************************)
(* What concurrent writers owe each other in the findings container: a     *)
(* sweep and the saves of its own scan, and every writer whose copy is     *)
(* current and the ledger of findings.  Nothing is assumed of the order of *)
(* the writers, of failed calls or of crashes.                             *)
(***************************************************************************)
EXTENDS FindingLifecycleProofs

-----------------------------------------------------------------------------
(* What a scan knows of its own sweep, whatever the others do.             *)

\* A sweep starts when every finding was saved or given up, and no finding
\* that was saved is among its candidates.
SweepBooks(s) ==
  phase[s] = "sweep" =>
    todo[s] = {} /\ \A f \in Findings : held[s][f] # NoDoc => f \notin seen[s]

Books == \A s \in Scans : SweepBooks(s)

\* The locals of scan s stay as they are.
Untouched(s) ==
  /\ phase'[s] = phase[s] /\ res'[s] = res[s] /\ found'[s] = found[s]
  /\ todo'[s] = todo[s] /\ seen'[s] = seen[s] /\ cur'[s] = cur[s]
  /\ held'[s] = held[s]

\* Nobody but a scan moves its locals.
LEMMA OwnStep ==
  ASSUME TypeOK, [Next]_vars, NEW s \in Scans
  PROVE  ScanStep(s) \/ Untouched(s)
<1> USE DEF Untouched
<1>1. ASSUME NEW t \in Scans, t # s, ScanStep(t) PROVE Untouched(s)
  <2>1. CASE Begin(t) \/ SweepQuery(t) \/ SkipSweep(t) \/ EndSweep(t)
    BY <1>1, <2>1 DEF Begin, SweepQuery, SkipSweep, EndSweep, TypeOK
  <2>2. CASE Save(t) \/ SaveFails(t)
    BY <1>1, <2>2 DEF Save, SaveFails, EndSave, TypeOK
  <2>3. CASE Report(t) \/ Crash(t)
    BY <1>1, <2>3 DEF Report, Crash, Reset, TypeOK
  <2>4. ASSUME NEW f \in Findings, ReadExisting(t, f) PROVE Untouched(s)
    BY <1>1, <2>4 DEF ReadExisting, TypeOK
  <2>5. ASSUME NEW f \in Findings, Sweep(t, f) \/ SweepFails(t, f)
        PROVE  Untouched(s)
    BY <1>1, <2>5 DEF Sweep, SweepFails, Drop, TypeOK
  <2> QED
    BY <1>1, <2>1, <2>2, <2>3, <2>4, <2>5 DEF ScanStep
<1>2. CASE Drift
  BY <1>2 DEF Drift, IssueAppears, IssueFixed, ResourceCreated, ResourceDeleted,
              locals
<1>3. CASE \E u \in Users : Triage(u)
  BY <1>3 DEF Triage, TriageRead, TriageWrite, TriageFails, locals
<1>4. CASE UNCHANGED vars
  BY <1>4 DEF vars, locals
<1> QED
  BY <1>1, <1>2, <1>3, <1>4 DEF Next

\* Every step of every actor keeps these books.
LEMMA BooksStep ==
  ASSUME TypeOK, [Next]_vars, Books
  PROVE  Books'
<1> SUFFICES ASSUME NEW s \in Scans PROVE SweepBooks(s)'
  BY DEF Books
<1> USE DEF SweepBooks
<1>0. SweepBooks(s)
  BY DEF Books
<1>1. CASE Untouched(s)
  BY <1>0, <1>1 DEF Untouched
<1>2. CASE SweepQuery(s)
  <2>1. held'[s] = [f \in Findings |-> IF f \in Unseen(s) THEN doc[f] ELSE NoDoc]
    BY <1>2 DEF SweepQuery, TypeOK
  <2>2. \A f \in Findings : held'[s][f] # NoDoc => f \notin seen[s]
    BY <2>1 DEF Unseen
  <2> QED
    BY <1>2, <2>2 DEF SweepQuery, TypeOK
<1>3. ASSUME NEW f \in Findings, Sweep(s, f) \/ SweepFails(s, f)
      PROVE  SweepBooks(s)'
  BY <1>0, <1>3 DEF Sweep, SweepFails, Drop, TypeOK
<1>4. CASE Begin(s) \/ Save(s) \/ SaveFails(s) \/ SkipSweep(s) \/ EndSweep(s)
           \/ Report(s) \/ Crash(s)
  BY <1>4 DEF Begin, Save, SaveFails, EndSave, SkipSweep, EndSweep, Report, Crash,
              Reset, TypeOK
<1>5. ASSUME NEW f \in Findings, ReadExisting(s, f) PROVE SweepBooks(s)'
  BY <1>5 DEF ReadExisting, TypeOK
<1> QED
  BY <1>1, <1>2, <1>3, <1>4, <1>5, OwnStep DEF ScanStep

LEMMA BooksKept == Spec => []Books
<1>1. Init => Books
  BY DEF Init, Books, SweepBooks
<1>2. TypeOK /\ Books /\ [Next]_vars => Books'
  BY BooksStep
<1> QED
  BY <1>1, <1>2, TypeCorrect, PTL DEF Spec

\* Only the loop of the sweep gives up a candidate.
LEMMA SweepStep ==
  ASSUME TypeOK, [Next]_vars, NEW s \in Scans, NEW f \in Findings, SweepOf(s, f)
  PROVE  Sweep(s, f) \/ SweepFails(s, f)
<1>1. ScanStep(s)
  BY OwnStep DEF SweepOf, Untouched
<1>2. ~EndSweep(s) /\ ~Report(s) /\ ~Crash(s)
  BY DEF SweepOf, EndSweep, Report, Crash, Reset, TypeOK
<1>3. ~Begin(s) /\ ~Save(s) /\ ~SaveFails(s) /\ ~SweepQuery(s) /\ ~SkipSweep(s)
  BY DEF SweepOf, Begin, Save, SaveFails, SweepQuery, SkipSweep
<1>4. \A g \in Findings : ~ReadExisting(s, g)
  BY DEF SweepOf, ReadExisting
<1>5. PICK g \in Findings : Sweep(s, g) \/ SweepFails(s, g)
  BY <1>1, <1>2, <1>3, <1>4 DEF ScanStep
<1>6. g = f
  BY <1>5 DEF SweepOf, Sweep, SweepFails, Drop, TypeOK
<1> QED
  BY <1>5, <1>6

\* mark_unseen_findings_resolved reconciles nothing its own scan evaluated to,
\* but for the findings whose save raised: with any number of scans and users
\* writing meanwhile, any failed call and any crash.
THEOREM DetectedIsSpared == Spec => SweepOnlyUndetected
<1>1. ASSUME Books, NEW s \in Scans, NEW f \in Findings, SweepOf(s, f)
      PROVE  f \notin found[s] \/ SaveRaised(s, f)
  BY <1>1 DEF Books, SweepBooks, SweepOf, SaveRaised
<1>2. Books /\ [Next]_vars =>
        [\A s \in Scans, f \in Findings :
           SweepOf(s, f) /\ doc'[f] # doc[f]
             => f \notin found[s] \/ SaveRaised(s, f)]_vars
  BY <1>1
<1> QED
  BY <1>2, BooksKept, PTL DEF Spec, SweepOnlyUndetected

-----------------------------------------------------------------------------
(* Current copies keep the ledger.                                         *)

\* A merge opens an entry or leaves it; the two cases of save_finding that
\* touch a user's decision or an open row are stutters.
LEMMA MergedEntry ==
  ASSUME NEW s \in Scans, NEW d \in OptDoc, CoherentOrNone(d)
  PROVE  \/ EntryOf(Merged(s, d)) = EntryOf(d)
         \/ EntryOf(d) \in {"absent", "closed"} /\ EntryOf(Merged(s, d)) = "open"
<1>1. Merged(s, d) # NoDoc
  BY MergedDoc, FindingsAssumption
<1>2. CASE d = NoDoc
  <2>1. Merged(s, d).status = "OPEN"
    BY <1>2 DEF Merged, Fresh
  <2> QED
    BY <1>1, <1>2, <2>1 DEF EntryOf
<1>3. CASE d # NoDoc /\ UserTriaged(d)
  <2>1. Merged(s, d).status = d.status /\ Merged(s, d).by = Carried(d.by)
    BY <1>3 DEF Merged, Fresh
  <2>2. d.status = "RESOLVED" => d.by # "auto" /\ Carried(d.by) # "auto"
    BY <1>3 DEF UserTriaged, CoherentOrNone, Coherent, Carried
  <2> QED
    BY <1>1, <1>3, <2>1, <2>2 DEF EntryOf, UserTriaged
<1>4. CASE d # NoDoc /\ ~UserTriaged(d)
  <2>1. Merged(s, d).status = "OPEN"
    BY <1>4 DEF Merged, Fresh
  <2>2. d.status = "OPEN" \/ (d.status = "RESOLVED" /\ d.by = "auto")
    BY <1>4 DEF UserTriaged, OptDoc, Doc, Status
  <2> QED
    BY <1>1, <1>4, <2>1, <2>2 DEF EntryOf
<1> QED
  BY <1>2, <1>3, <1>4

\* The upsert of one document changes one entry.
LEMMA EntryUpdate ==
  ASSUME TypeOK, NEW f \in Findings, NEW d, doc' = [doc EXCEPT ![f] = d]
  PROVE  Entries' = [Entries EXCEPT ![f] = EntryOf(d)]
  BY DEF Entries, TypeOK, EntryOf

\* A step that writes back what is stored is a transition of one entry, or none.
LEMMA LedgerStep ==
  ASSUME IInv, [Next]_vars, WritesCurrentCopies
  PROVE  Ledger!Next \/ UNCHANGED Entries
<1> USE DEF OptDoc
<1>0. TypeOK
  BY DEF IInv
<1>1. CASE doc' = doc
  BY <1>1 DEF Entries
<1>2. ASSUME NEW s \in Scans, Save(s) \/ SaveFails(s)
      PROVE  Ledger!Next \/ UNCHANGED Entries
  <2>1. cur[s] \in Findings /\ phase[s] = "save"
    BY <1>0, <1>2 DEF Save, SaveFails, TypeOK
  <2>2. PICK f \in Findings : f = cur[s]
    BY <2>1
  <2>0. SaveOf(s, f)
    BY <1>0, <1>2, <2>2 DEF SaveOf, Save, SaveFails, EndSave, TypeOK
  <2>3. held[s][f] = doc[f] /\ CoherentOrNone(doc[f]) /\ doc[f] \in OptDoc
    BY <1>0, <2>2, <2>0 DEF WritesCurrentCopies, IInv, StoredDocsCoherent,
                            CoherentOrNone, TypeOK
  <2>4. doc' = [doc EXCEPT ![f] = Merged(s, doc[f])] \/ doc' = doc
    BY <1>2, <2>2, <2>3 DEF Save, SaveFails
  <2>5. CASE doc' = [doc EXCEPT ![f] = Merged(s, doc[f])]
    <3>1. Entries' = [Entries EXCEPT ![f] = EntryOf(Merged(s, doc[f]))]
      BY <1>0, <2>5, EntryUpdate
    <3>2. Entries[f] = EntryOf(doc[f])
      BY DEF Entries
    <3>3. CASE EntryOf(Merged(s, doc[f])) = EntryOf(doc[f])
      BY <3>1, <3>2, <3>3 DEF Entries
    <3>4. CASE /\ EntryOf(doc[f]) \in {"absent", "closed"}
               /\ EntryOf(Merged(s, doc[f])) = "open"
      BY <3>1, <3>2, <3>4 DEF Ledger!Next, Ledger!Detect, Entries
    <3> QED
      BY <2>3, <3>3, <3>4, MergedEntry
  <2> QED
    BY <1>1, <2>4, <2>5
<1>3. ASSUME NEW s \in Scans, NEW f \in Findings, Sweep(s, f) \/ SweepFails(s, f)
      PROVE  Ledger!Next \/ UNCHANGED Entries
  <2>0. SweepOf(s, f)
    BY <1>0, <1>3 DEF SweepOf, Sweep, SweepFails, Drop, TypeOK
  <2>1. held[s][f] = doc[f] /\ doc[f] # NoDoc /\ doc[f] \in Doc
        /\ doc[f].status = "OPEN"
    BY <1>0, <2>0 DEF SweepOf, WritesCurrentCopies, IInv, CandidatesOpen, TypeOK
  <2>2. doc' = [doc EXCEPT ![f] = Swept(s, f)] \/ doc' = doc
    BY <1>3 DEF Sweep, SweepFails
  <2>3. EntryOf(Swept(s, f)) \in {"closed", "absent"}
    <3>1. AutoResolved(doc[f]) \in Doc /\ AutoResolved(doc[f]) # NoDoc
      BY <2>1, AutoResolvedDoc, FindingsAssumption
    <3>2. AutoResolved(doc[f]).status = "RESOLVED" /\ AutoResolved(doc[f]).by = "auto"
      BY <2>1 DEF AutoResolved, Doc
    <3>3. EntryOf(AutoResolved(doc[f])) = "closed" /\ EntryOf(NoDoc) = "absent"
      BY <3>1, <3>2 DEF EntryOf
    <3> QED
      BY <2>1, <3>3 DEF Swept
  <2>4. Entries[f] = "open"
    BY <2>1 DEF Entries, EntryOf
  <2>5. CASE doc' = [doc EXCEPT ![f] = Swept(s, f)]
    <3>1. Entries' = [Entries EXCEPT ![f] = EntryOf(Swept(s, f))]
      BY <1>0, <2>5, EntryUpdate
    <3> QED
      BY <2>3, <2>4, <3>1 DEF Ledger!Next, Ledger!Clear, Entries
  <2> QED
    BY <1>1, <2>2, <2>5
<1>4. ASSUME NEW u \in Users, TriageWrite(u) PROVE Ledger!Next \/ UNCHANGED Entries
  <2>1. /\ edit[u].copy \in Doc /\ Coherent(edit[u].copy)
        /\ edit[u].decision \in Decisions /\ edit[u].finding \in Findings
        /\ edit[u].copy = doc[edit[u].finding]
    BY <1>0, <1>4 DEF TriageWrite, IInv, TypeOK, InFlightCoherent, WritesCurrentCopies
  <2>2. PICK f \in Findings, c \in Decisions :
          f = edit[u].finding /\ c = edit[u].decision
    BY <2>1
  <2>3. PICK a \in Actors : doc' = [doc EXCEPT ![f] = Decided(doc[f], c, a)]
    BY <1>4, <2>1, <2>2 DEF TriageWrite
  <2>7. doc[f] \in Doc /\ Coherent(doc[f])
    BY <2>1, <2>2
  <2>4. EntryOf(Decided(doc[f], c, a)) = c
    <3>1. Decided(doc[f], c, a) # NoDoc
      BY <2>7, DecidedDoc, FindingsAssumption
    <3>2. /\ Decided(doc[f], c, a).status = c
          /\ c = "RESOLVED" => Decided(doc[f], c, a).by # "auto"
      BY <2>7 DEF Decided, Doc, Actors
    <3>3. c # "OPEN"
      BY FindingsAssumption
    <3> QED
      BY <3>1, <3>2, <3>3 DEF EntryOf
  <2>5. Entries[f] # "absent"
    BY <2>7, FindingsAssumption DEF Entries, EntryOf, Doc, Status
  <2>6. Entries' = [Entries EXCEPT ![f] = c]
    BY <1>0, <2>3, <2>4, EntryUpdate
  <2> QED
    BY <2>5, <2>6 DEF Ledger!Next, Ledger!Decide, Entries
<1>5. \/ doc' = doc
      \/ \E s \in Scans : Save(s) \/ SaveFails(s)
      \/ \E s \in Scans, f \in Findings : Sweep(s, f) \/ SweepFails(s, f)
      \/ \E u \in Users : TriageWrite(u)
  <2>1. CASE Drift \/ UNCHANGED vars
    BY <2>1 DEF Drift, IssueAppears, IssueFixed, ResourceCreated, ResourceDeleted, vars
  <2>2. CASE \E s \in Scans : ScanStep(s)
    BY <2>2 DEF ScanStep, Begin, SweepQuery, SkipSweep, EndSweep, Report, Crash,
                Reset, ReadExisting
  <2>3. CASE \E u \in Users : Triage(u)
    BY <2>3 DEF Triage, TriageRead, TriageFails
  <2> QED
    BY <2>1, <2>2, <2>3 DEF Next
<1> QED
  BY <1>1, <1>2, <1>3, <1>4, <1>5

\* The read-merge-upsert protocol of save_finding, the sweep and the triage
\* routes leaves the ledger only by a write from a stale copy: under any overlap,
\* with failed reads and writes and hosts that die.
THEOREM CurrentWritesKeepLedger == Spec => OnlyStaleWritesBreakLedger
<1>1. IInv /\ [Next]_vars =>
        [WritesCurrentCopies => Ledger!Next \/ UNCHANGED Entries]_vars
  BY LedgerStep
<1> QED
  BY <1>1, Invariance, PTL DEF Spec, OnlyStaleWritesBreakLedger
=============================================================================
