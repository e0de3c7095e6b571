---------------------------- MODULE FindingLedger ----------------------------
(***************************************************************************)
(* What the findings container promises for one finding id: detection      *)
(* opens or reopens it, a scan that no longer sees it closes or drops it,  *)
(* and a decision of the user stands until the user takes another one.     *)
(***************************************************************************)
CONSTANTS Findings, Decisions

VARIABLE entry      \* "absent", "open", "closed" or a decision, per finding

Init == entry = [f \in Findings |-> "absent"]

Detect(f) ==
  /\ entry[f] \in {"absent", "closed"}
  /\ entry' = [entry EXCEPT ![f] = "open"]

Clear(f) ==
  /\ entry[f] = "open"
  /\ \E e \in {"closed", "absent"} : entry' = [entry EXCEPT ![f] = e]

Decide(f) ==
  /\ entry[f] # "absent"
  /\ \E d \in Decisions : entry' = [entry EXCEPT ![f] = d]

Next == \E f \in Findings : Detect(f) \/ Clear(f) \/ Decide(f)

Spec == Init /\ [][Next]_entry
=============================================================================
