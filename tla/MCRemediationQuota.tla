------------------------ MODULE MCRemediationQuota ------------------------
(* Instances of RemediationQuota for TLC: model values for the actors.     *)
EXTENDS RemediationQuota
CONSTANTS w1, w2, u1, u2
=============================================================================
