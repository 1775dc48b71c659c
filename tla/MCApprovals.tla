----------------------------- MODULE MCApprovals ------------------------------
(***************************************************************************)
(* Approvals for TLC: two requests of one conversation, so that a grant    *)
(* can be reused, and one answer that meets the timeouts and the denials.  *)
(* What depends on several conversations or on answers that meet each      *)
(* other is proved in ApprovalsProofs for any number of them.              *)
(***************************************************************************)
EXTENDS Approvals

CONSTANTS r1, r2, c1

OneConversation == [r \in Request |-> c1]
===============================================================================
