---------------------------- MODULE QrLifecycle ----------------------------
(***************************************************************************)
(* What sovVault promises of a request to whoever looks it up: unknown at  *)
(* first, it is pending for a while or not at all, and the first terminal  *)
(* verdict reported is the one reported ever after.                        *)
(***************************************************************************)
CONSTANTS Requests, Verdict

VARIABLE status    \* what a lookup of each request reports

TypeOK == status \in [Requests -> {"None", "Pending"} \cup Verdict]

Init == status = [q \in Requests |-> "None"]

Opens(q) == status[q] = "None" /\ status'[q] = "Pending"

Concludes(q) == status[q] \in {"None", "Pending"} /\ status'[q] \in Verdict

(* A commit moves several requests at once.                                *)
Next ==
  /\ DOMAIN status' = Requests
  /\ \A q \in Requests : status'[q] = status[q] \/ Opens(q) \/ Concludes(q)

Spec == Init /\ [][Next]_status
=============================================================================
