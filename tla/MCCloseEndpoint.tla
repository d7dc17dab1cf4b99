-------------------------- MODULE MCCloseEndpoint --------------------------
(* Small instances of CloseEndpoint: requests for one root, the last of    *)
(* them in the mode of an owned recovery.                                  *)
EXTENDS CloseEndpoint

CONSTANTS q1, q2, q3, r1

\* The first is there for AcceptanceIsFresh, which is about prompt reads; the last
\* includes the other behaviours of prompt reads and those without a fault.
Troubled ==
  {[reads |-> "prompt", fault |-> "exception"],
   [reads |-> "late", fault |-> "error"],
   [reads |-> "late", fault |-> "exception"]}

OneRoot == [q \in Requests |-> r1]
LastRecovers ==
  [q \in Requests |-> IF q = q3 THEN "owned-recovery" ELSE "normal"]

\* What a step or a property may still look at.  The future a request has found is
\* read in four stages only; the history and the answers by AcceptanceIsFresh only,
\* and that under prompt reads.
Found(q) == IF pc[q] \in {"inspect", "judge", "evict", "join"} THEN existing[q] ELSE None
ToldOfAClose == {q \in Requests : reply[q] = "closing"}
Needed ==
  <<pc, closingRoots, attempt, [q \in Requests |-> Found(q)], target, ideVars, reads, fault,
    IF reads = "prompt" THEN <<current, ToldOfAClose>> ELSE <<{}, {}>> >>
=============================================================================
