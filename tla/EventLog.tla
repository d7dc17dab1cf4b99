------------------------------ MODULE EventLog ------------------------------
(***************************************************************************)
(* Abstract: what a bounded journal promises.  A log gets a new line, which*)
(* is the last one, or forgets some of its first lines, but never the last *)
(* Keep ones.  Lines are known by their numbers, which say their order.    *)
(***************************************************************************)
EXTENDS Naturals, FiniteSets

CONSTANT Keep  \* lines that are never forgotten

VARIABLE log   \* the lines that are in it

Before(S, T) == \A m \in S, n \in T : m < n

Init == log = {}

Record == \E n \in log' : Before(log, {n}) /\ log' = log \cup {n}

Forget ==
  /\ log' \subseteq log
  /\ Before(log \ log', log')
  /\ Cardinality(log') >= Keep

Next == Record \/ Forget

Spec == Init /\ [][Next]_log
=============================================================================
