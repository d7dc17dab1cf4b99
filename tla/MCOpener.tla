------------------------------ MODULE MCOpener ------------------------------
(* Small instances of Opener: p1 and p2 ask for one root, p3 for another.  *)
EXTENDS Opener

CONSTANTS p1, p2, p3, r1, r2

TwoRoots == [p \in Openers |-> IF p = p3 THEN r2 ELSE r1]

\* All that decides which steps may follow: how openers ended and who sent which
\* request is only remembered for the properties of the other run.
Control == <<pc, orphan, operation, queueVars, legacy, ide>>

\* How an opener ended and whether it doubted its window matters while it is one
\* of those that asked for the window there is, or is about to.
Matters(p) == pc[p] = "open" \/ p \in asked[RootOf[p]]
Remembered == <<Control, asked, {p \in Openers : Matters(p) /\ Excused(p)}>>
=============================================================================
