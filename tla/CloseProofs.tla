---------------------------- MODULE CloseProofs ----------------------------
(***************************************************************************)
(* CloseEndpoint for every set of requests, roots and windows: the map of  *)
(* futures is a lock per root, a refusal is forgotten, an acceptance is    *)
(* never given to a request that came after its close, and no close takes  *)
(* work away.  What makes this inductive: who works on a root is in the    *)
(* map with a pending future, only finished futures are evicted, and a     *)
(* request that waits for another one has seen every close since.          *)
(***************************************************************************)
EXTENDS CloseEndpoint, TLAPS

\* A request that has not found the map empty is not in it.
Outside == {"idle", "insert", "inspect", "judge", "evict", "join"}
Waiting == {"inspect", "judge", "join"}

\* Who works on a root is in the map and its future is pending.
WorkersAreInstalled ==
  \A q \in Requests :
    /\ pc[q] \in Working => closingRoots[RootOf[q]] = q
    /\ pc[q] \in Working \cup Outside => attempt[q] = "pending"

\* The map holds futures of its root, of requests that have installed one, and
\* of those that are answered only the accepted ones.
MapIsValid ==
  \A r \in Roots, q \in Requests :
    closingRoots[r] = q =>
      /\ RootOf[q] = r
      /\ pc[q] \notin Outside
      /\ pc[q] = "answered" => attempt[q] = "accepted"

\* Who has found a future knows whose it is, and evicts only finished ones.
FoundIsValid ==
  \A q \in Requests :
    /\ pc[q] \in Waiting => existing[q] \in Requests
    /\ existing[q] # None =>
         RootOf[existing[q]] = RootOf[q] /\ pc[existing[q]] \notin Outside
    /\ pc[q] = "evict" => existing[q] # None /\ attempt[existing[q]] # "pending"

\* A refusal is never answered as an acceptance.
RefusalsAreValid ==
  \A q \in Requests : pc[q] \in {"refuse", "retract"} => reply[q] # "closing"

\* What the requests have seen of their root's windows: a closed one, the close
\* they made themselves, and whatever the unfinished request they wait for saw.
SeesNoWindow(q) == pc[q] # "idle" /\ window[RootOf[q]] = 0 => q \in current
SeesOwnClose(q) == pc[q] = "accept" \/ attempt[q] = "accepted" => q \in current
SeesWithOther(q) ==
  pc[q] \in Waiting /\ attempt[existing[q]] = "pending" /\ existing[q] \in current
    => q \in current
SeesAcceptance(q) ==
  reads = "prompt" /\ pc[q] = "join" /\ attempt[existing[q]] = "accepted"
    => q \in current
HistoryIsValid ==
  \A q \in Requests :
    SeesNoWindow(q) /\ SeesOwnClose(q) /\ SeesWithOther(q) /\ SeesAcceptance(q)

IInv ==
  /\ TypeOK
  /\ WorkersAreInstalled
  /\ MapIsValid
  /\ FoundIsValid
  /\ RefusalsAreValid
  /\ HistoryIsValid
  /\ AcceptanceIsFresh

LEMMA CloseInitInv == Init => IInv
  BY CloseAssumption DEF Init, IInv, TypeOK, WorkersAreInstalled, MapIsValid,
     FoundIsValid, RefusalsAreValid, HistoryIsValid, AcceptanceIsFresh,
     SeesNoWindow, SeesOwnClose, SeesWithOther, SeesAcceptance, Stages, Working, Outside,
     Waiting, Activities

\* Every step of a request keeps the invariant.
LEMMA HandleInv ==
  ASSUME IInv, NEW q \in Requests, Handle(q) PROVE IInv'
<1> USE CloseAssumption DEF IInv, TypeOK, WorkersAreInstalled, MapIsValid,
     FoundIsValid, RefusalsAreValid, HistoryIsValid, AcceptanceIsFresh,
     SeesNoWindow, SeesOwnClose, SeesWithOther, SeesAcceptance, Stages, Working, Outside,
     Waiting, Activities, Goto, Answer, threadVars, ideVars
<1>1. CASE Insert(q)
  <2>1. TypeOK'
    BY <1>1 DEF Insert, CurrentFor
  <2>2. WorkersAreInstalled'
    BY <1>1 DEF Insert, CurrentFor
  <2>3. MapIsValid'
    BY <1>1 DEF Insert, CurrentFor
  <2>4. FoundIsValid'
    BY <1>1 DEF Insert, CurrentFor
  <2>5. HistoryIsValid'
    BY <1>1 DEF Insert, CurrentFor
  <2>7. RefusalsAreValid'
    BY <1>1 DEF Insert, CurrentFor
  <2>6. AcceptanceIsFresh'
    BY <1>1 DEF Insert, CurrentFor
  <2> QED
    BY <2>1, <2>2, <2>3, <2>4, <2>5, <2>6, <2>7
<1>2. CASE Inspect(q)
  <2>1. TypeOK'
    BY <1>2 DEF Inspect, Seen
  <2>2. WorkersAreInstalled'
    BY <1>2 DEF Inspect, Seen
  <2>3. MapIsValid'
    BY <1>2 DEF Inspect, Seen
  <2>4. FoundIsValid'
    BY <1>2 DEF Inspect, Seen
  <2>5. HistoryIsValid'
    BY <1>2 DEF Inspect, Seen
  <2>7. RefusalsAreValid'
    BY <1>2 DEF Inspect, Seen
  <2>6. AcceptanceIsFresh'
    BY <1>2 DEF Inspect, Seen
  <2> QED
    BY <2>1, <2>2, <2>3, <2>4, <2>5, <2>6, <2>7
<1>3. CASE Judge(q)
  <2>1. TypeOK'
    BY <1>3 DEF Judge
  <2>2. WorkersAreInstalled'
    BY <1>3 DEF Judge
  <2>3. MapIsValid'
    BY <1>3 DEF Judge
  <2>4. FoundIsValid'
    BY <1>3 DEF Judge
  <2>5. HistoryIsValid'
    BY <1>3 DEF Judge
  <2>7. RefusalsAreValid'
    BY <1>3 DEF Judge
  <2>6. AcceptanceIsFresh'
    BY <1>3 DEF Judge
  <2> QED
    BY <2>1, <2>2, <2>3, <2>4, <2>5, <2>6, <2>7
<1>4. CASE Evict(q)
  <2>1. TypeOK'
    BY <1>4 DEF Evict, Removed
  <2>2. WorkersAreInstalled'
    BY <1>4 DEF Evict, Removed
  <2>3. MapIsValid'
    BY <1>4 DEF Evict, Removed
  <2>4. FoundIsValid'
    BY <1>4 DEF Evict, Removed
  <2>5. HistoryIsValid'
    BY <1>4 DEF Evict, Removed
  <2>7. RefusalsAreValid'
    BY <1>4 DEF Evict, Removed
  <2>6. AcceptanceIsFresh'
    BY <1>4 DEF Evict, Removed
  <2> QED
    BY <2>1, <2>2, <2>3, <2>4, <2>5, <2>6, <2>7
<1>5. CASE Join(q)
  <2>1. TypeOK'
    BY <1>5 DEF Join
  <2>2. WorkersAreInstalled'
    BY <1>5 DEF Join
  <2>3. MapIsValid'
    BY <1>5 DEF Join
  <2>4. FoundIsValid'
    BY <1>5 DEF Join
  <2>5. HistoryIsValid'
    BY <1>5 DEF Join
  <2>7. RefusalsAreValid'
    BY <1>5 DEF Join
  <2>6. AcceptanceIsFresh'
    BY <1>5 DEF Join
  <2> QED
    BY <2>1, <2>2, <2>3, <2>4, <2>5, <2>6, <2>7
<1>6. CASE Probe(q)
  <2>1. TypeOK'
    BY <1>6 DEF Probe, Seen
  <2>2. WorkersAreInstalled'
    BY <1>6 DEF Probe, Seen
  <2>3. MapIsValid'
    BY <1>6 DEF Probe, Seen
  <2>4. FoundIsValid'
    BY <1>6 DEF Probe, Seen
  <2>5. HistoryIsValid'
    BY <1>6 DEF Probe, Seen
  <2>7. RefusalsAreValid'
    BY <1>6 DEF Probe, Seen
  <2>6. AcceptanceIsFresh'
    BY <1>6 DEF Probe, Seen
  <2> QED
    BY <2>1, <2>2, <2>3, <2>4, <2>5, <2>6, <2>7
<1>7. CASE Decide(q)
  <2>1. TypeOK'
    BY <1>7 DEF Decide, Seen
  <2>2. WorkersAreInstalled'
    BY <1>7 DEF Decide, Seen
  <2>3. MapIsValid'
    BY <1>7 DEF Decide, Seen
  <2>4. FoundIsValid'
    BY <1>7 DEF Decide, Seen
  <2>5. HistoryIsValid'
    BY <1>7 DEF Decide, Seen
  <2>7. RefusalsAreValid'
    BY <1>7 DEF Decide, Seen
  <2>6. AcceptanceIsFresh'
    BY <1>7 DEF Decide, Seen
  <2> QED
    BY <2>1, <2>2, <2>3, <2>4, <2>5, <2>6, <2>7
<1>8. CASE Find(q)
  <2>1. TypeOK'
    BY <1>8 DEF Find, Seen
  <2>2. WorkersAreInstalled'
    BY <1>8 DEF Find, Seen
  <2>3. MapIsValid'
    BY <1>8 DEF Find, Seen
  <2>4. FoundIsValid'
    BY <1>8 DEF Find, Seen
  <2>5. HistoryIsValid'
    BY <1>8 DEF Find, Seen
  <2>7. RefusalsAreValid'
    BY <1>8 DEF Find, Seen
  <2>6. AcceptanceIsFresh'
    BY <1>8 DEF Find, Seen
  <2> QED
    BY <2>1, <2>2, <2>3, <2>4, <2>5, <2>6, <2>7
<1>9. CASE EdtCloses(q)
  <2>1. TypeOK'
    BY <1>9 DEF EdtCloses, Disappear, Reported
  <2>2. WorkersAreInstalled'
    BY <1>9 DEF EdtCloses, Disappear, Reported
  <2>3. MapIsValid'
    BY <1>9 DEF EdtCloses, Disappear, Reported
  <2>4. FoundIsValid'
    BY <1>9 DEF EdtCloses, Disappear, Reported
  <2>5. HistoryIsValid'
    BY <1>9 DEF EdtCloses, Disappear, Reported
  <2>7. RefusalsAreValid'
    BY <1>9 DEF EdtCloses, Disappear, Reported
  <2>6. AcceptanceIsFresh'
    BY <1>9 DEF EdtCloses, Disappear, Reported
  <2> QED
    BY <2>1, <2>2, <2>3, <2>4, <2>5, <2>6, <2>7
<1>10. CASE EdtRefuses(q)
  <2>1. TypeOK'
    BY <1>10 DEF EdtRefuses
  <2>2. WorkersAreInstalled'
    BY <1>10 DEF EdtRefuses
  <2>3. MapIsValid'
    BY <1>10 DEF EdtRefuses
  <2>4. FoundIsValid'
    BY <1>10 DEF EdtRefuses
  <2>5. HistoryIsValid'
    BY <1>10 DEF EdtRefuses
  <2>7. RefusalsAreValid'
    BY <1>10 DEF EdtRefuses
  <2>6. AcceptanceIsFresh'
    BY <1>10 DEF EdtRefuses
  <2> QED
    BY <2>1, <2>2, <2>3, <2>4, <2>5, <2>6, <2>7
<1>11. CASE EdtThrows(q)
  <2>1. TypeOK'
    BY <1>11 DEF EdtThrows, Disappear, Reported
  <2>2. WorkersAreInstalled'
    BY <1>11 DEF EdtThrows, Disappear, Reported
  <2>3. MapIsValid'
    BY <1>11 DEF EdtThrows, Disappear, Reported
  <2>4. FoundIsValid'
    BY <1>11 DEF EdtThrows, Disappear, Reported
  <2>5. HistoryIsValid'
    BY <1>11 DEF EdtThrows, Disappear, Reported
  <2>7. RefusalsAreValid'
    BY <1>11 DEF EdtThrows, Disappear, Reported
  <2>6. AcceptanceIsFresh'
    BY <1>11 DEF EdtThrows, Disappear, Reported
  <2> QED
    BY <2>1, <2>2, <2>3, <2>4, <2>5, <2>6, <2>7
<1>12. CASE Accept(q)
  <2>1. TypeOK'
    BY <1>12 DEF Accept
  <2>2. WorkersAreInstalled'
    BY <1>12 DEF Accept
  <2>3. MapIsValid'
    BY <1>12 DEF Accept
  <2>4. FoundIsValid'
    BY <1>12 DEF Accept
  <2>5. HistoryIsValid'
    BY <1>12 DEF Accept
  <2>7. RefusalsAreValid'
    BY <1>12 DEF Accept
  <2>6. AcceptanceIsFresh'
    BY <1>12 DEF Accept
  <2> QED
    BY <2>1, <2>2, <2>3, <2>4, <2>5, <2>6, <2>7
<1>13. CASE Refuse(q)
  <2>1. TypeOK'
    BY <1>13 DEF Refuse
  <2>2. WorkersAreInstalled'
    BY <1>13 DEF Refuse
  <2>3. MapIsValid'
    BY <1>13 DEF Refuse
  <2>4. FoundIsValid'
    BY <1>13 DEF Refuse
  <2>5. HistoryIsValid'
    BY <1>13 DEF Refuse
  <2>7. RefusalsAreValid'
    BY <1>13 DEF Refuse
  <2>6. AcceptanceIsFresh'
    BY <1>13 DEF Refuse
  <2> QED
    BY <2>1, <2>2, <2>3, <2>4, <2>5, <2>6, <2>7
<1>14. CASE Retract(q)
  <2>1. TypeOK'
    BY <1>14 DEF Retract, Removed
  <2>2. WorkersAreInstalled'
    BY <1>14 DEF Retract, Removed
  <2>3. MapIsValid'
    BY <1>14 DEF Retract, Removed
  <2>4. FoundIsValid'
    BY <1>14 DEF Retract, Removed
  <2>5. HistoryIsValid'
    BY <1>14 DEF Retract, Removed
  <2>7. RefusalsAreValid'
    BY <1>14 DEF Retract, Removed
  <2>6. AcceptanceIsFresh'
    BY <1>14 DEF Retract, Removed
  <2> QED
    BY <2>1, <2>2, <2>3, <2>4, <2>5, <2>6, <2>7
<1> QED
  BY <1>1, <1>2, <1>3, <1>4, <1>5, <1>6, <1>7, <1>8, <1>9, <1>10, <1>11, <1>12, <1>13, <1>14 DEF Handle

\* So does whatever happens to the windows.
LEMMA UserInv ==
  ASSUME IInv, NEW r \in Roots, User(r) PROVE IInv'
<1> USE CloseAssumption DEF IInv, TypeOK, WorkersAreInstalled, MapIsValid,
     FoundIsValid, RefusalsAreValid, HistoryIsValid, AcceptanceIsFresh,
     SeesNoWindow, SeesOwnClose, SeesWithOther, SeesAcceptance, Stages, Working, Outside,
     Waiting, Activities, threadVars, ideVars
<1>1. CASE Opens(r)
  BY <1>1 DEF Opens
<1>2. CASE UserCloses(r)
  BY <1>2 DEF UserCloses, Disappear, Reported
<1>3. CASE Works(r)
  BY <1>3 DEF Works
<1> QED
  BY <1>1, <1>2, <1>3 DEF User

LEMMA CloseStepInv == IInv /\ [Next]_vars => IInv'
<1> SUFFICES ASSUME IInv, [Next]_vars PROVE IInv'
  OBVIOUS
<1>1. ASSUME NEW q \in Requests, Handle(q) PROVE IInv'
  BY <1>1, HandleInv
<1>2. ASSUME NEW r \in UserRoots, User(r) PROVE IInv'
  BY <1>2, UserInv, CloseAssumption
<1>3. CASE UNCHANGED vars
  BY <1>3 DEF vars, threadVars, ideVars, IInv, TypeOK, WorkersAreInstalled,
     MapIsValid, FoundIsValid, RefusalsAreValid, HistoryIsValid, AcceptanceIsFresh,
     SeesNoWindow, SeesOwnClose, SeesWithOther, SeesAcceptance
<1> QED
  BY <1>1, <1>2, <1>3 DEF Next

THEOREM CloseInvariance == Spec => []IInv
  BY CloseInitInv, CloseStepInv, PTL DEF Spec

\* TypeOK is an invariant of the endpoint.
THEOREM CloseTypeCorrect == Spec => []TypeOK
<1>1. IInv => TypeOK
  BY DEF IInv
<1> QED
  BY <1>1, CloseInvariance, PTL

\* One request at a time works on a root, whichever futures are removed by their
\* owners or evicted by others in the meantime.
THEOREM CloseIsExclusive == Spec => []OneCloserPerRoot
<1>1. IInv => OneCloserPerRoot
  BY DEF IInv, WorkersAreInstalled, OneCloserPerRoot
<1> QED
  BY <1>1, CloseInvariance, PTL

\* The map gives nobody the result of a refused request that is over.
THEOREM RefusalsLeaveTheMap == Spec => []RefusalsAreForgotten
<1>1. IInv => RefusalsAreForgotten
  BY CloseAssumption DEF IInv, MapIsValid, RefusalsAreForgotten
<1> QED
  BY <1>1, CloseInvariance, PTL

\* An acceptance is given only to requests that were there before its close, or
\* came while the one that closed was unfinished.
THEOREM AcceptancesAreFresh == Spec => []AcceptanceIsFresh
<1>1. IInv => AcceptanceIsFresh
  BY DEF IInv
<1> QED
  BY <1>1, CloseInvariance, PTL

\* A step of a request closes a window only when nothing its mode respects goes
\* on in it at that very step.
THEOREM CloseProtectsWork == Spec => WorkIsProtected
<1> DEFINE Protected ==
      \A q \in Requests :
        pc[q] = "edt" /\ pc'[q] # "edt" /\ window[RootOf[q]] # window'[RootOf[q]]
          => activity[RootOf[q]] \notin Blocking(ModeOf[q])
<1>1. IInv /\ [Next]_vars => [Protected]_vars
  <2> SUFFICES ASSUME IInv, Next, NEW q \in Requests, pc[q] = "edt",
                      pc'[q] # "edt", window[RootOf[q]] # window'[RootOf[q]]
               PROVE activity[RootOf[q]] \notin Blocking(ModeOf[q])
    OBVIOUS
  <2> USE DEF IInv, TypeOK, Goto, ideVars, threadVars
  <2>1. PICK p \in Requests : Handle(p)
    BY CloseAssumption DEF Next, User, Opens, UserCloses, Works
  <2>2. EdtCloses(p) \/ EdtThrows(p)
    BY <2>1 DEF Handle, Insert, Inspect, Judge, Evict, Join, Probe, Decide, Find,
       EdtRefuses, Accept, Refuse, Retract
  <2>3. p = q
    BY <2>2 DEF EdtCloses, EdtThrows
  <2> QED
    BY <2>2, <2>3 DEF EdtCloses, EdtThrows, Closable
<1>2. Spec => [][Protected]_vars
  BY <1>1, CloseInvariance, PTL DEF Spec
<1> QED
  BY <1>2 DEF WorkIsProtected
=============================================================================
