---------------------------- MODULE OpenerProofs ----------------------------
(***************************************************************************)
(* Proofs about Opener for any set of openers and roots.                   *)
(***************************************************************************)
EXTENDS Opener, TLAPS

\* The inductive invariant.  A stage says which records its opener has:
ClaimsHeld ==
  \A p \in Openers :
    /\ pc[p] \in Launching => owner = p
    /\ pc[p] \in Coordinated => operation[RootOf[p]] = p

\* outside the launch queue it has none there but the claim its release may have
\* failed to give back, before the grant none at all,
QueueStages == Launching \cup {"launchPoll", "await", "register", "cleanLaunch"}
NoStrayEntries ==
  \A p \in Openers :
    /\ pc[p] \notin QueueStages \cup {"done"} => ticket[p] = 0 /\ owner # p
    /\ pc[p] \in Uncoordinated => operation[RootOf[p]] # p

\* and only a killed opener leaves an orphan.
OrphansAreKilled ==
  \A p \in Openers : orphan[p] # "none" => pc[p] = "done" /\ outcome[p] = "killed"

OpenerInv ==
  TypeOK /\ ClaimsHeld /\ NoStrayEntries /\ OrphansAreKilled /\ QueueFileValid

\* The initial state satisfies the invariant.
LEMMA InitInv == Init => OpenerInv
  BY OpenerAssumption DEF Init, OpenerInv, TypeOK, ClaimsHeld, NoStrayEntries,
     OrphansAreKilled, QueueFileValid, Stages, Uncoordinated, Coordinated,
     Launching, QueueStages, Outcomes, Live

\* Every step of the program keeps the invariant.
LEMMA StepInv == OpenerInv /\ [Next]_vars => OpenerInv'
<1> SUFFICES ASSUME OpenerInv, [Next]_vars PROVE OpenerInv'
  OBVIOUS
<1> USE OpenerAssumption DEF OpenerInv, TypeOK, ClaimsHeld, NoStrayEntries,
     OrphansAreKilled, QueueFileValid, Stages, Uncoordinated, Coordinated,
     Launching, QueueStages, Outcomes, Live, Goto, Finish, scriptOnly, queueVars, requests
<1>1. ASSUME NEW p \in Openers, Start(p) PROVE OpenerInv'
  BY <1>1 DEF Start, AlreadyReady, NotReady, IsReady
<1>2. ASSUME NEW p \in Openers, MigrateExists(p) PROVE OpenerInv'
  BY <1>2 DEF MigrateExists
<1>3. ASSUME NEW p \in Openers, MigrateList(p) PROVE OpenerInv'
  <2>1. CASE \E result \in {"failed", "operational-failure"} : Finish(p, "migrateList", result)
    BY <1>3, <2>1 DEF MigrateList
  <2>2. CASE Goto(p, "migrateList", "migrateRead") /\ UNCHANGED outcome
    BY <1>3, <2>2 DEF MigrateList
  <2> QED
    BY <1>3, <2>1, <2>2 DEF MigrateList
<1>4. ASSUME NEW p \in Openers, MigrateRead(p) PROVE OpenerInv'
  BY <1>4 DEF MigrateRead
<1>5. ASSUME NEW p \in Openers, MigrateUnlink(p) PROVE OpenerInv'
  BY <1>5 DEF MigrateUnlink
<1>6. ASSUME NEW p \in Openers, MigrateRmdir(p) PROVE OpenerInv'
  BY <1>6 DEF MigrateRmdir
<1>7. ASSUME NEW p \in Openers, MigrateWait(p) PROVE OpenerInv'
  BY <1>7 DEF MigrateWait
<1>8. ASSUME NEW p \in Openers, OperationPoll(p) PROVE OpenerInv'
  BY <1>8 DEF OperationPoll, MayOwn, AcquireOperation, IsLive
<1>9. ASSUME NEW p \in Openers, OperationActive(p) PROVE OpenerInv'
  BY <1>9 DEF OperationActive
<1>10. ASSUME NEW p \in Openers, RecheckOperation(p) PROVE OpenerInv'
  BY <1>10 DEF RecheckOperation, AlreadyReady, NotReady, IsReady
<1>11. ASSUME NEW p \in Openers, LaunchPoll(p) PROVE OpenerInv'
  BY <1>11 DEF LaunchPoll, AcquireLaunch, MayLaunch, Entry, Enlists, Kept, HeldBy, IsLive
<1>12. ASSUME NEW p \in Openers, RecheckLaunch(p) PROVE OpenerInv'
  BY <1>12 DEF RecheckLaunch, AlreadyReady, NotReady, IsReady
<1>13. ASSUME NEW p \in Openers, Trust(p) PROVE OpenerInv'
  BY <1>13 DEF Trust
<1>14. ASSUME NEW p \in Openers, RecheckTrust(p) PROVE OpenerInv'
  BY <1>14 DEF RecheckTrust, AlreadyReady, NotReady, IsReady
<1>15. ASSUME NEW p \in Openers, Open(p) PROVE OpenerInv'
  BY <1>15 DEF Open
<1>16. ASSUME NEW p \in Openers, LeaveQueue(p) PROVE OpenerInv'
  BY <1>16 DEF LeaveQueue, ReleaseLaunch
<1>17. ASSUME NEW p \in Openers, Await(p) PROVE OpenerInv'
  BY <1>17 DEF Await, IsReady
<1>18. ASSUME NEW p \in Openers, Register(p) PROVE OpenerInv'
  BY <1>18 DEF Register
<1>19. ASSUME NEW p \in Openers, CleanLaunch(p) PROVE OpenerInv'
  BY <1>19 DEF CleanLaunch, ReleaseLaunch
<1>20. ASSUME NEW p \in Openers, CleanOperation(p) PROVE OpenerInv'
  BY <1>20 DEF CleanOperation, ReleaseOperations
<1>21. ASSUME NEW p \in Openers, Deadline(p) PROVE OpenerInv'
  BY <1>21 DEF Deadline
<1>22. ASSUME NEW p \in Openers, ReadinessDeadline(p) PROVE OpenerInv'
  BY <1>22 DEF ReadinessDeadline
<1>23. ASSUME NEW p \in Openers, ProbeFails(p) PROVE OpenerInv'
  BY <1>23 DEF ProbeFails
<1>24. ASSUME NEW p \in Openers, Interrupt(p) PROVE OpenerInv'
  BY <1>24 DEF Interrupt
<1>25. ASSUME NEW p \in Openers, Kill(p) PROVE OpenerInv'
  BY <1>25 DEF Kill
<1>26. ASSUME NEW p \in Openers, OrphanPoll(p) PROVE OpenerInv'
  BY <1>26 DEF OrphanPoll, AcquireOperation, AcquireLaunch, MayLaunch, Entry, Enlists, Kept, HeldBy, IsLive
<1>27. ASSUME NEW p \in Openers, OrphanEnds(p) PROVE OpenerInv'
  BY <1>27 DEF OrphanEnds
<1>28. CASE Environment
  BY <1>28 DEF Environment, LegacyOwnerExits, BecomesReady, UserOpens, WindowCloses
<1>29. CASE UNCHANGED vars
  BY <1>29 DEF vars
<1> QED
  BY <1>1, <1>2, <1>3, <1>4, <1>5, <1>6, <1>7, <1>8, <1>9, <1>10, <1>11, <1>12, <1>13, <1>14, <1>15, <1>16, <1>17, <1>18, <1>19, <1>20, <1>21, <1>22, <1>23, <1>24, <1>25, <1>26, <1>27, <1>28, <1>29
     DEF Next, Script, Migrate, Coordinate, LaunchSteps, FinishSteps, Disturb, Terminated

\* The invariant holds throughout.
THEOREM Invariance == Spec => []OpenerInv
  BY InitInv, StepInv, PTL DEF Spec

\* Every reachable state is well typed.
THEOREM TypeCorrect == Spec => []TypeOK
  BY Invariance, PTL DEF OpenerInv

\* Two live openers are never both inside the launch section: each of them
\* would own the one launch claim.
THEOREM LaunchMutualExclusion == Spec => []LaunchExclusion
<1>1. OpenerInv => LaunchExclusion
  BY DEF OpenerInv, ClaimsHeld, LaunchExclusion
<1> QED
  BY <1>1, Invariance, PTL

\* Two live openers of one root never both hold its operation.
THEOREM SingleFlightPerRoot == Spec => []SingleFlight
<1>1. OpenerInv => SingleFlight
  BY DEF OpenerInv, ClaimsHeld, SingleFlight
<1> QED
  BY <1>1, Invariance, PTL

\* Whatever is written to launch-queue.json passes the validation of the next
\* load, for any number of openers, deaths and orphans.
THEOREM QueueFileAlwaysValid == Spec => []QueueFileValid
  BY Invariance, PTL DEF OpenerInv

\* No step of one process touches what another live one has written.
LEMMA StepKeepsOthers ==
  ASSUME OpenerInv, [Next]_vars, NEW p \in Openers, Live(p), pc'[p] = pc[p]
  PROVE  /\ owner = p => owner' = p
         /\ ticket[p] > 0 => ticket'[p] = ticket[p]
         /\ operation[RootOf[p]] = p => operation'[RootOf[p]] = p
<1> USE OpenerAssumption DEF OpenerInv, TypeOK, NoStrayEntries, OrphansAreKilled,
     Stages, Uncoordinated, Coordinated, Launching, QueueStages, Live, Goto, Finish,
     scriptOnly, queueVars, requests
<1>1. ASSUME NEW q \in Openers, Script(q)
      PROVE  /\ owner = p => owner' = p
             /\ ticket[p] > 0 => ticket'[p] = ticket[p]
             /\ operation[RootOf[p]] = p => operation'[RootOf[p]] = p
  <2>1. CASE Start(q)
    BY <2>1 DEF Start, AlreadyReady, NotReady
  <2>2. CASE Migrate(q)
    BY <2>2 DEF Migrate, MigrateExists, MigrateList, MigrateRead, MigrateUnlink,
       MigrateRmdir, MigrateWait
  <2>3. CASE OperationPoll(q)
    BY <2>3 DEF OperationPoll, MayOwn, AcquireOperation, IsLive
  <2>4. CASE OperationActive(q) \/ RecheckOperation(q)
    BY <2>4 DEF OperationActive, RecheckOperation, AlreadyReady, NotReady
  <2>5. CASE LaunchPoll(q)
    BY <2>5 DEF LaunchPoll, AcquireLaunch, MayLaunch, Entry, Enlists, Kept, HeldBy, IsLive
  <2>6. CASE LaunchSteps(q)
    BY <2>6 DEF LaunchSteps, RecheckLaunch, Trust, RecheckTrust, Open, LeaveQueue,
       AlreadyReady, NotReady, ReleaseLaunch
  <2>7. CASE FinishSteps(q)
    BY <2>7 DEF FinishSteps, Await, Register, CleanLaunch, CleanOperation,
       ReleaseLaunch, ReleaseOperations
  <2> QED
    BY <1>1, <2>1, <2>2, <2>3, <2>4, <2>5, <2>6, <2>7 DEF Script, Coordinate
<1>2. ASSUME NEW q \in Openers, OrphanPoll(q)
      PROVE  /\ owner = p => owner' = p
             /\ ticket[p] > 0 => ticket'[p] = ticket[p]
             /\ operation[RootOf[p]] = p => operation'[RootOf[p]] = p
  BY <1>2 DEF OrphanPoll, AcquireOperation, AcquireLaunch, MayLaunch, Entry, Enlists,
     Kept, HeldBy, IsLive
<1>3. ASSUME NEW q \in Openers,
             Deadline(q) \/ ReadinessDeadline(q) \/ ProbeFails(q) \/ Interrupt(q)
               \/ Kill(q) \/ OrphanEnds(q)
      PROVE  UNCHANGED <<owner, ticket, operation>>
  BY <1>3 DEF Deadline, ReadinessDeadline, ProbeFails, Interrupt, Kill, OrphanEnds
<1>4. CASE Environment
  BY <1>4 DEF Environment, LegacyOwnerExits, BecomesReady, UserOpens, WindowCloses
<1>5. CASE UNCHANGED vars
  BY <1>5 DEF vars
<1> QED
  BY <1>1, <1>2, <1>3, <1>4, <1>5 DEF Next, Disturb, Terminated

\* The action property of the run, from the invariant and the step lemma.
THEOREM RecordsKept == Spec => OthersRecordsKept
<1>1. OpenerInv /\ [Next]_vars =>
        [\A p \in Openers : Live(p) /\ pc'[p] = pc[p] =>
           /\ owner = p => owner' = p
           /\ ticket[p] > 0 => ticket'[p] = ticket[p]
           /\ operation[RootOf[p]] = p => operation'[RootOf[p]] = p]_vars
  BY StepKeepsOthers
<1> QED
  BY <1>1, Invariance, PTL DEF Spec, OthersRecordsKept

\* While an opener of the previous version holds opener.lock, nobody gets past
\* the migration: whoever reads its record waits, and nobody removes it.
THEOREM LegacyOwnerIsRespected == Spec => []LegacyOwnerKeepsOut
<1>1. Init => LegacyOwnerKeepsOut
  BY DEF Init, LegacyOwnerKeepsOut
<1>2. OpenerInv /\ LegacyOwnerKeepsOut /\ [Next]_vars => LegacyOwnerKeepsOut'
  <2> SUFFICES ASSUME OpenerInv, LegacyOwnerKeepsOut, [Next]_vars, legacy' = "live",
                      NEW q \in Openers
               PROVE  pc'[q] \in {"start", "migrate", "migrateList", "migrateRead",
                                  "migrateSleep", "done"}
    BY DEF LegacyOwnerKeepsOut
  <2> USE DEF OpenerInv, TypeOK, Goto, Finish, scriptOnly, Uncoordinated, Live
  <2>1. legacy = "live"
    <3>1. CASE \E p \in Openers : Script(p) \/ Disturb(p)
      BY <3>1 DEF Script, Start, AlreadyReady, NotReady, Migrate, MigrateExists,
         MigrateList, MigrateRead, MigrateUnlink, MigrateRmdir, MigrateWait, Coordinate,
         OperationPoll, OperationActive, RecheckOperation, LaunchPoll, LaunchSteps,
         RecheckLaunch, Trust, RecheckTrust, Open, LeaveQueue, FinishSteps, Await,
         Register, CleanLaunch, CleanOperation, Disturb, Deadline, ReadinessDeadline,
         ProbeFails, Interrupt, Kill, OrphanPoll, OrphanEnds
    <3>2. CASE Environment \/ UNCHANGED vars
      BY <3>2 DEF Environment, LegacyOwnerExits, BecomesReady, UserOpens, WindowCloses, vars
    <3> QED
      BY <3>1, <3>2 DEF Next, Terminated
  <2>2. \A p \in Openers : pc[p] \in {"start", "migrate", "migrateList", "migrateRead",
                                      "migrateSleep", "done"}
    BY <2>1 DEF LegacyOwnerKeepsOut
  <2>3. ASSUME NEW p \in Openers, Script(p) PROVE Start(p) \/ Migrate(p)
    BY <2>2, <2>3 DEF Script, Coordinate, OperationPoll, OperationActive,
       RecheckOperation, LaunchPoll, LaunchSteps, RecheckLaunch, Trust, RecheckTrust,
       Open, LeaveQueue, FinishSteps, Await, Register, CleanLaunch, CleanOperation,
       AlreadyReady, NotReady
  <2>4. ASSUME NEW p \in Openers, Start(p) \/ Migrate(p)
        PROVE  pc'[q] \in {"start", "migrate", "migrateList", "migrateRead",
                           "migrateSleep", "done"}
    BY <2>1, <2>2, <2>4 DEF Start, AlreadyReady, NotReady, Migrate, MigrateExists,
       MigrateList, MigrateRead, MigrateUnlink, MigrateRmdir, MigrateWait
  <2>5. ASSUME NEW p \in Openers, Disturb(p)
        PROVE  pc'[q] \in {"start", "migrate", "migrateList", "migrateRead",
                           "migrateSleep", "done"}
    BY <2>2, <2>5 DEF Disturb, Deadline, ReadinessDeadline, ProbeFails, Interrupt,
       Kill, OrphanPoll, OrphanEnds
  <2>6. CASE Environment \/ UNCHANGED vars
    BY <2>2, <2>6 DEF Environment, LegacyOwnerExits, BecomesReady, UserOpens,
       WindowCloses, vars
  <2> QED
    BY <2>3, <2>4, <2>5, <2>6 DEF Next, Terminated
<1> QED
  BY <1>1, <1>2, Invariance, PTL DEF Spec

-----------------------------------------------------------------------------
(* One open request per attempt.                                           *)

\* p has sent its request and has not seen the answer.
InFlight(p) == pc[p] \in {"opened", "await"}

\* Whoever asked for a window is excused, in flight, or its window is ready: so the
\* next one that does not find it ready has missed that, and is excused itself.
AskedInv ==
  /\ \A r \in Roots : \A p \in asked[r] :
       RootOf[p] = r /\ (Excused(p) \/ InFlight(p) \/ ide[r] = "ready")
  /\ \A p \in Openers :
       /\ pc[p] \notin {"cleanLaunch", "cleanOperation", "done"} => outcome[p] = "pending"
       /\ pc[p] = "open" =>
            /\ p \notin asked[RootOf[p]]
            /\ \A q \in asked[RootOf[p]] : Excused(p) \/ Excused(q)
       /\ p \in asked[RootOf[p]] =>
            pc[p] \in {"opened", "await", "register", "cleanLaunch", "cleanOperation", "done"}

\* A step that sends nothing.
LEMMA QuietAsked ==
  ASSUME OpenerInv, AskedInv, OneOpenRequestPerAttempt,
         \A q \in Openers : Excused(q) => Excused(q)',
         \A r \in Roots : asked'[r] \in {asked[r], {}},
         \A r \in Roots : asked'[r] = {} \/ ide[r] # "ready" \/ ide'[r] = "ready",
         \A q \in Openers :
           /\ InFlight(q) => InFlight(q)' \/ ide'[RootOf[q]] = "ready" \/ Excused(q)'
           /\ pc'[q] \notin {"cleanLaunch", "cleanOperation", "done"} => outcome'[q] = "pending"
           /\ pc'[q] = "open" => pc[q] = "open"
           /\ pc[q] \in {"opened", "await", "register", "cleanLaunch", "cleanOperation", "done"} =>
                pc'[q] \in {"opened", "await", "register", "cleanLaunch", "cleanOperation", "done"}
  PROVE  AskedInv' /\ OneOpenRequestPerAttempt'
<1>1. \A r \in Roots : asked[r] \subseteq Openers /\ asked'[r] \subseteq asked[r]
  BY DEF OpenerInv, TypeOK
<1>2. \A p \in Openers : RootOf[p] \in Roots
  BY OpenerAssumption
<1> QED
  BY <1>1, <1>2 DEF AskedInv, OneOpenRequestPerAttempt

\* The script of p ends, well only when it is not in flight.
LEMMA EndAsked ==
  ASSUME OpenerInv, AskedInv, OneOpenRequestPerAttempt, NEW p \in Openers,
         NEW to \in {"cleanLaunch", "done"}, NEW result \in Outcomes \ {"pending"},
         pc' = [pc EXCEPT ![p] = to], outcome' = [outcome EXCEPT ![p] = result],
         UNCHANGED <<asked, doubted, ide>>,
         result = "ready" => outcome[p] = "pending" /\ ~InFlight(p)
  PROVE  AskedInv' /\ OneOpenRequestPerAttempt'
<1>1. /\ \A q \in Openers \ {p} : outcome'[q] = outcome[q] /\ pc'[q] = pc[q]
      /\ outcome'[p] = result /\ pc'[p] = to
  BY DEF OpenerInv, TypeOK
<1>2. \A q \in Openers : Excused(q) => Excused(q)'
  BY <1>1 DEF Excused
<1>3. InFlight(p) => Excused(p)'
  BY <1>1 DEF Excused
<1>4. \A q \in Openers :
           /\ InFlight(q) => InFlight(q)' \/ ide'[RootOf[q]] = "ready" \/ Excused(q)'
           /\ pc'[q] \notin {"cleanLaunch", "cleanOperation", "done"} => outcome'[q] = "pending"
           /\ pc'[q] = "open" => pc[q] = "open"
           /\ pc[q] \in {"opened", "await", "register", "cleanLaunch", "cleanOperation", "done"} =>
                pc'[q] \in {"opened", "await", "register", "cleanLaunch", "cleanOperation", "done"}
  BY <1>1, <1>3 DEF InFlight, AskedInv
<1> QED
  BY <1>2, <1>4, QuietAsked

\* p goes on from its last look: nobody else of its root is in flight, so whoever
\* asked before is excused, unless the window is ready and p has missed it.
LEMMA LastLook ==
  ASSUME OpenerInv, AskedInv, OneOpenRequestPerAttempt, NEW p \in Openers,
         Goto(p, "recheckTrust", "open"),
         doubted' = IF IsReady(p) THEN doubted \cup {p} ELSE doubted,
         UNCHANGED <<asked, outcome, ide>>
  PROVE  AskedInv' /\ OneOpenRequestPerAttempt'
<1>1. /\ \A q \in Openers \ {p} : pc'[q] = pc[q]
      /\ pc[p] = "recheckTrust" /\ pc'[p] = "open"
      /\ RootOf[p] \in Roots /\ \A r \in Roots : asked[r] \subseteq Openers
  BY OpenerAssumption DEF Goto, OpenerInv, TypeOK
<1>2. \A q : Excused(q) => Excused(q)'
  BY DEF Excused
<1>3. p \notin asked[RootOf[p]]
  BY <1>1 DEF AskedInv
<1>4. ASSUME NEW q \in asked[RootOf[p]] PROVE Excused(p)' \/ Excused(q)'
  <2>1. CASE IsReady(p)
    BY <2>1 DEF Excused
  <2>2. CASE ~IsReady(p)
    <3>1. q \in Openers /\ q # p /\ RootOf[q] = RootOf[p]
      BY <1>1, <1>3, <1>4 DEF AskedInv
    <3>2. ~InFlight(q)
      BY <1>1, <3>1 DEF InFlight, OpenerInv, ClaimsHeld, Coordinated, Launching
    <3> QED
      BY <1>1, <1>2, <1>4, <2>2, <3>2 DEF AskedInv, IsReady
  <2> QED
    BY <2>1, <2>2
<1>5. \A q \in Openers : InFlight(q)' <=> InFlight(q)
  BY <1>1 DEF InFlight
<1> QED
  BY <1>1, <1>2, <1>3, <1>4, <1>5 DEF AskedInv, OneOpenRequestPerAttempt

\* p sends its request.
LEMMA SendAsked ==
  ASSUME OpenerInv, AskedInv, OneOpenRequestPerAttempt, NEW p \in Openers,
         Goto(p, "open", "opened"), UNCHANGED <<outcome, doubted>>,
         asked' = [asked EXCEPT ![RootOf[p]] = @ \cup {p}],
         \A r \in Roots : ide[r] = "ready" => ide'[r] = "ready"
  PROVE  AskedInv' /\ OneOpenRequestPerAttempt'
<1>1. /\ \A q \in Openers \ {p} : pc'[q] = pc[q]
      /\ pc[p] = "open" /\ pc'[p] = "opened"
      /\ RootOf[p] \in Roots /\ \A r \in Roots : asked[r] \subseteq Openers
  BY OpenerAssumption DEF Goto, OpenerInv, TypeOK
<1>2. \A r \in Roots : asked'[r] = IF r = RootOf[p] THEN asked[r] \cup {p} ELSE asked[r]
  BY DEF OpenerInv, TypeOK
<1>3. \A q : Excused(q)' <=> Excused(q)
  BY DEF Excused
<1>4. \A q \in Openers : InFlight(q) => InFlight(q)'
  BY <1>1 DEF InFlight
<1>5. ASSUME NEW q \in Openers, pc'[q] = "open" PROVE q # p /\ RootOf[q] # RootOf[p]
  BY <1>1, <1>5 DEF OpenerInv, ClaimsHeld, Coordinated, Launching
<1>6. OneOpenRequestPerAttempt'
  BY <1>1, <1>2, <1>3 DEF AskedInv, OneOpenRequestPerAttempt
<1>7. \A r \in Roots : \A q \in asked'[r] :
        RootOf[q] = r /\ (Excused(q)' \/ InFlight(q)' \/ ide'[r] = "ready")
  <2>1. InFlight(p)'
    BY <1>1 DEF InFlight
  <2> QED
    BY <1>1, <1>2, <1>3, <1>4, <2>1 DEF AskedInv
<1>8. \A q \in Openers :
       /\ pc'[q] \notin {"cleanLaunch", "cleanOperation", "done"} => outcome'[q] = "pending"
       /\ pc'[q] = "open" =>
            /\ q \notin asked'[RootOf[q]]
            /\ \A o \in asked'[RootOf[q]] : Excused(q)' \/ Excused(o)'
       /\ q \in asked'[RootOf[q]] =>
            pc'[q] \in {"opened", "await", "register", "cleanLaunch", "cleanOperation", "done"}
  BY <1>1, <1>2, <1>3, <1>5, OpenerAssumption DEF AskedInv
<1> QED
  BY <1>6, <1>7, <1>8 DEF AskedInv

LEMMA AskedStep ==
  OpenerInv /\ AskedInv /\ OneOpenRequestPerAttempt /\ [Next]_vars =>
    AskedInv' /\ OneOpenRequestPerAttempt'
<1> DEFINE Keeps == AskedInv' /\ OneOpenRequestPerAttempt'
<1> SUFFICES ASSUME OpenerInv, AskedInv, OneOpenRequestPerAttempt, [Next]_vars PROVE Keeps
  OBVIOUS
<1> HIDE DEF Keeps
<1> USE DEF scriptOnly, requests
<1>1. ASSUME NEW p \in Openers, NEW from \in Stages \ {"done", "cleanLaunch", "cleanOperation"},
             NEW result \in Outcomes \ {"pending"}, Finish(p, from, result),
             UNCHANGED <<asked, doubted, ide>>, result = "ready" => from \notin {"opened", "await"}
      PROVE  Keeps
  <2>1. outcome[p] = "pending" /\ (result = "ready" => ~InFlight(p))
    BY <1>1 DEF AskedInv, Finish, Goto, InFlight
  <2> QED
    BY <1>1, <2>1, EndAsked DEF Finish, Goto, Keeps
<1>2. ASSUME NEW p \in Openers, NEW from \in Stages \ {"done"}, NEW to \in Stages \ {"open"},
             Goto(p, from, to), UNCHANGED <<outcome, asked, doubted, ide>>,
             from \in {"opened", "await"} => to = "await" \/ ide[RootOf[p]] = "ready",
             from \in {"cleanLaunch", "cleanOperation"} <=>
               to \in {"cleanLaunch", "cleanOperation", "done"},
             from \in {"opened", "await", "register"} => to \in {"await", "register"}
      PROVE  Keeps
  <2>1. /\ \A q \in Openers \ {p} : pc'[q] = pc[q]
        /\ pc[p] = from /\ pc'[p] = to
    BY <1>2 DEF Goto, OpenerInv, TypeOK
  <2>2. \A q : Excused(q)' <=> Excused(q)
    BY <1>2 DEF Excused
  <2>3. \A q \in Openers :
           /\ InFlight(q) => InFlight(q)' \/ ide'[RootOf[q]] = "ready" \/ Excused(q)'
           /\ pc'[q] \notin {"cleanLaunch", "cleanOperation", "done"} => outcome'[q] = "pending"
           /\ pc'[q] = "open" => pc[q] = "open"
           /\ pc[q] \in {"opened", "await", "register", "cleanLaunch", "cleanOperation", "done"} =>
                pc'[q] \in {"opened", "await", "register", "cleanLaunch", "cleanOperation", "done"}
    BY <1>2, <2>1 DEF InFlight, AskedInv
  <2> QED
    BY <1>2, <2>2, <2>3, QuietAsked DEF Keeps
<1> USE DEF Stages, Uncoordinated, Coordinated, Launching, Outcomes
<1>3. ASSUME NEW p \in Openers, NEW from \in {"start", "recheckOperation", "recheckLaunch"},
             NEW to \in {"migrate", "launchPoll", "trust"},
             AlreadyReady(p, from) \/ NotReady(p, from, to)
      PROVE  Keeps
  BY <1>1, <1>2, <1>3 DEF AlreadyReady, NotReady
<1>4. ASSUME NEW p \in Openers, Script(p) PROVE Keeps
  <2>1. CASE Start(p) \/ RecheckOperation(p) \/ RecheckLaunch(p)
    BY <1>3, <2>1 DEF Start, RecheckOperation, RecheckLaunch
  <2>2. CASE Migrate(p)
    BY <1>1, <1>2, <2>2 DEF Migrate, MigrateExists, MigrateList, MigrateRead,
       MigrateUnlink, MigrateRmdir, MigrateWait
  <2>3. CASE OperationPoll(p) \/ OperationActive(p) \/ LaunchPoll(p)
    BY <1>2, <2>3 DEF OperationPoll, OperationActive, LaunchPoll
  <2>4. CASE Trust(p) \/ Register(p)
    BY <1>1, <1>2, <2>4 DEF Trust, Register
  <2>5. CASE RecheckTrust(p)
    BY <1>1, <2>5, LastLook DEF RecheckTrust, AlreadyReady, Keeps
  <2>6. CASE Open(p)
    <3>1. CASE Finish(p, "open", "failed") /\ UNCHANGED <<asked, doubted, ide>>
      BY <1>1, <3>1
    <3>2. CASE /\ Goto(p, "open", "opened")
               /\ asked' = [asked EXCEPT ![RootOf[p]] = @ \cup {p}]
               /\ UNCHANGED <<outcome, doubted>>
               /\ \/ ide' = [ide EXCEPT ![RootOf[p]] = IF @ = "absent" THEN "opening" ELSE @]
                  \/ UNCHANGED ide
      <4>1. \A r \in Roots : ide[r] = "ready" => ide'[r] = "ready"
        BY <3>2 DEF OpenerInv, TypeOK
      <4> QED
        BY <3>2, <4>1, SendAsked DEF Keeps
    <3> QED
      BY <2>6, <3>1, <3>2 DEF Open
  <2>7. CASE LeaveQueue(p)
    BY <1>1, <1>2, <2>7 DEF LeaveQueue
  <2>8. CASE Await(p)
    BY <1>2, <2>8 DEF Await, IsReady
  <2>9. CASE CleanLaunch(p) \/ CleanOperation(p)
    BY <1>2, <2>9 DEF CleanLaunch, CleanOperation
  <2> QED
    BY <1>4, <2>1, <2>2, <2>3, <2>4, <2>5, <2>6, <2>7, <2>8, <2>9
       DEF Script, Coordinate, LaunchSteps, FinishSteps
<1>5. ASSUME NEW p \in Openers, Deadline(p) \/ ReadinessDeadline(p) \/ ProbeFails(p)
      PROVE  Keeps
  BY <1>1, <1>5 DEF Deadline, ReadinessDeadline, ProbeFails
<1>6. ASSUME NEW p \in Openers, Interrupt(p) \/ Kill(p) PROVE Keeps
  BY <1>6, EndAsked DEF Interrupt, Kill, Keeps
<1>7. ASSUME UNCHANGED <<pc, outcome, doubted>>,
             \A r \in Roots : asked'[r] \in {asked[r], {}},
             \A r \in Roots : asked'[r] = {} \/ ide[r] # "ready" \/ ide'[r] = "ready"
      PROVE  Keeps
  <2>1. \A q \in Openers : Excused(q)' <=> Excused(q)
    BY <1>7 DEF Excused
  <2>2. \A q \in Openers :
           /\ InFlight(q)' <=> InFlight(q)
           /\ pc'[q] = pc[q]
           /\ pc'[q] \notin {"cleanLaunch", "cleanOperation", "done"} => outcome'[q] = "pending"
    BY <1>7 DEF InFlight, AskedInv
  <2> QED
    BY <1>7, <2>1, <2>2, QuietAsked DEF Keeps
<1>8. CASE \E p \in Openers : OrphanPoll(p) \/ OrphanEnds(p)
  BY <1>7, <1>8 DEF OrphanPoll, OrphanEnds
<1>9. CASE Environment
  BY <1>7, <1>9 DEF Environment, LegacyOwnerExits, BecomesReady, UserOpens, WindowCloses,
     OpenerInv, TypeOK
<1>10. CASE UNCHANGED vars
  BY <1>7, <1>10 DEF vars
<1> QED
  BY <1>4, <1>5, <1>6, <1>8, <1>9, <1>10 DEF Next, Disturb, Terminated

\* However many openers ask for a root, a window is asked for once, and again only
\* for an opener that failed or died or by one that missed that it is ready.
THEOREM OneOpenPerAttempt == Spec => []OneOpenRequestPerAttempt
<1>1. Init => AskedInv /\ OneOpenRequestPerAttempt
  BY OpenerAssumption DEF Init, AskedInv, OneOpenRequestPerAttempt
<1> QED
  BY <1>1, AskedStep, Invariance, PTL DEF Spec

-----------------------------------------------------------------------------
(* The queue implements FifoLock.  A step is seen there by what it does to *)
(* the entries of live openers.                                            *)

\* p has the same entry of a live process before and after the step.
SameEntry(p) ==
  /\ (Live(p) /\ ticket[p] > 0)' <=> (Live(p) /\ ticket[p] > 0)
  /\ Live(p) /\ ticket[p] > 0 => ticket'[p] = ticket[p]
  /\ (Live(p) /\ owner = p)' <=> (Live(p) /\ owner = p)

\* The lock holder is the live owner.
LEMMA HolderIs ==
  ASSUME TypeOK, NEW p \in Openers
  PROVE  HeldBy = p <=> owner = p /\ Live(p)
  BY OpenerAssumption DEF TypeOK, HeldBy, IsLive

\* Steps that keep every live entry do not show.
LEMMA SameEntriesStutter ==
  ASSUME TypeOK, TypeOK', \A p \in Openers : SameEntry(p)
  PROVE  UNCHANGED <<HeldBy, InLine, Ahead>>
<1>1. HeldBy' = HeldBy
  BY OpenerAssumption DEF TypeOK, HeldBy, IsLive, SameEntry
<1>2. InLine' = InLine
  BY DEF InLine, SameEntry
<1>3. Ahead' = Ahead
  <2>1. \A p \in InLine : ticket'[p] = ticket[p]
    BY DEF InLine, SameEntry
  <2> QED
    BY <1>2, <2>1 DEF Ahead, InLine
<1> QED
  BY <1>1, <1>2, <1>3

\* A step that takes away the entry of one opener is its leaving, if it had one.
LEMMA LostEntryLeaves ==
  ASSUME TypeOK, TypeOK', NEW c \in Openers,
         \A p \in Openers \ {c} : SameEntry(p),
         ~(Live(c) /\ (ticket[c] > 0 \/ owner = c))'
  PROVE  Fifo!Leave(c) \/ UNCHANGED <<HeldBy, InLine, Ahead>>
<1>1. HeldBy' = IF HeldBy = c THEN None ELSE HeldBy
  BY OpenerAssumption DEF TypeOK, HeldBy, IsLive, SameEntry
<1>2. InLine' = InLine \ {c}
  BY DEF InLine, SameEntry
<1>3. Ahead' = [d \in Openers |-> IF d = c THEN {} ELSE Ahead[d] \ {c}]
  <2>1. \A p \in InLine \ {c} : ticket'[p] = ticket[p]
    BY DEF InLine, SameEntry
  <2>2. c \notin InLine'
    BY <1>2
  <2> QED
    BY <1>2, <2>1, <2>2 DEF Ahead, InLine
<1>4. CASE c = HeldBy \/ c \in InLine
  BY <1>1, <1>2, <1>3, <1>4 DEF Fifo!Leave
<1>5. CASE ~(c = HeldBy \/ c \in InLine)
  <2>1. \A d \in Openers : (IF d = c THEN {} ELSE Ahead[d] \ {c}) = Ahead[d]
    BY <1>5 DEF Ahead
  <2>2. Ahead = [d \in Openers |-> Ahead[d]]
    BY DEF Ahead
  <2>3. Ahead' = Ahead
    BY <1>3, <2>1, <2>2
  <2> QED
    BY <1>1, <1>2, <1>5, <2>3
<1> QED
  BY <1>4, <1>5

\* One pass of launch-acquire by a live opener: it enters, arrives or goes on waiting.
LEMMA LaunchPollRefines ==
  ASSUME OpenerInv, TypeOK', NEW p \in Openers, LaunchPoll(p)
  PROVE  Fifo!FifoNext \/ UNCHANGED <<HeldBy, InLine, Ahead>>
<1> USE OpenerAssumption DEF OpenerInv, TypeOK
<1>1. Live(p) /\ \A q \in Openers : Live(q)' <=> Live(q)
  BY DEF LaunchPoll, Goto, Live
<1>2. /\ ticket' = [q \in Openers |-> Entry(p, q)]
      /\ owner' = IF MayLaunch(p) THEN p ELSE HeldBy
  BY DEF LaunchPoll, AcquireLaunch
<1>3. \A q \in Openers \ {p} : Live(q) => ticket'[q] = ticket[q]
  BY <1>2 DEF Entry, Kept
<1>4. \A q \in Openers \ {p} : ~Live(q) => ticket'[q] = 0
  BY <1>2 DEF Entry, Kept
<1>5. CASE ~Enlists(p) /\ (HeldBy = p \/ ~MayLaunch(p))
  <2>1. ticket'[p] = ticket[p] /\ owner' = HeldBy
    BY <1>1, <1>2, <1>5 DEF Entry, Kept
  <2>2. \A q \in Openers : SameEntry(q)
    BY <1>1, <1>3, <1>4, <2>1 DEF SameEntry, HeldBy, IsLive
  <2> QED
    BY <2>2, SameEntriesStutter
<1>6. CASE Enlists(p) /\ ~MayLaunch(p)
  <2>1. ticket'[p] = nextSequence /\ owner' = HeldBy /\ HeldBy # p /\ ticket[p] = 0
    BY <1>1, <1>2, <1>6 DEF Entry, Enlists, Kept
  <2>2. HeldBy' = HeldBy
    BY <1>1, <2>1 DEF HeldBy, IsLive
  <2>3. p \notin InLine /\ InLine' = InLine \cup {p}
    <3>1. \A q \in Openers \ {p} : q \in InLine' <=> q \in InLine
      BY <1>1, <1>3, <2>1 DEF InLine, HeldBy, IsLive
    <3>2. p \in InLine' /\ p \notin InLine
      BY <1>1, <2>1 DEF InLine
    <3> QED
      BY <3>1, <3>2 DEF InLine
  <2>4. \A q \in InLine : q # p /\ ticket'[q] = ticket[q] /\ ticket[q] < nextSequence
    BY <1>3, <2>3 DEF InLine, QueueFileValid
  <2>5. Ahead' = [Ahead EXCEPT ![p] = InLine]
    <3>1. {q \in InLine' : ticket'[q] < ticket'[p]} = InLine
      BY <2>1, <2>3, <2>4 DEF InLine
    <3>2. \A d \in InLine : {q \in InLine' : ticket'[q] < ticket'[d]}
                            = {q \in InLine : ticket[q] < ticket[d]}
      BY <2>1, <2>3, <2>4 DEF InLine
    <3> QED
      BY <2>3, <3>1, <3>2 DEF Ahead
  <2>6. Fifo!Arrive(p)
    BY <2>1, <2>2, <2>3, <2>5 DEF Fifo!Arrive
  <2> QED
    BY <2>6 DEF Fifo!FifoNext
<1>7. CASE MayLaunch(p) /\ HeldBy # p
  <2>1. /\ HeldBy = None /\ owner' = p
        /\ \A q \in Openers : Entry(p, q) > 0 => Entry(p, p) <= Entry(p, q)
    BY <1>2, <1>7 DEF MayLaunch
  <2>2. HeldBy' = p
    BY <1>1, <2>1 DEF HeldBy, IsLive
  <2>3. owner # p
    BY <1>1, <2>1 DEF HeldBy, IsLive
  <2>4. InLine' = InLine \ {p}
    BY <1>1, <1>3, <2>1 DEF InLine, HeldBy, IsLive
  <2>5. Ahead' = [d \in Openers |-> Ahead[d] \ {p}]
    <3>1. \A q \in InLine \ {p} : ticket'[q] = ticket[q]
      BY <1>3 DEF InLine
    <3>2. \A q \in InLine : Entry(p, p) <= ticket[q]
      BY <1>1, <1>2, <1>3, <2>1, <2>3 DEF InLine, Entry, Enlists, Kept
    <3>3. p \in InLine => \A q \in InLine : ticket[p] <= ticket[q]
      BY <1>1, <3>2 DEF InLine, Entry, Enlists, Kept
    <3>4. Ahead[p] = {}
      BY <3>3 DEF Ahead, InLine
    <3> QED
      BY <2>4, <3>1, <3>4 DEF Ahead, InLine
  <2>6. p \in InLine => Ahead[p] = {}
    <3>1. p \in InLine => \A q \in InLine : Entry(p, p) = ticket[p] /\ Entry(p, q) = ticket[q]
      BY <1>1 DEF InLine, Entry, Enlists, Kept
    <3> QED
      BY <2>1, <3>1 DEF Ahead, InLine
  <2>7. p \notin InLine => InLine = {}
    <3>1. p \notin InLine => Entry(p, p) = nextSequence
      BY <1>1, <2>1, <2>3 DEF InLine, Entry, Enlists, Kept
    <3>2. \A q \in InLine : q # p => Entry(p, q) = ticket[q] /\ ticket[q] < nextSequence
      BY DEF InLine, Entry, Kept, QueueFileValid
    <3> QED
      BY <2>1, <3>1, <3>2 DEF InLine
  <2>8. Fifo!Enter(p)
    BY <2>1, <2>2, <2>4, <2>5, <2>6, <2>7 DEF Fifo!Enter
  <2> QED
    BY <2>8 DEF Fifo!FifoNext
<1> QED
  BY <1>5, <1>6, <1>7 DEF Enlists

\* Every step is one of the lock, or does not show.
LEMMA StepRefines ==
  ASSUME OpenerInv, OpenerInv', [Next]_vars
  PROVE  Fifo!FifoNext \/ UNCHANGED <<HeldBy, InLine, Ahead>>
<1> USE OpenerAssumption DEF OpenerInv
<1>1. TypeOK /\ TypeOK'
  OBVIOUS
<1>2. ASSUME NEW c \in Openers,
             \A p \in Openers \ {c} : SameEntry(p),
             ~(Live(c) /\ (ticket[c] > 0 \/ owner = c))'
      PROVE  Fifo!FifoNext \/ UNCHANGED <<HeldBy, InLine, Ahead>>
  BY <1>1, <1>2, LostEntryLeaves DEF Fifo!FifoNext
<1>3. ASSUME UNCHANGED <<owner, ticket>>,
             \A p \in Openers : ticket[p] > 0 \/ owner = p => (Live(p)' <=> Live(p))
      PROVE  UNCHANGED <<HeldBy, InLine, Ahead>>
  <2>1. \A p \in Openers : SameEntry(p)
    BY <1>3 DEF SameEntry
  <2> QED
    BY <1>1, <2>1, SameEntriesStutter
<1>4. ASSUME NEW p \in Openers, NEW from \in Stages \ {"done"}, NEW result,
             Finish(p, from, result), UNCHANGED <<owner, ticket>>
      PROVE  UNCHANGED <<HeldBy, InLine, Ahead>>
  <2>1. from \in Uncoordinated => ticket[p] = 0 /\ owner # p
    BY <1>4 DEF NoStrayEntries, Finish, Goto, Uncoordinated, QueueStages, Launching
  <2>2. \A q \in Openers : ticket[q] > 0 \/ owner = q => (Live(q)' <=> Live(q))
    BY <1>4, <2>1 DEF Finish, Goto, Live, TypeOK
  <2> QED
    BY <1>3, <1>4, <2>2
<1>5. ASSUME NEW p \in Openers, NEW from \in Stages \ {"done"}, NEW to \in Stages \ {"done"},
             Goto(p, from, to), UNCHANGED <<owner, ticket>>
      PROVE  UNCHANGED <<HeldBy, InLine, Ahead>>
  <2>1. \A q \in Openers : Live(q)' <=> Live(q)
    BY <1>5 DEF Goto, Live, TypeOK
  <2> QED
    BY <1>3, <1>5, <2>1
<1> USE DEF Stages, Uncoordinated, Coordinated, Launching, scriptOnly, queueVars, requests
<1>6. ASSUME NEW p \in Openers, Script(p)
      PROVE  Fifo!FifoNext \/ UNCHANGED <<HeldBy, InLine, Ahead>>
  <2>1. CASE Start(p) \/ RecheckOperation(p) \/ RecheckLaunch(p) \/ RecheckTrust(p)
    BY <1>4, <1>5, <2>1
       DEF Start, RecheckOperation, RecheckLaunch, RecheckTrust, AlreadyReady, NotReady
  <2>2. CASE MigrateExists(p) \/ MigrateList(p) \/ MigrateRead(p) \/ MigrateWait(p)
    BY <1>4, <1>5, <2>2 DEF MigrateExists, MigrateList, MigrateRead, MigrateWait
  <2>3. CASE MigrateUnlink(p) \/ MigrateRmdir(p)
    BY <1>4, <1>5, <2>3 DEF MigrateUnlink, MigrateRmdir
  <2>4. CASE OperationPoll(p) \/ OperationActive(p)
    BY <1>5, <2>4 DEF OperationPoll, OperationActive
  <2>5. CASE LaunchPoll(p)
    BY <1>1, <2>5, LaunchPollRefines
  <2>6. CASE Trust(p) \/ Open(p) \/ Await(p) \/ Register(p)
    BY <1>4, <1>5, <2>6 DEF Trust, Open, Await, Register
  <2>7. CASE ReleaseLaunch(p) /\ \E from, to \in Stages \ {"done"} : Goto(p, from, to)
    <3>1. \A q \in Openers \ {p} : SameEntry(q)
      BY <2>7 DEF ReleaseLaunch, SameEntry, Goto, Live, TypeOK
    <3>2. ~(Live(p) /\ (ticket[p] > 0 \/ owner = p))'
      BY <2>7 DEF ReleaseLaunch, TypeOK
    <3> QED
      BY <1>2, <3>1, <3>2
  <2>8. CASE LeaveQueue(p)
    BY <1>4, <1>5, <2>7, <2>8 DEF LeaveQueue
  <2>9. CASE Goto(p, "cleanLaunch", "done") /\ UNCHANGED <<owner, ticket>>
    <3>1. ~Live(p)' /\ \A q \in Openers \ {p} : SameEntry(q)
      BY <2>9 DEF Goto, SameEntry, Live, TypeOK
    <3> QED
      BY <1>2, <3>1
  <2>10. CASE CleanLaunch(p)
    BY <2>7, <2>9, <2>10 DEF CleanLaunch
  <2>11. CASE CleanOperation(p)
    <3>1. ticket[p] = 0 /\ owner # p
      BY <2>11 DEF CleanOperation, Goto, NoStrayEntries, QueueStages
    <3>2. \A q \in Openers : ticket[q] > 0 \/ owner = q => (Live(q)' <=> Live(q))
      BY <2>11, <3>1 DEF CleanOperation, Goto, Live, TypeOK
    <3> QED
      BY <1>3, <2>11, <3>2 DEF CleanOperation
  <2> QED
    BY <1>6, <2>1, <2>2, <2>3, <2>4, <2>5, <2>6, <2>8, <2>10, <2>11
       DEF Script, Migrate, Coordinate, LaunchSteps, FinishSteps
<1>7. ASSUME NEW p \in Openers, Deadline(p) \/ ReadinessDeadline(p) \/ ProbeFails(p)
      PROVE  UNCHANGED <<HeldBy, InLine, Ahead>>
  BY <1>4, <1>7 DEF Deadline, ReadinessDeadline, ProbeFails
<1>8. ASSUME NEW p \in Openers, Interrupt(p)
      PROVE  UNCHANGED <<HeldBy, InLine, Ahead>>
  <2>1. pc[p] \in Uncoordinated \cup {"operationGranted"} => ticket[p] = 0 /\ owner # p
    BY <1>8 DEF NoStrayEntries, QueueStages
  <2>2. \A q \in Openers : ticket[q] > 0 \/ owner = q => (Live(q)' <=> Live(q))
    BY <1>8, <2>1 DEF Interrupt, Live, TypeOK
  <2> QED
    BY <1>3, <1>8, <2>2 DEF Interrupt
<1>9. ASSUME NEW p \in Openers, Kill(p)
      PROVE  Fifo!FifoNext \/ UNCHANGED <<HeldBy, InLine, Ahead>>
  <2>1. ~Live(p)' /\ \A q \in Openers \ {p} : SameEntry(q)
    BY <1>9 DEF Kill, SameEntry, Live, TypeOK
  <2> QED
    BY <1>2, <2>1
<1>10. ASSUME NEW p \in Openers, OrphanPoll(p)
       PROVE  UNCHANGED <<HeldBy, InLine, Ahead>>
  <2>1. ~Live(p) /\ pc' = pc
    BY <1>10 DEF OrphanPoll, OrphansAreKilled, Live
  <2>2. CASE UNCHANGED <<owner, ticket>>
    BY <1>3, <2>1, <2>2 DEF Live
  <2>3. CASE AcquireLaunch(p)
    <3>1. \A q \in Openers : Live(q) => ticket'[q] = ticket[q]
      BY <2>1, <2>3 DEF AcquireLaunch, Entry, Kept
    <3>2. owner' = HeldBy \/ (owner' = p /\ HeldBy = None)
      <4>1. HeldBy # p
        BY <2>1 DEF HeldBy, IsLive
      <4>2. MayLaunch(p) => HeldBy = None
        BY <4>1 DEF MayLaunch
      <4> QED
        BY <2>3, <4>2 DEF AcquireLaunch
    <3>3. \A q \in Openers : SameEntry(q)
      BY <2>1, <3>1, <3>2 DEF SameEntry, Live, HeldBy, IsLive, TypeOK
    <3> QED
      BY <1>1, <3>3, SameEntriesStutter
  <2> QED
    BY <1>10, <2>2, <2>3 DEF OrphanPoll
<1>11. CASE \E p \in Openers : OrphanEnds(p)
  BY <1>3, <1>11 DEF OrphanEnds, Live
<1>12. CASE Environment
  BY <1>3, <1>12 DEF Environment, LegacyOwnerExits, BecomesReady, UserOpens, WindowCloses, Live
<1>13. CASE UNCHANGED vars
  BY <1>3, <1>13 DEF vars, Live
<1> QED
  BY <1>6, <1>7, <1>8, <1>9, <1>10, <1>11, <1>12, <1>13 DEF Next, Disturb, Terminated

\* The launch queue is a first-come first-served lock among live openers, for
\* any number of them, whatever is killed and whatever orphans do.
THEOREM QueueIsFifoLock == Spec => ImplementsFifoLock
<1>1. Init => Fifo!FifoInit
  BY OpenerAssumption DEF Init, Fifo!FifoInit, HeldBy, IsLive, InLine, Ahead
<1>2. OpenerInv /\ OpenerInv' /\ [Next]_vars => [Fifo!FifoNext]_(Fifo!lockVars)
  BY StepRefines DEF Fifo!lockVars
<1> QED
  BY <1>1, <1>2, Invariance, PTL DEF Spec, ImplementsFifoLock, Fifo!FifoSpec
=============================================================================
