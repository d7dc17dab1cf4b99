---------------------------- MODULE BridgeProofs ----------------------------
(***************************************************************************)
(* BridgeRecovery for every number of doctors, tasks and incidents: one    *)
(* restart per incident, attended until it is concluded, resumed only in   *)
(* another app, and automatic only after a successful trial.               *)
(*                                                                         *)
(* What makes this inductive: a prepared incident has at most one process  *)
(* at work on it, which has not yet asked the app to quit, or has asked    *)
(* once; its checkpoint names the app that ran before; and whoever has     *)
(* passed the policy without --dogfood has a successful trial behind it.   *)
(***************************************************************************)
EXTENDS BridgeRecovery, TLAPS

\* A doctor, or its relauncher, that has an incident in hand.
OnIncident ==
  {"attest", "validate", "policy", "identify", "prepare", "checkpoint", "launch",
   "block", "resume", "conclude"}
Attends(d) == pc[d] \in {"checkpoint", "launch", "block"} \/ relauncher[d] # "none"

\* Who is about an incident knows which; a relauncher outlives the command; and
\* who is about to open an incident has repaired nothing.
WorkIsValid ==
  \A d \in Doctors :
    /\ pc[d] \in OnIncident \/ relauncher[d] # "none" => incident[d] \in Incidents
    /\ relauncher[d] # "none" => pc[d] \in {"exit", "idle"}
    /\ pc[d] = "create" => d \notin repaired

\* At most one attends to an incident, and while it does the incident is prepared.
AttendanceIsValid ==
  /\ \A d \in Doctors : Attends(d) => state[incident[d]] = "restart-prepared"
  /\ \A d, e \in Doctors :
       Attends(d) /\ Attends(e) /\ incident[d] = incident[e] => d = e

\* Up to its quit nobody has asked for one.
BudgetIsKept ==
  /\ \A i \in Incidents :
       /\ restarts[i] \in {0, 1}
       /\ state[i] \in {"none", "restart-eligible"} => restarts[i] = 0
  /\ \A d \in Doctors :
       \/ pc[d] \in {"checkpoint", "launch"}
       \/ relauncher[d] \in {"wait", "identify", "quit"}
       => restarts[incident[d]] = 0

\* The checkpoint of a launched restart names an app; a relauncher that has seen
\* another one knows that it was started later.
CheckpointIsValid ==
  \A d \in Doctors :
    /\ pc[d] \in {"prepare", "checkpoint"} => identity[d] # 0
    /\ pc[d] = "launch" \/ relauncher[d] # "none" => checkpoint[incident[d]] # 0
    /\ relauncher[d] \in {"thread", "commit"} => checkpoint[incident[d]] # started

\* Who goes on without --dogfood has a trial behind it.
Earned == \E j \in Incidents : Proven(j)
TrialIsValid ==
  /\ automatic => Earned
  /\ \A d \in Doctors :
       /\ pc[d] = "enable" => Earned
       /\ pc[d] \in {"identify", "prepare"} /\ d \notin trial => Earned
  /\ \A i \in Incidents \ dogfood :
       state[i] \in {"restart-prepared", "resume-pending", "closed-healthy",
                     "closed-fresh-task-required"} => Earned

BInv ==
  /\ TypeOK
  /\ WorkIsValid
  /\ AttendanceIsValid
  /\ BudgetIsKept
  /\ CheckpointIsValid
  /\ ResumedAfterRelaunch
  /\ PreparedIsAttended
  /\ TrialIsValid

LEMMA BridgeInitInv == Init => BInv
<1> SUFFICES ASSUME Init PROVE BInv
  OBVIOUS
<1>1. TypeOK
  <2>1. state \in [Incidents -> IncidentStates] /\ pc \in [Doctors -> Stages]
        /\ relauncher \in [Doctors -> RelaunchStages]
    BY DEF Init, IncidentStates, Stages, RelaunchStages
  <2>2. /\ scope \in [Incidents -> Tasks \cup {None}]
        /\ task \in [Doctors -> Tasks \cup {None}]
        /\ incident \in [Doctors -> Incidents \cup {None}]
        /\ attested \in [Incidents -> {"none", "fresh", "expired"}]
        /\ heartbeat \in [Incidents -> {"none", "scheduled", "fired"}]
    BY DEF Init
  <2>3. /\ checkpoint \in [Incidents -> 0..started]
        /\ identity \in [Doctors -> 0..started]
        /\ restarts \in [Incidents -> Nat]
        /\ userQuits \in Nat /\ asked \in 0..started
    BY BridgeAssumption DEF Init
  <2>4. /\ dogfood \in SUBSET Incidents /\ killed \in SUBSET Incidents
        /\ repaired \in SUBSET Doctors /\ trial \in SUBSET Doctors
        /\ automatic \in BOOLEAN
    BY Zenon DEF Init
  <2>5. started \in Nat \ {0} /\ app \in {0, started}
    BY DEF Init
  <2> QED
    BY <2>1, <2>2, <2>3, <2>4, <2>5 DEF TypeOK
<1>2. WorkIsValid /\ AttendanceIsValid
  BY DEF Init, WorkIsValid, AttendanceIsValid, Attends, OnIncident
<1>3. BudgetIsKept /\ CheckpointIsValid
  BY DEF Init, BudgetIsKept, CheckpointIsValid
<1>4. ResumedAfterRelaunch /\ PreparedIsAttended /\ TrialIsValid
  BY DEF Init, ResumedAfterRelaunch, PreparedIsAttended, TrialIsValid
<1> QED
  BY <1>1, <1>2, <1>3, <1>4 DEF BInv

\* The steps of recover keep the invariant,
LEMMA DiagnoseInv ==
  ASSUME BInv, NEW d \in Doctors, Diagnose(d) PROVE BInv'
<1> USE BridgeAssumption DEF BInv, Goto, recordVars, fileVars, appVars, doctorVars,
     historyVars
<1>1. CASE InspectProject(d)
  <2>1. TypeOK'
    BY <1>1 DEF InspectProject, TypeOK, IncidentStates, Terminal, Stages,
       RelaunchStages
  <2>2. WorkIsValid'
    BY <1>1 DEF InspectProject, TypeOK, WorkIsValid, OnIncident
  <2>3. AttendanceIsValid'
    BY <1>1 DEF InspectProject, TypeOK, WorkIsValid, AttendanceIsValid, OnIncident,
       Attends
  <2>4. BudgetIsKept'
    BY <1>1 DEF InspectProject, TypeOK, WorkIsValid, AttendanceIsValid,
       BudgetIsKept, OnIncident, Attends
  <2>5. CheckpointIsValid'
    BY <1>1 DEF InspectProject, TypeOK, WorkIsValid, AttendanceIsValid,
       CheckpointIsValid, OnIncident, Attends
  <2>6. ResumedAfterRelaunch'
    BY <1>1 DEF InspectProject, TypeOK, WorkIsValid, AttendanceIsValid,
       CheckpointIsValid, ResumedAfterRelaunch, OnIncident, Attends
  <2>7. PreparedIsAttended'
    BY <1>1 DEF InspectProject, TypeOK, WorkIsValid, AttendanceIsValid,
       PreparedIsAttended, OnIncident, Attends
  <2>8. TrialIsValid'
    BY <1>1 DEF InspectProject, TypeOK, TrialIsValid, Earned, Proven
  <2> QED
    BY <2>1, <2>2, <2>3, <2>4, <2>5, <2>6, <2>7, <2>8
<1>2. CASE RecoverProject(d)
  <2>1. TypeOK'
    BY <1>2 DEF RecoverProject, End, TypeOK, IncidentStates, Terminal, Stages,
       RelaunchStages
  <2>2. WorkIsValid'
    BY <1>2 DEF RecoverProject, End, TypeOK, WorkIsValid, OnIncident
  <2>3. AttendanceIsValid'
    BY <1>2 DEF RecoverProject, End, TypeOK, WorkIsValid, AttendanceIsValid,
       OnIncident, Attends
  <2>4. BudgetIsKept'
    BY <1>2 DEF RecoverProject, End, TypeOK, WorkIsValid, AttendanceIsValid,
       BudgetIsKept, OnIncident, Attends
  <2>5. CheckpointIsValid'
    BY <1>2 DEF RecoverProject, End, TypeOK, WorkIsValid, AttendanceIsValid,
       CheckpointIsValid, OnIncident, Attends
  <2>6. ResumedAfterRelaunch'
    BY <1>2 DEF RecoverProject, End, TypeOK, WorkIsValid, AttendanceIsValid,
       CheckpointIsValid, ResumedAfterRelaunch, OnIncident, Attends
  <2>7. PreparedIsAttended'
    BY <1>2 DEF RecoverProject, End, TypeOK, WorkIsValid, AttendanceIsValid,
       PreparedIsAttended, OnIncident, Attends
  <2>8. TrialIsValid'
    BY <1>2 DEF RecoverProject, End, TypeOK, TrialIsValid, Earned, Proven
  <2> QED
    BY <2>1, <2>2, <2>3, <2>4, <2>5, <2>6, <2>7, <2>8
<1>3. CASE Probe(d)
  <2>1. TypeOK'
    BY <1>3 DEF Probe, Cured, End, TypeOK, IncidentStates, Terminal, Stages,
       RelaunchStages
  <2>2. WorkIsValid'
    BY <1>3 DEF Probe, Cured, End, TypeOK, WorkIsValid, OnIncident
  <2>3. AttendanceIsValid'
    BY <1>3 DEF Probe, Cured, End, TypeOK, WorkIsValid, AttendanceIsValid,
       OnIncident, Attends
  <2>4. BudgetIsKept'
    BY <1>3 DEF Probe, Cured, End, TypeOK, WorkIsValid, AttendanceIsValid,
       BudgetIsKept, OnIncident, Attends
  <2>5. CheckpointIsValid'
    BY <1>3 DEF Probe, Cured, End, TypeOK, WorkIsValid, AttendanceIsValid,
       CheckpointIsValid, OnIncident, Attends
  <2>6. ResumedAfterRelaunch'
    BY <1>3 DEF Probe, Cured, End, TypeOK, WorkIsValid, AttendanceIsValid,
       CheckpointIsValid, ResumedAfterRelaunch, OnIncident, Attends
  <2>7. PreparedIsAttended'
    BY <1>3 DEF Probe, Cured, End, TypeOK, WorkIsValid, AttendanceIsValid,
       PreparedIsAttended, OnIncident, Attends
  <2>8. TrialIsValid'
    BY <1>3 DEF Probe, Cured, End, TypeOK, TrialIsValid, Earned, Proven
  <2> QED
    BY <2>1, <2>2, <2>3, <2>4, <2>5, <2>6, <2>7, <2>8
<1>4. CASE Repair(d)
  <2>1. TypeOK'
    BY <1>4 DEF Repair, End, TypeOK, IncidentStates, Terminal, Stages,
       RelaunchStages
  <2>2. WorkIsValid'
    BY <1>4 DEF Repair, End, TypeOK, WorkIsValid, OnIncident
  <2>3. AttendanceIsValid'
    BY <1>4 DEF Repair, End, TypeOK, WorkIsValid, AttendanceIsValid, OnIncident,
       Attends
  <2>4. BudgetIsKept'
    BY <1>4 DEF Repair, End, TypeOK, WorkIsValid, AttendanceIsValid, BudgetIsKept,
       OnIncident, Attends
  <2>5. CheckpointIsValid'
    BY <1>4 DEF Repair, End, TypeOK, WorkIsValid, AttendanceIsValid,
       CheckpointIsValid, OnIncident, Attends
  <2>6. ResumedAfterRelaunch'
    BY <1>4 DEF Repair, End, TypeOK, WorkIsValid, AttendanceIsValid,
       CheckpointIsValid, ResumedAfterRelaunch, OnIncident, Attends
  <2>7. PreparedIsAttended'
    BY <1>4 DEF Repair, End, TypeOK, WorkIsValid, AttendanceIsValid,
       PreparedIsAttended, OnIncident, Attends
  <2>8. TrialIsValid'
    BY <1>4 DEF Repair, End, TypeOK, TrialIsValid, Earned, Proven
  <2> QED
    BY <2>1, <2>2, <2>3, <2>4, <2>5, <2>6, <2>7, <2>8
<1>5. CASE Reprobe(d)
  <2>1. TypeOK'
    BY <1>5 DEF Reprobe, End, TypeOK, IncidentStates, Terminal, Stages,
       RelaunchStages
  <2>2. WorkIsValid'
    BY <1>5 DEF Reprobe, End, TypeOK, WorkIsValid, OnIncident
  <2>3. AttendanceIsValid'
    BY <1>5 DEF Reprobe, End, TypeOK, WorkIsValid, AttendanceIsValid, OnIncident,
       Attends
  <2>4. BudgetIsKept'
    BY <1>5 DEF Reprobe, End, TypeOK, WorkIsValid, AttendanceIsValid, BudgetIsKept,
       OnIncident, Attends
  <2>5. CheckpointIsValid'
    BY <1>5 DEF Reprobe, End, TypeOK, WorkIsValid, AttendanceIsValid,
       CheckpointIsValid, OnIncident, Attends
  <2>6. ResumedAfterRelaunch'
    BY <1>5 DEF Reprobe, End, TypeOK, WorkIsValid, AttendanceIsValid,
       CheckpointIsValid, ResumedAfterRelaunch, OnIncident, Attends
  <2>7. PreparedIsAttended'
    BY <1>5 DEF Reprobe, End, TypeOK, WorkIsValid, AttendanceIsValid,
       PreparedIsAttended, OnIncident, Attends
  <2>8. TrialIsValid'
    BY <1>5 DEF Reprobe, End, TypeOK, TrialIsValid, Earned, Proven
  <2> QED
    BY <2>1, <2>2, <2>3, <2>4, <2>5, <2>6, <2>7, <2>8
<1>6. CASE CreateOrReuse(d)
  <2>1. TypeOK'
    BY <1>6 DEF CreateOrReuse, Eligible, Becomes, End, TypeOK, IncidentStates,
       Terminal, Stages, RelaunchStages
  <2>2. WorkIsValid'
    BY <1>6 DEF CreateOrReuse, Eligible, Becomes, End, TypeOK, WorkIsValid,
       OnIncident
  <2>3. AttendanceIsValid'
    BY <1>6 DEF CreateOrReuse, Eligible, Becomes, End, TypeOK, WorkIsValid,
       AttendanceIsValid, OnIncident, Attends
  <2>4. BudgetIsKept'
    BY <1>6 DEF CreateOrReuse, Eligible, Becomes, End, TypeOK, WorkIsValid,
       AttendanceIsValid, BudgetIsKept, OnIncident, Attends
  <2>5. CheckpointIsValid'
    BY <1>6 DEF CreateOrReuse, Eligible, Becomes, End, TypeOK, WorkIsValid,
       AttendanceIsValid, CheckpointIsValid, OnIncident, Attends
  <2>6. ResumedAfterRelaunch'
    BY <1>6 DEF CreateOrReuse, Eligible, Becomes, End, TypeOK, WorkIsValid,
       AttendanceIsValid, CheckpointIsValid, ResumedAfterRelaunch, OnIncident,
       Attends
  <2>7. PreparedIsAttended'
    BY <1>6 DEF CreateOrReuse, Eligible, Becomes, End, TypeOK, WorkIsValid,
       AttendanceIsValid, PreparedIsAttended, OnIncident, Attends
  <2>8. TrialIsValid'
    BY <1>6 DEF CreateOrReuse, Eligible, Becomes, End, TypeOK, TrialIsValid,
       Earned, Proven
  <2> QED
    BY <2>1, <2>2, <2>3, <2>4, <2>5, <2>6, <2>7, <2>8
<1> QED
  BY <1>1, <1>2, <1>3, <1>4, <1>5, <1>6 DEF Diagnose

\* those of attest-restart and prepare-restart,
LEMMA GuardedRestartInv ==
  ASSUME BInv, NEW d \in Doctors, GuardedRestart(d) PROVE BInv'
<1> USE BridgeAssumption DEF BInv, Goto, recordVars, fileVars, appVars, doctorVars,
     historyVars
<1>1. CASE WriteAttestation(d)
  <2>1. TypeOK'
    BY <1>1 DEF WriteAttestation, End, TypeOK, IncidentStates, Terminal, Stages,
       RelaunchStages
  <2>2. WorkIsValid'
    BY <1>1 DEF WriteAttestation, End, TypeOK, WorkIsValid, OnIncident
  <2>3. AttendanceIsValid'
    BY <1>1 DEF WriteAttestation, End, TypeOK, WorkIsValid, AttendanceIsValid,
       OnIncident, Attends
  <2>4. BudgetIsKept'
    BY <1>1 DEF WriteAttestation, End, TypeOK, WorkIsValid, AttendanceIsValid,
       BudgetIsKept, OnIncident, Attends
  <2>5. CheckpointIsValid'
    BY <1>1 DEF WriteAttestation, End, TypeOK, WorkIsValid, AttendanceIsValid,
       CheckpointIsValid, OnIncident, Attends
  <2>6. ResumedAfterRelaunch'
    BY <1>1 DEF WriteAttestation, End, TypeOK, WorkIsValid, AttendanceIsValid,
       CheckpointIsValid, ResumedAfterRelaunch, OnIncident, Attends
  <2>7. PreparedIsAttended'
    BY <1>1 DEF WriteAttestation, End, TypeOK, WorkIsValid, AttendanceIsValid,
       PreparedIsAttended, OnIncident, Attends
  <2>8. TrialIsValid'
    BY <1>1 DEF WriteAttestation, End, TypeOK, TrialIsValid, Earned, Proven
  <2> QED
    BY <2>1, <2>2, <2>3, <2>4, <2>5, <2>6, <2>7, <2>8
<1>2. CASE ValidateAttestation(d)
  <2>1. TypeOK'
    BY <1>2 DEF ValidateAttestation, End, TypeOK, IncidentStates, Terminal, Stages,
       RelaunchStages
  <2>2. WorkIsValid'
    BY <1>2 DEF ValidateAttestation, End, TypeOK, WorkIsValid, OnIncident
  <2>3. AttendanceIsValid'
    BY <1>2 DEF ValidateAttestation, End, TypeOK, WorkIsValid, AttendanceIsValid,
       OnIncident, Attends
  <2>4. BudgetIsKept'
    BY <1>2 DEF ValidateAttestation, End, TypeOK, WorkIsValid, AttendanceIsValid,
       BudgetIsKept, OnIncident, Attends
  <2>5. CheckpointIsValid'
    BY <1>2 DEF ValidateAttestation, End, TypeOK, WorkIsValid, AttendanceIsValid,
       CheckpointIsValid, OnIncident, Attends
  <2>6. ResumedAfterRelaunch'
    BY <1>2 DEF ValidateAttestation, End, TypeOK, WorkIsValid, AttendanceIsValid,
       CheckpointIsValid, ResumedAfterRelaunch, OnIncident, Attends
  <2>7. PreparedIsAttended'
    BY <1>2 DEF ValidateAttestation, End, TypeOK, WorkIsValid, AttendanceIsValid,
       PreparedIsAttended, OnIncident, Attends
  <2>8. TrialIsValid'
    BY <1>2 DEF ValidateAttestation, End, TypeOK, TrialIsValid, Earned, Proven
  <2> QED
    BY <2>1, <2>2, <2>3, <2>4, <2>5, <2>6, <2>7, <2>8
<1>3. CASE CheckPolicy(d)
  <2>1. TypeOK'
    BY <1>3 DEF CheckPolicy, Allowed, End, TypeOK, IncidentStates, Terminal,
       Stages, RelaunchStages
  <2>2. WorkIsValid'
    BY <1>3 DEF CheckPolicy, Allowed, End, TypeOK, WorkIsValid, OnIncident
  <2>3. AttendanceIsValid'
    BY <1>3 DEF CheckPolicy, Allowed, End, TypeOK, WorkIsValid, AttendanceIsValid,
       OnIncident, Attends
  <2>4. BudgetIsKept'
    BY <1>3 DEF CheckPolicy, Allowed, End, TypeOK, WorkIsValid, AttendanceIsValid,
       BudgetIsKept, OnIncident, Attends
  <2>5. CheckpointIsValid'
    BY <1>3 DEF CheckPolicy, Allowed, End, TypeOK, WorkIsValid, AttendanceIsValid,
       CheckpointIsValid, OnIncident, Attends
  <2>6. ResumedAfterRelaunch'
    BY <1>3 DEF CheckPolicy, Allowed, End, TypeOK, WorkIsValid, AttendanceIsValid,
       CheckpointIsValid, ResumedAfterRelaunch, OnIncident, Attends
  <2>7. PreparedIsAttended'
    BY <1>3 DEF CheckPolicy, Allowed, End, TypeOK, WorkIsValid, AttendanceIsValid,
       PreparedIsAttended, OnIncident, Attends
  <2>8. TrialIsValid'
    BY <1>3 DEF CheckPolicy, Allowed, End, TypeOK, TrialIsValid, Earned, Proven
  <2> QED
    BY <2>1, <2>2, <2>3, <2>4, <2>5, <2>6, <2>7, <2>8
<1>4. CASE Identify(d)
  <2>1. TypeOK'
    BY <1>4 DEF Identify, End, TypeOK, IncidentStates, Terminal, Stages,
       RelaunchStages
  <2>2. WorkIsValid'
    BY <1>4 DEF Identify, End, TypeOK, WorkIsValid, OnIncident
  <2>3. AttendanceIsValid'
    BY <1>4 DEF Identify, End, TypeOK, WorkIsValid, AttendanceIsValid, OnIncident,
       Attends
  <2>4. BudgetIsKept'
    BY <1>4 DEF Identify, End, TypeOK, WorkIsValid, AttendanceIsValid,
       BudgetIsKept, OnIncident, Attends
  <2>5. CheckpointIsValid'
    BY <1>4 DEF Identify, End, TypeOK, WorkIsValid, AttendanceIsValid,
       CheckpointIsValid, OnIncident, Attends
  <2>6. ResumedAfterRelaunch'
    BY <1>4 DEF Identify, End, TypeOK, WorkIsValid, AttendanceIsValid,
       CheckpointIsValid, ResumedAfterRelaunch, OnIncident, Attends
  <2>7. PreparedIsAttended'
    BY <1>4 DEF Identify, End, TypeOK, WorkIsValid, AttendanceIsValid,
       PreparedIsAttended, OnIncident, Attends
  <2>8. TrialIsValid'
    BY <1>4 DEF Identify, End, TypeOK, TrialIsValid, Earned, Proven
  <2> QED
    BY <2>1, <2>2, <2>3, <2>4, <2>5, <2>6, <2>7, <2>8
<1>5. CASE PrepareIncident(d)
  <2>1. TypeOK'
    BY <1>5 DEF PrepareIncident, MayPrepare, InState, Becomes, End, TypeOK,
       IncidentStates, Terminal, Stages, RelaunchStages, WorkIsValid, OnIncident
  <2>2. WorkIsValid'
    BY <1>5 DEF PrepareIncident, MayPrepare, InState, Becomes, End, TypeOK,
       WorkIsValid, OnIncident
  <2>3. AttendanceIsValid'
    BY <1>5 DEF PrepareIncident, MayPrepare, InState, Becomes, End, TypeOK,
       WorkIsValid, AttendanceIsValid, OnIncident, Attends
  <2>4. BudgetIsKept'
    BY <1>5 DEF PrepareIncident, MayPrepare, InState, Becomes, End, TypeOK,
       WorkIsValid, AttendanceIsValid, BudgetIsKept, OnIncident, Attends
  <2>5. CheckpointIsValid'
    BY <1>5 DEF PrepareIncident, MayPrepare, InState, Becomes, End, TypeOK,
       WorkIsValid, AttendanceIsValid, CheckpointIsValid, OnIncident, Attends
  <2>6. ResumedAfterRelaunch'
    BY <1>5 DEF PrepareIncident, MayPrepare, InState, Becomes, End, TypeOK,
       WorkIsValid, AttendanceIsValid, CheckpointIsValid, ResumedAfterRelaunch,
       OnIncident, Attends
  <2>7. PreparedIsAttended'
    BY <1>5 DEF PrepareIncident, MayPrepare, InState, Becomes, End, TypeOK,
       WorkIsValid, AttendanceIsValid, PreparedIsAttended, OnIncident, Attends
  <2>8. TrialIsValid'
    BY <1>5 DEF PrepareIncident, MayPrepare, InState, Becomes, End, TypeOK,
       TrialIsValid, Earned, Proven
  <2> QED
    BY <2>1, <2>2, <2>3, <2>4, <2>5, <2>6, <2>7, <2>8
<1>6. CASE WriteCheckpoint(d)
  <2>1. TypeOK'
    BY <1>6 DEF WriteCheckpoint, OnFailure, TypeOK, IncidentStates, Terminal,
       Stages, RelaunchStages
  <2>2. WorkIsValid'
    BY <1>6 DEF WriteCheckpoint, OnFailure, TypeOK, WorkIsValid, OnIncident
  <2>3. AttendanceIsValid'
    BY <1>6 DEF WriteCheckpoint, OnFailure, TypeOK, WorkIsValid, AttendanceIsValid,
       OnIncident, Attends
  <2>4. BudgetIsKept'
    BY <1>6 DEF WriteCheckpoint, OnFailure, TypeOK, WorkIsValid, AttendanceIsValid,
       BudgetIsKept, OnIncident, Attends
  <2>5. CheckpointIsValid'
    BY <1>6 DEF WriteCheckpoint, OnFailure, TypeOK, WorkIsValid, AttendanceIsValid,
       CheckpointIsValid, OnIncident, Attends
  <2>6. ResumedAfterRelaunch'
    BY <1>6 DEF WriteCheckpoint, OnFailure, TypeOK, WorkIsValid, AttendanceIsValid,
       CheckpointIsValid, ResumedAfterRelaunch, OnIncident, Attends
  <2>7. PreparedIsAttended'
    BY <1>6 DEF WriteCheckpoint, OnFailure, TypeOK, WorkIsValid, AttendanceIsValid,
       PreparedIsAttended, OnIncident, Attends
  <2>8. TrialIsValid'
    BY <1>6 DEF WriteCheckpoint, OnFailure, TypeOK, TrialIsValid, Earned, Proven
  <2> QED
    BY <2>1, <2>2, <2>3, <2>4, <2>5, <2>6, <2>7, <2>8
<1>7. CASE LaunchRelauncher(d)
  <2>1. TypeOK'
    BY <1>7 DEF LaunchRelauncher, OnFailure, TypeOK, IncidentStates, Terminal,
       Stages, RelaunchStages
  <2>2. WorkIsValid'
    BY <1>7 DEF LaunchRelauncher, OnFailure, TypeOK, WorkIsValid, OnIncident
  <2>3. AttendanceIsValid'
    BY <1>7 DEF LaunchRelauncher, OnFailure, TypeOK, WorkIsValid,
       AttendanceIsValid, OnIncident, Attends
  <2>4. BudgetIsKept'
    BY <1>7 DEF LaunchRelauncher, OnFailure, TypeOK, WorkIsValid,
       AttendanceIsValid, BudgetIsKept, OnIncident, Attends
  <2>5. CheckpointIsValid'
    BY <1>7 DEF LaunchRelauncher, OnFailure, TypeOK, WorkIsValid,
       AttendanceIsValid, CheckpointIsValid, OnIncident, Attends
  <2>6. ResumedAfterRelaunch'
    BY <1>7 DEF LaunchRelauncher, OnFailure, TypeOK, WorkIsValid,
       AttendanceIsValid, CheckpointIsValid, ResumedAfterRelaunch, OnIncident,
       Attends
  <2>7. PreparedIsAttended'
    BY <1>7 DEF LaunchRelauncher, OnFailure, TypeOK, WorkIsValid,
       AttendanceIsValid, PreparedIsAttended, OnIncident, Attends
  <2>8. TrialIsValid'
    BY <1>7 DEF LaunchRelauncher, OnFailure, TypeOK, TrialIsValid, Earned, Proven
  <2> QED
    BY <2>1, <2>2, <2>3, <2>4, <2>5, <2>6, <2>7, <2>8
<1>8. CASE BlockIncident(d)
  <2>1. TypeOK'
    BY <1>8 DEF BlockIncident, InState, Becomes, End, TypeOK, IncidentStates,
       Terminal, Stages, RelaunchStages
  <2>2. WorkIsValid'
    BY <1>8 DEF BlockIncident, InState, Becomes, End, TypeOK, WorkIsValid,
       OnIncident
  <2>3. AttendanceIsValid'
    BY <1>8 DEF BlockIncident, InState, Becomes, End, TypeOK, WorkIsValid,
       AttendanceIsValid, OnIncident, Attends
  <2>4. BudgetIsKept'
    BY <1>8 DEF BlockIncident, InState, Becomes, End, TypeOK, WorkIsValid,
       AttendanceIsValid, BudgetIsKept, OnIncident, Attends
  <2>5. CheckpointIsValid'
    BY <1>8 DEF BlockIncident, InState, Becomes, End, TypeOK, WorkIsValid,
       AttendanceIsValid, CheckpointIsValid, OnIncident, Attends
  <2>6. ResumedAfterRelaunch'
    BY <1>8 DEF BlockIncident, InState, Becomes, End, TypeOK, WorkIsValid,
       AttendanceIsValid, CheckpointIsValid, ResumedAfterRelaunch, OnIncident,
       Attends
  <2>7. PreparedIsAttended'
    BY <1>8 DEF BlockIncident, InState, Becomes, End, TypeOK, WorkIsValid,
       AttendanceIsValid, PreparedIsAttended, OnIncident, Attends
  <2>8. TrialIsValid'
    BY <1>8 DEF BlockIncident, InState, Becomes, End, TypeOK, TrialIsValid, Earned,
       Proven
  <2> QED
    BY <2>1, <2>2, <2>3, <2>4, <2>5, <2>6, <2>7, <2>8
<1>9. CASE Exit(d)
  <2>1. TypeOK'
    BY <1>9 DEF Exit, TypeOK, IncidentStates, Terminal, Stages, RelaunchStages
  <2>2. WorkIsValid'
    BY <1>9 DEF Exit, TypeOK, WorkIsValid, OnIncident
  <2>3. AttendanceIsValid'
    BY <1>9 DEF Exit, TypeOK, WorkIsValid, AttendanceIsValid, OnIncident, Attends
  <2>4. BudgetIsKept'
    BY <1>9 DEF Exit, TypeOK, WorkIsValid, AttendanceIsValid, BudgetIsKept,
       OnIncident, Attends
  <2>5. CheckpointIsValid'
    BY <1>9 DEF Exit, TypeOK, WorkIsValid, AttendanceIsValid, CheckpointIsValid,
       OnIncident, Attends
  <2>6. ResumedAfterRelaunch'
    BY <1>9 DEF Exit, TypeOK, WorkIsValid, AttendanceIsValid, CheckpointIsValid,
       ResumedAfterRelaunch, OnIncident, Attends
  <2>7. PreparedIsAttended'
    BY <1>9 DEF Exit, TypeOK, WorkIsValid, AttendanceIsValid, PreparedIsAttended,
       OnIncident, Attends
  <2>8. TrialIsValid'
    BY <1>9 DEF Exit, TypeOK, TrialIsValid, Earned, Proven
  <2> QED
    BY <2>1, <2>2, <2>3, <2>4, <2>5, <2>6, <2>7, <2>8
<1> QED
  BY <1>1, <1>2, <1>3, <1>4, <1>5, <1>6, <1>7, <1>8, <1>9 DEF GuardedRestart

\* those of resume and restart-policy,
LEMMA AfterRestartInv ==
  ASSUME BInv, NEW d \in Doctors, AfterRestart(d) PROVE BInv'
<1> USE BridgeAssumption DEF BInv, Goto, recordVars, fileVars, appVars, doctorVars,
     historyVars
<1>1. CASE CheckRelaunched(d)
  <2>1. TypeOK'
    BY <1>1 DEF CheckRelaunched, End, TypeOK, IncidentStates, Terminal, Stages,
       RelaunchStages
  <2>2. WorkIsValid'
    BY <1>1 DEF CheckRelaunched, End, TypeOK, WorkIsValid, OnIncident
  <2>3. AttendanceIsValid'
    BY <1>1 DEF CheckRelaunched, End, TypeOK, WorkIsValid, AttendanceIsValid,
       OnIncident, Attends
  <2>4. BudgetIsKept'
    BY <1>1 DEF CheckRelaunched, End, TypeOK, WorkIsValid, AttendanceIsValid,
       BudgetIsKept, OnIncident, Attends
  <2>5. CheckpointIsValid'
    BY <1>1 DEF CheckRelaunched, End, TypeOK, WorkIsValid, AttendanceIsValid,
       CheckpointIsValid, OnIncident, Attends
  <2>6. ResumedAfterRelaunch'
    BY <1>1 DEF CheckRelaunched, End, TypeOK, WorkIsValid, AttendanceIsValid,
       CheckpointIsValid, ResumedAfterRelaunch, OnIncident, Attends
  <2>7. PreparedIsAttended'
    BY <1>1 DEF CheckRelaunched, End, TypeOK, WorkIsValid, AttendanceIsValid,
       PreparedIsAttended, OnIncident, Attends
  <2>8. TrialIsValid'
    BY <1>1 DEF CheckRelaunched, End, TypeOK, TrialIsValid, Earned, Proven
  <2> QED
    BY <2>1, <2>2, <2>3, <2>4, <2>5, <2>6, <2>7, <2>8
<1>2. CASE Conclude(d)
  <2>1. TypeOK'
    BY <1>2 DEF Conclude, InState, Becomes, End, TypeOK, IncidentStates, Terminal,
       Stages, RelaunchStages
  <2>2. WorkIsValid'
    BY <1>2 DEF Conclude, InState, Becomes, End, TypeOK, WorkIsValid, OnIncident
  <2>3. AttendanceIsValid'
    BY <1>2 DEF Conclude, InState, Becomes, End, TypeOK, WorkIsValid,
       AttendanceIsValid, OnIncident, Attends
  <2>4. BudgetIsKept'
    BY <1>2 DEF Conclude, InState, Becomes, End, TypeOK, WorkIsValid,
       AttendanceIsValid, BudgetIsKept, OnIncident, Attends
  <2>5. CheckpointIsValid'
    BY <1>2 DEF Conclude, InState, Becomes, End, TypeOK, WorkIsValid,
       AttendanceIsValid, CheckpointIsValid, OnIncident, Attends
  <2>6. ResumedAfterRelaunch'
    BY <1>2 DEF Conclude, InState, Becomes, End, TypeOK, WorkIsValid,
       AttendanceIsValid, CheckpointIsValid, ResumedAfterRelaunch, OnIncident,
       Attends
  <2>7. PreparedIsAttended'
    BY <1>2 DEF Conclude, InState, Becomes, End, TypeOK, WorkIsValid,
       AttendanceIsValid, PreparedIsAttended, OnIncident, Attends
  <2>8. TrialIsValid'
    BY <1>2 DEF Conclude, InState, Becomes, End, TypeOK, TrialIsValid, Earned,
       Proven
  <2> QED
    BY <2>1, <2>2, <2>3, <2>4, <2>5, <2>6, <2>7, <2>8
<1>3. CASE Enable(d)
  <2>1. TypeOK'
    BY <1>3 DEF Enable, End, TypeOK, IncidentStates, Terminal, Stages,
       RelaunchStages
  <2>2. WorkIsValid'
    BY <1>3 DEF Enable, End, TypeOK, WorkIsValid, OnIncident
  <2>3. AttendanceIsValid'
    BY <1>3 DEF Enable, End, TypeOK, WorkIsValid, AttendanceIsValid, OnIncident,
       Attends
  <2>4. BudgetIsKept'
    BY <1>3 DEF Enable, End, TypeOK, WorkIsValid, AttendanceIsValid, BudgetIsKept,
       OnIncident, Attends
  <2>5. CheckpointIsValid'
    BY <1>3 DEF Enable, End, TypeOK, WorkIsValid, AttendanceIsValid,
       CheckpointIsValid, OnIncident, Attends
  <2>6. ResumedAfterRelaunch'
    BY <1>3 DEF Enable, End, TypeOK, WorkIsValid, AttendanceIsValid,
       CheckpointIsValid, ResumedAfterRelaunch, OnIncident, Attends
  <2>7. PreparedIsAttended'
    BY <1>3 DEF Enable, End, TypeOK, WorkIsValid, AttendanceIsValid,
       PreparedIsAttended, OnIncident, Attends
  <2>8. TrialIsValid'
    BY <1>3 DEF Enable, End, TypeOK, TrialIsValid, Earned, Proven
  <2> QED
    BY <2>1, <2>2, <2>3, <2>4, <2>5, <2>6, <2>7, <2>8
<1> QED
  BY <1>1, <1>2, <1>3 DEF AfterRestart

\* those of the relauncher,
LEMMA RelauncherInv ==
  ASSUME BInv, NEW d \in Doctors, RelauncherStep(d) PROVE BInv'
<1> USE BridgeAssumption DEF BInv, Goto, recordVars, fileVars, appVars, doctorVars,
     historyVars
<1>1. CASE AwaitDoctor(d)
  <2>1. TypeOK'
    BY <1>1 DEF AwaitDoctor, Relaunch, TypeOK, IncidentStates, Terminal, Stages,
       RelaunchStages
  <2>2. WorkIsValid'
    BY <1>1 DEF AwaitDoctor, Relaunch, TypeOK, WorkIsValid, OnIncident
  <2>3. AttendanceIsValid'
    BY <1>1 DEF AwaitDoctor, Relaunch, TypeOK, WorkIsValid, AttendanceIsValid,
       OnIncident, Attends
  <2>4. BudgetIsKept'
    BY <1>1 DEF AwaitDoctor, Relaunch, TypeOK, WorkIsValid, AttendanceIsValid,
       BudgetIsKept, OnIncident, Attends
  <2>5. CheckpointIsValid'
    BY <1>1 DEF AwaitDoctor, Relaunch, TypeOK, WorkIsValid, AttendanceIsValid,
       CheckpointIsValid, OnIncident, Attends
  <2>6. ResumedAfterRelaunch'
    BY <1>1 DEF AwaitDoctor, Relaunch, TypeOK, WorkIsValid, AttendanceIsValid,
       CheckpointIsValid, ResumedAfterRelaunch, OnIncident, Attends
  <2>7. PreparedIsAttended'
    BY <1>1 DEF AwaitDoctor, Relaunch, TypeOK, WorkIsValid, AttendanceIsValid,
       PreparedIsAttended, OnIncident, Attends
  <2>8. TrialIsValid'
    BY <1>1 DEF AwaitDoctor, Relaunch, TypeOK, TrialIsValid, Earned, Proven
  <2> QED
    BY <2>1, <2>2, <2>3, <2>4, <2>5, <2>6, <2>7, <2>8
<1>2. CASE Revalidate(d)
  <2>1. TypeOK'
    BY <1>2 DEF Revalidate, Relaunch, Recorded, TypeOK, IncidentStates, Terminal,
       Stages, RelaunchStages
  <2>2. WorkIsValid'
    BY <1>2 DEF Revalidate, Relaunch, Recorded, TypeOK, WorkIsValid, OnIncident
  <2>3. AttendanceIsValid'
    BY <1>2 DEF Revalidate, Relaunch, Recorded, TypeOK, WorkIsValid,
       AttendanceIsValid, OnIncident, Attends
  <2>4. BudgetIsKept'
    BY <1>2 DEF Revalidate, Relaunch, Recorded, TypeOK, WorkIsValid,
       AttendanceIsValid, BudgetIsKept, OnIncident, Attends
  <2>5. CheckpointIsValid'
    BY <1>2 DEF Revalidate, Relaunch, Recorded, TypeOK, WorkIsValid,
       AttendanceIsValid, CheckpointIsValid, OnIncident, Attends
  <2>6. ResumedAfterRelaunch'
    BY <1>2 DEF Revalidate, Relaunch, Recorded, TypeOK, WorkIsValid,
       AttendanceIsValid, CheckpointIsValid, ResumedAfterRelaunch, OnIncident,
       Attends
  <2>7. PreparedIsAttended'
    BY <1>2 DEF Revalidate, Relaunch, Recorded, TypeOK, WorkIsValid,
       AttendanceIsValid, PreparedIsAttended, OnIncident, Attends
  <2>8. TrialIsValid'
    BY <1>2 DEF Revalidate, Relaunch, Recorded, TypeOK, TrialIsValid, Earned,
       Proven
  <2> QED
    BY <2>1, <2>2, <2>3, <2>4, <2>5, <2>6, <2>7, <2>8
<1>3. CASE Quit(d)
  <2>1. TypeOK'
    BY <1>3 DEF Quit, Relaunch, TypeOK, IncidentStates, Terminal, Stages,
       RelaunchStages
  <2>2. WorkIsValid'
    BY <1>3 DEF Quit, Relaunch, TypeOK, WorkIsValid, OnIncident
  <2>3. AttendanceIsValid'
    BY <1>3 DEF Quit, Relaunch, TypeOK, WorkIsValid, AttendanceIsValid, OnIncident,
       Attends
  <2>4. BudgetIsKept'
    BY <1>3 DEF Quit, Relaunch, TypeOK, WorkIsValid, AttendanceIsValid,
       BudgetIsKept, OnIncident, Attends
  <2>5. CheckpointIsValid'
    BY <1>3 DEF Quit, Relaunch, TypeOK, WorkIsValid, AttendanceIsValid,
       CheckpointIsValid, OnIncident, Attends
  <2>6. ResumedAfterRelaunch'
    BY <1>3 DEF Quit, Relaunch, TypeOK, WorkIsValid, AttendanceIsValid,
       CheckpointIsValid, ResumedAfterRelaunch, OnIncident, Attends
  <2>7. PreparedIsAttended'
    BY <1>3 DEF Quit, Relaunch, TypeOK, WorkIsValid, AttendanceIsValid,
       PreparedIsAttended, OnIncident, Attends
  <2>8. TrialIsValid'
    BY <1>3 DEF Quit, Relaunch, TypeOK, TrialIsValid, Earned, Proven
  <2> QED
    BY <2>1, <2>2, <2>3, <2>4, <2>5, <2>6, <2>7, <2>8
<1>4. CASE AwaitQuit(d)
  <2>1. TypeOK'
    BY <1>4 DEF AwaitQuit, Relaunch, TypeOK, IncidentStates, Terminal, Stages,
       RelaunchStages
  <2>2. WorkIsValid'
    BY <1>4 DEF AwaitQuit, Relaunch, TypeOK, WorkIsValid, OnIncident
  <2>3. AttendanceIsValid'
    BY <1>4 DEF AwaitQuit, Relaunch, TypeOK, WorkIsValid, AttendanceIsValid,
       OnIncident, Attends
  <2>4. BudgetIsKept'
    BY <1>4 DEF AwaitQuit, Relaunch, TypeOK, WorkIsValid, AttendanceIsValid,
       BudgetIsKept, OnIncident, Attends
  <2>5. CheckpointIsValid'
    BY <1>4 DEF AwaitQuit, Relaunch, TypeOK, WorkIsValid, AttendanceIsValid,
       CheckpointIsValid, OnIncident, Attends
  <2>6. ResumedAfterRelaunch'
    BY <1>4 DEF AwaitQuit, Relaunch, TypeOK, WorkIsValid, AttendanceIsValid,
       CheckpointIsValid, ResumedAfterRelaunch, OnIncident, Attends
  <2>7. PreparedIsAttended'
    BY <1>4 DEF AwaitQuit, Relaunch, TypeOK, WorkIsValid, AttendanceIsValid,
       PreparedIsAttended, OnIncident, Attends
  <2>8. TrialIsValid'
    BY <1>4 DEF AwaitQuit, Relaunch, TypeOK, TrialIsValid, Earned, Proven
  <2> QED
    BY <2>1, <2>2, <2>3, <2>4, <2>5, <2>6, <2>7, <2>8
<1>5. CASE OpenApp(d)
  <2>1. TypeOK'
    BY <1>5 DEF OpenApp, Relaunch, Starts, TypeOK, IncidentStates, Terminal,
       Stages, RelaunchStages
  <2>2. WorkIsValid'
    BY <1>5 DEF OpenApp, Relaunch, Starts, TypeOK, WorkIsValid, OnIncident
  <2>3. AttendanceIsValid'
    BY <1>5 DEF OpenApp, Relaunch, Starts, TypeOK, WorkIsValid, AttendanceIsValid,
       OnIncident, Attends
  <2>4. BudgetIsKept'
    BY <1>5 DEF OpenApp, Relaunch, Starts, TypeOK, WorkIsValid, AttendanceIsValid,
       BudgetIsKept, OnIncident, Attends
  <2>5. CheckpointIsValid'
    BY <1>5 DEF OpenApp, Relaunch, Starts, TypeOK, WorkIsValid, AttendanceIsValid,
       CheckpointIsValid, OnIncident, Attends
  <2>6. ResumedAfterRelaunch'
    BY <1>5 DEF OpenApp, Relaunch, Starts, TypeOK, WorkIsValid, AttendanceIsValid,
       CheckpointIsValid, ResumedAfterRelaunch, OnIncident, Attends
  <2>7. PreparedIsAttended'
    BY <1>5 DEF OpenApp, Relaunch, Starts, TypeOK, WorkIsValid, AttendanceIsValid,
       PreparedIsAttended, OnIncident, Attends
  <2>8. TrialIsValid'
    BY <1>5 DEF OpenApp, Relaunch, Starts, TypeOK, TrialIsValid, Earned, Proven
  <2> QED
    BY <2>1, <2>2, <2>3, <2>4, <2>5, <2>6, <2>7, <2>8
<1>6. CASE AwaitApp(d)
  <2>1. TypeOK'
    BY <1>6 DEF AwaitApp, Relaunch, Ready, Recorded, TypeOK, IncidentStates,
       Terminal, Stages, RelaunchStages
  <2>2. WorkIsValid'
    BY <1>6 DEF AwaitApp, Relaunch, Ready, Recorded, TypeOK, WorkIsValid,
       OnIncident
  <2>3. AttendanceIsValid'
    BY <1>6 DEF AwaitApp, Relaunch, Ready, Recorded, TypeOK, WorkIsValid,
       AttendanceIsValid, OnIncident, Attends
  <2>4. BudgetIsKept'
    BY <1>6 DEF AwaitApp, Relaunch, Ready, Recorded, TypeOK, WorkIsValid,
       AttendanceIsValid, BudgetIsKept, OnIncident, Attends
  <2>5. CheckpointIsValid'
    BY <1>6 DEF AwaitApp, Relaunch, Ready, Recorded, TypeOK, WorkIsValid,
       AttendanceIsValid, CheckpointIsValid, OnIncident, Attends
  <2>6. ResumedAfterRelaunch'
    BY <1>6 DEF AwaitApp, Relaunch, Ready, Recorded, TypeOK, WorkIsValid,
       AttendanceIsValid, CheckpointIsValid, ResumedAfterRelaunch, OnIncident,
       Attends
  <2>7. PreparedIsAttended'
    BY <1>6 DEF AwaitApp, Relaunch, Ready, Recorded, TypeOK, WorkIsValid,
       AttendanceIsValid, PreparedIsAttended, OnIncident, Attends
  <2>8. TrialIsValid'
    BY <1>6 DEF AwaitApp, Relaunch, Ready, Recorded, TypeOK, TrialIsValid, Earned,
       Proven
  <2> QED
    BY <2>1, <2>2, <2>3, <2>4, <2>5, <2>6, <2>7, <2>8
<1>7. CASE OpenThread(d)
  <2>1. TypeOK'
    BY <1>7 DEF OpenThread, Relaunch, TypeOK, IncidentStates, Terminal, Stages,
       RelaunchStages
  <2>2. WorkIsValid'
    BY <1>7 DEF OpenThread, Relaunch, TypeOK, WorkIsValid, OnIncident
  <2>3. AttendanceIsValid'
    BY <1>7 DEF OpenThread, Relaunch, TypeOK, WorkIsValid, AttendanceIsValid,
       OnIncident, Attends
  <2>4. BudgetIsKept'
    BY <1>7 DEF OpenThread, Relaunch, TypeOK, WorkIsValid, AttendanceIsValid,
       BudgetIsKept, OnIncident, Attends
  <2>5. CheckpointIsValid'
    BY <1>7 DEF OpenThread, Relaunch, TypeOK, WorkIsValid, AttendanceIsValid,
       CheckpointIsValid, OnIncident, Attends
  <2>6. ResumedAfterRelaunch'
    BY <1>7 DEF OpenThread, Relaunch, TypeOK, WorkIsValid, AttendanceIsValid,
       CheckpointIsValid, ResumedAfterRelaunch, OnIncident, Attends
  <2>7. PreparedIsAttended'
    BY <1>7 DEF OpenThread, Relaunch, TypeOK, WorkIsValid, AttendanceIsValid,
       PreparedIsAttended, OnIncident, Attends
  <2>8. TrialIsValid'
    BY <1>7 DEF OpenThread, Relaunch, TypeOK, TrialIsValid, Earned, Proven
  <2> QED
    BY <2>1, <2>2, <2>3, <2>4, <2>5, <2>6, <2>7, <2>8
<1>8. CASE Commit(d)
  <2>1. TypeOK'
    BY <1>8 DEF Commit, Settle, InState, Becomes, Relaunch, TypeOK, IncidentStates,
       Terminal, Stages, RelaunchStages
  <2>2. WorkIsValid'
    BY <1>8 DEF Commit, Settle, InState, Becomes, Relaunch, TypeOK, WorkIsValid,
       OnIncident
  <2>3. AttendanceIsValid'
    BY <1>8 DEF Commit, Settle, InState, Becomes, Relaunch, TypeOK, WorkIsValid,
       AttendanceIsValid, OnIncident, Attends
  <2>4. BudgetIsKept'
    BY <1>8 DEF Commit, Settle, InState, Becomes, Relaunch, TypeOK, WorkIsValid,
       AttendanceIsValid, BudgetIsKept, OnIncident, Attends
  <2>5. CheckpointIsValid'
    BY <1>8 DEF Commit, Settle, InState, Becomes, Relaunch, TypeOK, WorkIsValid,
       AttendanceIsValid, CheckpointIsValid, OnIncident, Attends
  <2>6. ResumedAfterRelaunch'
    BY <1>8 DEF Commit, Settle, InState, Becomes, Relaunch, TypeOK, WorkIsValid,
       AttendanceIsValid, CheckpointIsValid, ResumedAfterRelaunch, OnIncident,
       Attends
  <2>7. PreparedIsAttended'
    BY <1>8 DEF Commit, Settle, InState, Becomes, Relaunch, TypeOK, WorkIsValid,
       AttendanceIsValid, PreparedIsAttended, OnIncident, Attends
  <2>8. TrialIsValid'
    <3>1. ASSUME NEW j \in Incidents, Proven(j) PROVE Proven(j)'
      BY <1>8, <3>1 DEF Commit, Settle, InState, Becomes, Proven, TypeOK
    <3>2. Earned => Earned'
      BY <3>1 DEF Earned
    <3> QED
      BY <1>8, <3>2 DEF Commit, Settle, InState, Becomes, TypeOK, TrialIsValid, WorkIsValid
  <2> QED
    BY <2>1, <2>2, <2>3, <2>4, <2>5, <2>6, <2>7, <2>8
<1>9. CASE Block(d)
  <2>1. TypeOK'
    BY <1>9 DEF Block, Settle, InState, Becomes, Relaunch, TypeOK, IncidentStates,
       Terminal, Stages, RelaunchStages
  <2>2. WorkIsValid'
    BY <1>9 DEF Block, Settle, InState, Becomes, Relaunch, TypeOK, WorkIsValid,
       OnIncident
  <2>3. AttendanceIsValid'
    BY <1>9 DEF Block, Settle, InState, Becomes, Relaunch, TypeOK, WorkIsValid,
       AttendanceIsValid, OnIncident, Attends
  <2>4. BudgetIsKept'
    BY <1>9 DEF Block, Settle, InState, Becomes, Relaunch, TypeOK, WorkIsValid,
       AttendanceIsValid, BudgetIsKept, OnIncident, Attends
  <2>5. CheckpointIsValid'
    BY <1>9 DEF Block, Settle, InState, Becomes, Relaunch, TypeOK, WorkIsValid,
       AttendanceIsValid, CheckpointIsValid, OnIncident, Attends
  <2>6. ResumedAfterRelaunch'
    BY <1>9 DEF Block, Settle, InState, Becomes, Relaunch, TypeOK, WorkIsValid,
       AttendanceIsValid, CheckpointIsValid, ResumedAfterRelaunch, OnIncident,
       Attends
  <2>7. PreparedIsAttended'
    BY <1>9 DEF Block, Settle, InState, Becomes, Relaunch, TypeOK, WorkIsValid,
       AttendanceIsValid, PreparedIsAttended, OnIncident, Attends
  <2>8. TrialIsValid'
    <3>1. ASSUME NEW j \in Incidents, Proven(j) PROVE Proven(j)'
      BY <1>9, <3>1 DEF Block, Settle, InState, Becomes, Proven, TypeOK
    <3>2. Earned => Earned'
      BY <3>1 DEF Earned
    <3> QED
      BY <1>9, <3>2 DEF Block, Settle, InState, Becomes, TypeOK, TrialIsValid, WorkIsValid
  <2> QED
    BY <2>1, <2>2, <2>3, <2>4, <2>5, <2>6, <2>7, <2>8
<1> QED
  BY <1>1, <1>2, <1>3, <1>4, <1>5, <1>6, <1>7, <1>8, <1>9 DEF RelauncherStep

\* a killed process,
LEMMA KillInv ==
  ASSUME BInv, NEW d \in Doctors, KillDoctor(d) \/ KillRelauncher(d) PROVE BInv'
<1> USE BridgeAssumption DEF BInv, Goto, recordVars, fileVars, appVars, doctorVars,
     historyVars
<1>1. CASE KillDoctor(d)
  <2>1. TypeOK'
    BY <1>1 DEF KillDoctor, End, TypeOK, IncidentStates, Terminal, Stages,
       RelaunchStages, WorkIsValid, OnIncident
  <2>2. WorkIsValid'
    BY <1>1 DEF KillDoctor, End, TypeOK, WorkIsValid, OnIncident
  <2>3. AttendanceIsValid'
    BY <1>1 DEF KillDoctor, End, TypeOK, WorkIsValid, AttendanceIsValid,
       OnIncident, Attends
  <2>4. BudgetIsKept'
    BY <1>1 DEF KillDoctor, End, TypeOK, WorkIsValid, AttendanceIsValid,
       BudgetIsKept, OnIncident, Attends
  <2>5. CheckpointIsValid'
    BY <1>1 DEF KillDoctor, End, TypeOK, WorkIsValid, AttendanceIsValid,
       CheckpointIsValid, OnIncident, Attends
  <2>6. ResumedAfterRelaunch'
    BY <1>1 DEF KillDoctor, End, TypeOK, WorkIsValid, AttendanceIsValid,
       CheckpointIsValid, ResumedAfterRelaunch, OnIncident, Attends
  <2>7. PreparedIsAttended'
    BY <1>1 DEF KillDoctor, End, TypeOK, WorkIsValid, AttendanceIsValid,
       PreparedIsAttended, OnIncident, Attends
  <2>8. TrialIsValid'
    BY <1>1 DEF KillDoctor, End, TypeOK, TrialIsValid, Earned, Proven
  <2> QED
    BY <2>1, <2>2, <2>3, <2>4, <2>5, <2>6, <2>7, <2>8
<1>2. CASE KillRelauncher(d)
  <2>1. TypeOK'
    BY <1>2 DEF KillRelauncher, End, Relaunch, TypeOK, IncidentStates, Terminal, Stages,
       RelaunchStages, WorkIsValid
  <2>2. WorkIsValid'
    BY <1>2 DEF KillRelauncher, End, Relaunch, TypeOK, WorkIsValid, OnIncident
  <2>3. AttendanceIsValid'
    BY <1>2 DEF KillRelauncher, End, Relaunch, TypeOK, WorkIsValid,
       AttendanceIsValid, OnIncident, Attends
  <2>4. BudgetIsKept'
    BY <1>2 DEF KillRelauncher, End, Relaunch, TypeOK, WorkIsValid,
       AttendanceIsValid, BudgetIsKept, OnIncident, Attends
  <2>5. CheckpointIsValid'
    BY <1>2 DEF KillRelauncher, End, Relaunch, TypeOK, WorkIsValid,
       AttendanceIsValid, CheckpointIsValid, OnIncident, Attends
  <2>6. ResumedAfterRelaunch'
    BY <1>2 DEF KillRelauncher, End, Relaunch, TypeOK, WorkIsValid,
       AttendanceIsValid, CheckpointIsValid, ResumedAfterRelaunch, OnIncident,
       Attends
  <2>7. PreparedIsAttended'
    BY <1>2 DEF KillRelauncher, End, Relaunch, TypeOK, WorkIsValid,
       AttendanceIsValid, PreparedIsAttended, OnIncident, Attends
  <2>8. TrialIsValid'
    BY <1>2 DEF KillRelauncher, End, Relaunch, TypeOK, TrialIsValid, Earned,
       Proven
  <2> QED
    BY <2>1, <2>2, <2>3, <2>4, <2>5, <2>6, <2>7, <2>8
<1> QED
  BY <1>1, <1>2

\* the start of a command,
LEMMA CommandInv ==
  ASSUME BInv, NEW d \in Doctors, Command(d) PROVE BInv'
<1> USE BridgeAssumption DEF BInv, Goto, recordVars, fileVars, appVars, doctorVars,
     historyVars
<1>1. CASE \E t \in Tasks : Recover(d, t)
  <2>1. TypeOK'
    BY <1>1 DEF Recover, Free, TypeOK, IncidentStates, Terminal, Stages,
       RelaunchStages
  <2>2. WorkIsValid'
    BY <1>1 DEF Recover, Free, TypeOK, WorkIsValid, OnIncident
  <2>3. AttendanceIsValid'
    BY <1>1 DEF Recover, Free, TypeOK, WorkIsValid, AttendanceIsValid, OnIncident,
       Attends
  <2>4. BudgetIsKept'
    BY <1>1 DEF Recover, Free, TypeOK, WorkIsValid, AttendanceIsValid,
       BudgetIsKept, OnIncident, Attends
  <2>5. CheckpointIsValid'
    BY <1>1 DEF Recover, Free, TypeOK, WorkIsValid, AttendanceIsValid,
       CheckpointIsValid, OnIncident, Attends
  <2>6. ResumedAfterRelaunch'
    BY <1>1 DEF Recover, Free, TypeOK, WorkIsValid, AttendanceIsValid,
       CheckpointIsValid, ResumedAfterRelaunch, OnIncident, Attends
  <2>7. PreparedIsAttended'
    BY <1>1 DEF Recover, Free, TypeOK, WorkIsValid, AttendanceIsValid,
       PreparedIsAttended, OnIncident, Attends
  <2>8. TrialIsValid'
    BY <1>1 DEF Recover, Free, TypeOK, TrialIsValid, Earned, Proven
  <2> QED
    BY <2>1, <2>2, <2>3, <2>4, <2>5, <2>6, <2>7, <2>8
<1>2. CASE \E t \in Tasks, i \in Incidents : Attest(d, t, i)
  <2>1. TypeOK'
    BY <1>2 DEF Attest, Load, InState, Free, TypeOK, IncidentStates, Terminal,
       Stages, RelaunchStages
  <2>2. WorkIsValid'
    BY <1>2 DEF Attest, Load, InState, Free, TypeOK, WorkIsValid, OnIncident
  <2>3. AttendanceIsValid'
    BY <1>2 DEF Attest, Load, InState, Free, TypeOK, WorkIsValid,
       AttendanceIsValid, OnIncident, Attends
  <2>4. BudgetIsKept'
    BY <1>2 DEF Attest, Load, InState, Free, TypeOK, WorkIsValid,
       AttendanceIsValid, BudgetIsKept, OnIncident, Attends
  <2>5. CheckpointIsValid'
    BY <1>2 DEF Attest, Load, InState, Free, TypeOK, WorkIsValid,
       AttendanceIsValid, CheckpointIsValid, OnIncident, Attends
  <2>6. ResumedAfterRelaunch'
    BY <1>2 DEF Attest, Load, InState, Free, TypeOK, WorkIsValid,
       AttendanceIsValid, CheckpointIsValid, ResumedAfterRelaunch, OnIncident,
       Attends
  <2>7. PreparedIsAttended'
    BY <1>2 DEF Attest, Load, InState, Free, TypeOK, WorkIsValid,
       AttendanceIsValid, PreparedIsAttended, OnIncident, Attends
  <2>8. TrialIsValid'
    BY <1>2 DEF Attest, Load, InState, Free, TypeOK, TrialIsValid, Earned, Proven
  <2> QED
    BY <2>1, <2>2, <2>3, <2>4, <2>5, <2>6, <2>7, <2>8
<1>3. CASE \E t \in Tasks, i \in Incidents : Prepare(d, t, i)
  <2>1. TypeOK'
    BY <1>3 DEF Prepare, Load, InState, Free, TypeOK, IncidentStates, Terminal,
       Stages, RelaunchStages
  <2>2. WorkIsValid'
    BY <1>3 DEF Prepare, Load, InState, Free, TypeOK, WorkIsValid, OnIncident
  <2>3. AttendanceIsValid'
    BY <1>3 DEF Prepare, Load, InState, Free, TypeOK, WorkIsValid,
       AttendanceIsValid, OnIncident, Attends
  <2>4. BudgetIsKept'
    BY <1>3 DEF Prepare, Load, InState, Free, TypeOK, WorkIsValid,
       AttendanceIsValid, BudgetIsKept, OnIncident, Attends
  <2>5. CheckpointIsValid'
    BY <1>3 DEF Prepare, Load, InState, Free, TypeOK, WorkIsValid,
       AttendanceIsValid, CheckpointIsValid, OnIncident, Attends
  <2>6. ResumedAfterRelaunch'
    BY <1>3 DEF Prepare, Load, InState, Free, TypeOK, WorkIsValid,
       AttendanceIsValid, CheckpointIsValid, ResumedAfterRelaunch, OnIncident,
       Attends
  <2>7. PreparedIsAttended'
    BY <1>3 DEF Prepare, Load, InState, Free, TypeOK, WorkIsValid,
       AttendanceIsValid, PreparedIsAttended, OnIncident, Attends
  <2>8. TrialIsValid'
    BY <1>3 DEF Prepare, Load, InState, Free, TypeOK, TrialIsValid, Earned, Proven
  <2> QED
    BY <2>1, <2>2, <2>3, <2>4, <2>5, <2>6, <2>7, <2>8
<1>4. CASE \E t \in Tasks, i \in Incidents : Resume(d, t, i)
  <2>1. TypeOK'
    BY <1>4 DEF Resume, Load, InState, Free, TypeOK, IncidentStates, Terminal,
       Stages, RelaunchStages
  <2>2. WorkIsValid'
    BY <1>4 DEF Resume, Load, InState, Free, TypeOK, WorkIsValid, OnIncident
  <2>3. AttendanceIsValid'
    BY <1>4 DEF Resume, Load, InState, Free, TypeOK, WorkIsValid,
       AttendanceIsValid, OnIncident, Attends
  <2>4. BudgetIsKept'
    BY <1>4 DEF Resume, Load, InState, Free, TypeOK, WorkIsValid,
       AttendanceIsValid, BudgetIsKept, OnIncident, Attends
  <2>5. CheckpointIsValid'
    BY <1>4 DEF Resume, Load, InState, Free, TypeOK, WorkIsValid,
       AttendanceIsValid, CheckpointIsValid, OnIncident, Attends
  <2>6. ResumedAfterRelaunch'
    BY <1>4 DEF Resume, Load, InState, Free, TypeOK, WorkIsValid,
       AttendanceIsValid, CheckpointIsValid, ResumedAfterRelaunch, OnIncident,
       Attends
  <2>7. PreparedIsAttended'
    BY <1>4 DEF Resume, Load, InState, Free, TypeOK, WorkIsValid,
       AttendanceIsValid, PreparedIsAttended, OnIncident, Attends
  <2>8. TrialIsValid'
    BY <1>4 DEF Resume, Load, InState, Free, TypeOK, TrialIsValid, Earned, Proven
  <2> QED
    BY <2>1, <2>2, <2>3, <2>4, <2>5, <2>6, <2>7, <2>8
<1>5. CASE \E i \in Incidents : Fire(d, i)
  <2>1. TypeOK'
    BY <1>5 DEF Fire, Load, InState, Free, TypeOK, IncidentStates, Terminal,
       Stages, RelaunchStages
  <2>2. WorkIsValid'
    BY <1>5 DEF Fire, Load, InState, Free, TypeOK, WorkIsValid, OnIncident
  <2>3. AttendanceIsValid'
    BY <1>5 DEF Fire, Load, InState, Free, TypeOK, WorkIsValid, AttendanceIsValid,
       OnIncident, Attends
  <2>4. BudgetIsKept'
    BY <1>5 DEF Fire, Load, InState, Free, TypeOK, WorkIsValid, AttendanceIsValid,
       BudgetIsKept, OnIncident, Attends
  <2>5. CheckpointIsValid'
    BY <1>5 DEF Fire, Load, InState, Free, TypeOK, WorkIsValid, AttendanceIsValid,
       CheckpointIsValid, OnIncident, Attends
  <2>6. ResumedAfterRelaunch'
    BY <1>5 DEF Fire, Load, InState, Free, TypeOK, WorkIsValid, AttendanceIsValid,
       CheckpointIsValid, ResumedAfterRelaunch, OnIncident, Attends
  <2>7. PreparedIsAttended'
    BY <1>5 DEF Fire, Load, InState, Free, TypeOK, WorkIsValid, AttendanceIsValid,
       PreparedIsAttended, OnIncident, Attends
  <2>8. TrialIsValid'
    BY <1>5 DEF Fire, Load, InState, Free, TypeOK, TrialIsValid, Earned, Proven
  <2> QED
    BY <2>1, <2>2, <2>3, <2>4, <2>5, <2>6, <2>7, <2>8
<1>6. CASE \E i \in Incidents : CheckTrial(d, i)
  <2>1. TypeOK'
    BY <1>6 DEF CheckTrial, Free, TypeOK, IncidentStates, Terminal, Stages,
       RelaunchStages
  <2>2. WorkIsValid'
    BY <1>6 DEF CheckTrial, Free, TypeOK, WorkIsValid, OnIncident
  <2>3. AttendanceIsValid'
    BY <1>6 DEF CheckTrial, Free, TypeOK, WorkIsValid, AttendanceIsValid,
       OnIncident, Attends
  <2>4. BudgetIsKept'
    BY <1>6 DEF CheckTrial, Free, TypeOK, WorkIsValid, AttendanceIsValid,
       BudgetIsKept, OnIncident, Attends
  <2>5. CheckpointIsValid'
    BY <1>6 DEF CheckTrial, Free, TypeOK, WorkIsValid, AttendanceIsValid,
       CheckpointIsValid, OnIncident, Attends
  <2>6. ResumedAfterRelaunch'
    BY <1>6 DEF CheckTrial, Free, TypeOK, WorkIsValid, AttendanceIsValid,
       CheckpointIsValid, ResumedAfterRelaunch, OnIncident, Attends
  <2>7. PreparedIsAttended'
    BY <1>6 DEF CheckTrial, Free, TypeOK, WorkIsValid, AttendanceIsValid,
       PreparedIsAttended, OnIncident, Attends
  <2>8. TrialIsValid'
    BY <1>6 DEF CheckTrial, Free, TypeOK, TrialIsValid, Earned, Proven
  <2> QED
    BY <2>1, <2>2, <2>3, <2>4, <2>5, <2>6, <2>7, <2>8
<1> QED
  BY <1>1, <1>2, <1>3, <1>4, <1>5, <1>6 DEF Command

\* and everything else.
LEMMA BridgeStepInv == BInv /\ [Next]_vars => BInv'
<1> SUFFICES ASSUME BInv, [Next]_vars PROVE BInv'
  OBVIOUS
<1> USE BridgeAssumption DEF BInv, Goto, recordVars, fileVars, appVars, doctorVars,
     historyVars
<1>1. CASE \E i \in Incidents : Expire(i)
  <2>1. TypeOK'
    BY <1>1 DEF Expire, TypeOK, IncidentStates, Terminal, Stages, RelaunchStages
  <2>2. WorkIsValid'
    BY <1>1 DEF Expire, TypeOK, WorkIsValid, OnIncident
  <2>3. AttendanceIsValid'
    BY <1>1 DEF Expire, TypeOK, WorkIsValid, AttendanceIsValid, OnIncident,
       Attends
  <2>4. BudgetIsKept'
    BY <1>1 DEF Expire, TypeOK, WorkIsValid, AttendanceIsValid, BudgetIsKept,
       OnIncident, Attends
  <2>5. CheckpointIsValid'
    BY <1>1 DEF Expire, TypeOK, WorkIsValid, AttendanceIsValid, CheckpointIsValid,
       OnIncident, Attends
  <2>6. ResumedAfterRelaunch'
    BY <1>1 DEF Expire, TypeOK, WorkIsValid, AttendanceIsValid, CheckpointIsValid,
       ResumedAfterRelaunch, OnIncident, Attends
  <2>7. PreparedIsAttended'
    BY <1>1 DEF Expire, TypeOK, WorkIsValid, AttendanceIsValid, PreparedIsAttended,
       OnIncident, Attends
  <2>8. TrialIsValid'
    BY <1>1 DEF Expire, TypeOK, TrialIsValid, Earned, Proven
  <2> QED
    BY <2>1, <2>2, <2>3, <2>4, <2>5, <2>6, <2>7, <2>8
<1>2. CASE Disable
  <2>1. TypeOK'
    BY <1>2 DEF Disable, TypeOK, IncidentStates, Terminal, Stages, RelaunchStages
  <2>2. WorkIsValid'
    BY <1>2 DEF Disable, TypeOK, WorkIsValid, OnIncident
  <2>3. AttendanceIsValid'
    BY <1>2 DEF Disable, TypeOK, WorkIsValid, AttendanceIsValid, OnIncident,
       Attends
  <2>4. BudgetIsKept'
    BY <1>2 DEF Disable, TypeOK, WorkIsValid, AttendanceIsValid, BudgetIsKept,
       OnIncident, Attends
  <2>5. CheckpointIsValid'
    BY <1>2 DEF Disable, TypeOK, WorkIsValid, AttendanceIsValid, CheckpointIsValid,
       OnIncident, Attends
  <2>6. ResumedAfterRelaunch'
    BY <1>2 DEF Disable, TypeOK, WorkIsValid, AttendanceIsValid, CheckpointIsValid,
       ResumedAfterRelaunch, OnIncident, Attends
  <2>7. PreparedIsAttended'
    BY <1>2 DEF Disable, TypeOK, WorkIsValid, AttendanceIsValid,
       PreparedIsAttended, OnIncident, Attends
  <2>8. TrialIsValid'
    BY <1>2 DEF Disable, TypeOK, TrialIsValid, Earned, Proven
  <2> QED
    BY <2>1, <2>2, <2>3, <2>4, <2>5, <2>6, <2>7, <2>8
<1>3. CASE AppQuits
  <2>1. TypeOK'
    BY <1>3 DEF AppQuits, TypeOK, IncidentStates, Terminal, Stages, RelaunchStages
  <2>2. WorkIsValid'
    BY <1>3 DEF AppQuits, TypeOK, WorkIsValid, OnIncident
  <2>3. AttendanceIsValid'
    BY <1>3 DEF AppQuits, TypeOK, WorkIsValid, AttendanceIsValid, OnIncident,
       Attends
  <2>4. BudgetIsKept'
    BY <1>3 DEF AppQuits, TypeOK, WorkIsValid, AttendanceIsValid, BudgetIsKept,
       OnIncident, Attends
  <2>5. CheckpointIsValid'
    BY <1>3 DEF AppQuits, TypeOK, WorkIsValid, AttendanceIsValid,
       CheckpointIsValid, OnIncident, Attends
  <2>6. ResumedAfterRelaunch'
    BY <1>3 DEF AppQuits, TypeOK, WorkIsValid, AttendanceIsValid,
       CheckpointIsValid, ResumedAfterRelaunch, OnIncident, Attends
  <2>7. PreparedIsAttended'
    BY <1>3 DEF AppQuits, TypeOK, WorkIsValid, AttendanceIsValid,
       PreparedIsAttended, OnIncident, Attends
  <2>8. TrialIsValid'
    BY <1>3 DEF AppQuits, TypeOK, TrialIsValid, Earned, Proven
  <2> QED
    BY <2>1, <2>2, <2>3, <2>4, <2>5, <2>6, <2>7, <2>8
<1>4. CASE UserQuits
  <2>1. TypeOK'
    BY <1>4 DEF UserQuits, TypeOK, IncidentStates, Terminal, Stages,
       RelaunchStages
  <2>2. WorkIsValid'
    BY <1>4 DEF UserQuits, TypeOK, WorkIsValid, OnIncident
  <2>3. AttendanceIsValid'
    BY <1>4 DEF UserQuits, TypeOK, WorkIsValid, AttendanceIsValid, OnIncident,
       Attends
  <2>4. BudgetIsKept'
    BY <1>4 DEF UserQuits, TypeOK, WorkIsValid, AttendanceIsValid, BudgetIsKept,
       OnIncident, Attends
  <2>5. CheckpointIsValid'
    BY <1>4 DEF UserQuits, TypeOK, WorkIsValid, AttendanceIsValid,
       CheckpointIsValid, OnIncident, Attends
  <2>6. ResumedAfterRelaunch'
    BY <1>4 DEF UserQuits, TypeOK, WorkIsValid, AttendanceIsValid,
       CheckpointIsValid, ResumedAfterRelaunch, OnIncident, Attends
  <2>7. PreparedIsAttended'
    BY <1>4 DEF UserQuits, TypeOK, WorkIsValid, AttendanceIsValid,
       PreparedIsAttended, OnIncident, Attends
  <2>8. TrialIsValid'
    BY <1>4 DEF UserQuits, TypeOK, TrialIsValid, Earned, Proven
  <2> QED
    BY <2>1, <2>2, <2>3, <2>4, <2>5, <2>6, <2>7, <2>8
<1>5. CASE UserStarts
  <2>1. TypeOK'
    BY <1>5 DEF UserStarts, Starts, TypeOK, IncidentStates, Terminal, Stages,
       RelaunchStages
  <2>2. WorkIsValid'
    BY <1>5 DEF UserStarts, Starts, TypeOK, WorkIsValid, OnIncident
  <2>3. AttendanceIsValid'
    BY <1>5 DEF UserStarts, Starts, TypeOK, WorkIsValid, AttendanceIsValid,
       OnIncident, Attends
  <2>4. BudgetIsKept'
    BY <1>5 DEF UserStarts, Starts, TypeOK, WorkIsValid, AttendanceIsValid,
       BudgetIsKept, OnIncident, Attends
  <2>5. CheckpointIsValid'
    BY <1>5 DEF UserStarts, Starts, TypeOK, WorkIsValid, AttendanceIsValid,
       CheckpointIsValid, OnIncident, Attends
  <2>6. ResumedAfterRelaunch'
    BY <1>5 DEF UserStarts, Starts, TypeOK, WorkIsValid, AttendanceIsValid,
       CheckpointIsValid, ResumedAfterRelaunch, OnIncident, Attends
  <2>7. PreparedIsAttended'
    BY <1>5 DEF UserStarts, Starts, TypeOK, WorkIsValid, AttendanceIsValid,
       PreparedIsAttended, OnIncident, Attends
  <2>8. TrialIsValid'
    BY <1>5 DEF UserStarts, Starts, TypeOK, TrialIsValid, Earned, Proven
  <2> QED
    BY <2>1, <2>2, <2>3, <2>4, <2>5, <2>6, <2>7, <2>8
<1>6. CASE UNCHANGED vars
  <2>1. TypeOK'
    BY <1>6 DEF vars, TypeOK, IncidentStates, Terminal, Stages, RelaunchStages
  <2>2. WorkIsValid'
    BY <1>6 DEF vars, TypeOK, WorkIsValid, OnIncident
  <2>3. AttendanceIsValid'
    BY <1>6 DEF vars, TypeOK, WorkIsValid, AttendanceIsValid, OnIncident, Attends
  <2>4. BudgetIsKept'
    BY <1>6 DEF vars, TypeOK, WorkIsValid, AttendanceIsValid, BudgetIsKept,
       OnIncident, Attends
  <2>5. CheckpointIsValid'
    BY <1>6 DEF vars, TypeOK, WorkIsValid, AttendanceIsValid, CheckpointIsValid,
       OnIncident, Attends
  <2>6. ResumedAfterRelaunch'
    BY <1>6 DEF vars, TypeOK, WorkIsValid, AttendanceIsValid, CheckpointIsValid,
       ResumedAfterRelaunch, OnIncident, Attends
  <2>7. PreparedIsAttended'
    BY <1>6 DEF vars, TypeOK, WorkIsValid, AttendanceIsValid, PreparedIsAttended,
       OnIncident, Attends
  <2>8. TrialIsValid'
    BY <1>6 DEF vars, TypeOK, TrialIsValid, Earned, Proven
  <2> QED
    BY <2>1, <2>2, <2>3, <2>4, <2>5, <2>6, <2>7, <2>8
<1> QED
  BY <1>1, <1>2, <1>3, <1>4, <1>5, <1>6, DiagnoseInv, GuardedRestartInv,
     AfterRestartInv, RelauncherInv, CommandInv, KillInv DEF Next, DoctorStep

THEOREM BridgeInvariance == Spec => []BInv
  BY BridgeInitInv, BridgeStepInv, PTL DEF Spec

\* TypeOK is an invariant of the bridge.
THEOREM BridgeTypeCorrect == Spec => []TypeOK
<1>1. BInv => TypeOK
  BY DEF BInv
<1> QED
  BY <1>1, BridgeInvariance, PTL

\* Whatever doctors and relaunchers run at the same time, one quit is requested
\* for an incident, and none before it is prepared.
THEOREM RestartIsSpentOnce == Spec => []OneRestartPerIncident
<1>1. BInv => OneRestartPerIncident
  BY DEF BInv, BudgetIsKept, OneRestartPerIncident
<1> QED
  BY <1>1, BridgeInvariance, PTL

\* What is resumed or concluded as resumed has another app than its checkpoint's.
THEOREM ResumptionFollowsRelaunch == Spec => []ResumedAfterRelaunch
<1>1. BInv => ResumedAfterRelaunch
  BY DEF BInv
<1> QED
  BY <1>1, BridgeInvariance, PTL

\* An incident prepared without --dogfood comes after a trial closed healthy.
THEOREM AutomationIsEarned == Spec => []AutomaticIsEarned
<1>1. BInv => AutomaticIsEarned
  BY DEF BInv, TrialIsValid, AutomaticIsEarned, Earned, Proven
<1> QED
  BY <1>1, BridgeInvariance, PTL

\* A prepared incident whose processes were not killed has one that will end it.
THEOREM PreparationIsAttended == Spec => []PreparedIsAttended
<1>1. BInv => PreparedIsAttended
  BY DEF BInv
<1> QED
  BY <1>1, BridgeInvariance, PTL

\* The steps that give an incident another state.
LEMMA Transitions ==
  ASSUME Next, state' # state
  PROVE  \E d \in Doctors :
           \/ CreateOrReuse(d) \/ PrepareIncident(d) \/ BlockIncident(d)
           \/ Conclude(d) \/ Commit(d) \/ Block(d)
<1> USE DEF recordVars, fileVars, appVars, doctorVars, historyVars
<1>1. ASSUME NEW d \in Doctors, Command(d) PROVE FALSE
  BY <1>1 DEF Command, Recover, Attest, Prepare, Resume, Fire, CheckTrial
<1>2. ASSUME NEW d \in Doctors, KillDoctor(d) \/ KillRelauncher(d) PROVE FALSE
  BY <1>2 DEF KillDoctor, KillRelauncher
<1>3. ASSUME NEW d \in Doctors, Diagnose(d) PROVE CreateOrReuse(d)
  BY <1>3 DEF Diagnose, InspectProject, RecoverProject, Probe, Repair, Reprobe
<1>4. ASSUME NEW d \in Doctors, GuardedRestart(d)
      PROVE  PrepareIncident(d) \/ BlockIncident(d)
  BY <1>4 DEF GuardedRestart, WriteAttestation, ValidateAttestation, CheckPolicy,
     Identify, WriteCheckpoint, LaunchRelauncher, Exit
<1>5. ASSUME NEW d \in Doctors, AfterRestart(d) PROVE Conclude(d)
  BY <1>5 DEF AfterRestart, CheckRelaunched, Enable
<1>6. ASSUME NEW d \in Doctors, RelauncherStep(d) PROVE Commit(d) \/ Block(d)
  BY <1>6 DEF RelauncherStep, AwaitDoctor, Revalidate, Quit, AwaitQuit, OpenApp,
     AwaitApp, OpenThread
<1>7. ~(\E i \in Incidents : Expire(i)) /\ ~Disable /\ ~AppQuits /\ ~UserQuits /\ ~UserStarts
  BY DEF Expire, Disable, AppQuits, UserQuits, UserStarts
<1> QED
  BY <1>1, <1>2, <1>3, <1>4, <1>5, <1>6, <1>7 DEF Next, DoctorStep

\* No late doctor, relauncher or heartbeat gives a closed incident another state.
THEOREM ConclusionsAreFinal == Spec => ConclusionIsFinal
<1> DEFINE Final == \A i \in Incidents : state[i] \in Terminal => state'[i] = state[i]
<1>1. BInv /\ [Next]_vars => [Final]_vars
  <2> SUFFICES ASSUME BInv, Next, state' # state PROVE Final
    OBVIOUS
  <2>1. PICK d \in Doctors :
           \/ CreateOrReuse(d) \/ PrepareIncident(d) \/ BlockIncident(d)
           \/ Conclude(d) \/ Commit(d) \/ Block(d)
    BY Transitions
  <2> USE DEF BInv, TypeOK, Terminal, Becomes, InState, recordVars
  <2>2. CASE CreateOrReuse(d) \/ PrepareIncident(d)
    BY <2>2 DEF CreateOrReuse, PrepareIncident, MayPrepare
  <2>3. CASE BlockIncident(d) \/ Conclude(d)
    BY <2>3 DEF BlockIncident, Conclude
  <2>4. CASE Commit(d) \/ Block(d)
    BY <2>4 DEF Commit, Block, Settle
  <2> QED
    BY <2>1, <2>2, <2>3, <2>4
<1>2. Spec => [][Final]_vars
  BY <1>1, BridgeInvariance, PTL DEF Spec
<1> QED
  BY <1>2 DEF ConclusionIsFinal

\* An incident is opened only by a command that has repaired nothing.
THEOREM RepairsPrecedeRestarts == Spec => RepairsComeFirst
<1> DEFINE Unrepaired ==
      \A i \in Incidents :
        state[i] = "none" /\ state'[i] # "none" =>
          \E d \in Doctors \ repaired : pc[d] = "create" /\ scope'[i] = task[d]
<1>1. BInv /\ [Next]_vars => [Unrepaired]_vars
  <2> SUFFICES ASSUME BInv, Next, NEW i \in Incidents, state[i] = "none",
                      state'[i] # "none"
               PROVE  \E d \in Doctors \ repaired : pc[d] = "create" /\ scope'[i] = task[d]
    OBVIOUS
  <2>1. PICK d \in Doctors :
           \/ CreateOrReuse(d) \/ PrepareIncident(d) \/ BlockIncident(d)
           \/ Conclude(d) \/ Commit(d) \/ Block(d)
    BY Transitions
  <2> USE DEF BInv, TypeOK, Becomes, InState, recordVars
  <2>2. ~PrepareIncident(d) /\ ~BlockIncident(d) /\ ~Conclude(d)
    BY DEF PrepareIncident, MayPrepare, BlockIncident, Conclude
  <2>3. ~Commit(d) /\ ~Block(d)
    BY DEF Commit, Block, Settle
  <2>4. CreateOrReuse(d)
    BY <2>1, <2>2, <2>3
  <2>5. pc[d] = "create" /\ d \notin repaired
    BY <2>4 DEF CreateOrReuse, WorkIsValid
  <2>6. scope'[i] = task[d]
    BY <2>4 DEF CreateOrReuse
  <2> QED
    BY <2>5, <2>6
<1>2. Spec => [][Unrepaired]_vars
  BY <1>1, BridgeInvariance, PTL DEF Spec
<1> QED
  BY <1>2 DEF RepairsComeFirst
=============================================================================
