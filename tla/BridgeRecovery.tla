--------------------------- MODULE BridgeRecovery ---------------------------
(***************************************************************************)
(* serena-bridge-doctor, its incidents and the detached Codex relauncher:  *)
(* a task that misses its tools is diagnosed, layers below are repaired,   *)
(* and as a last step the Codex app is restarted once and the task resumed *)
(* by a heartbeat.                                                         *)
(*                                                                         *)
(* Every command is a process.  Incidents are changed under a lock, by     *)
(* transitions that state what they expect; attestations, checkpoints and  *)
(* the policy are files written atomically and read without a lock; the    *)
(* app may quit or be started by its user at any time.                     *)
(***************************************************************************)
EXTENDS Naturals, FiniteSets

CONSTANTS
  Doctors,   \* processes of serena-bridge-doctor, each with its relauncher
  Tasks,     \* a Codex thread and the root it works on
  Incidents, \* records of incidents that may be created
  MaxEvents, \* bound: incidents created and times the user quits the app
  MayKill,   \* whether processes are killed
  None       \* no task, no incident

ASSUME BridgeAssumption ==
  /\ None \notin Tasks \cup Incidents
  /\ MaxEvents \in Nat
  /\ MayKill \in BOOLEAN

VARIABLES
  state,      \* state of each incident's record; "none": not created
  scope,      \* the task of each incident
  dogfood,    \* the incidents prepared with --dogfood
  attested,   \* the restart attestation of each incident, and its age
  heartbeat,  \* the one-shot heartbeat for each incident
  checkpoint, \* the app in the checkpoint of each incident, 0: none
  automatic,  \* restart policy: automatic_codex_restart
  app,        \* the running Codex app: a number for each start, 0: none
  started,    \* starts of the app so far
  asked,      \* the app that has been asked to quit, 0: none
  userQuits,  \* times the user has quit it
  pc,         \* where each doctor is
  task,       \* the task it was called for
  incident,   \* the incident it, or its relauncher, is about
  repaired,   \* doctors that have changed a lower layer
  trial,      \* doctors called with --dogfood
  identity,   \* the app a doctor has identified
  relauncher, \* where the relauncher of each doctor is
  restarts,   \* history: quit requests for each incident
  killed      \* history: incidents whose doctor or relauncher was killed

recordVars == <<state, scope, dogfood>>
fileVars == <<attested, heartbeat, checkpoint, automatic>>
appVars == <<app, started, asked, userQuits>>
doctorVars == <<pc, task, incident, repaired, trial, identity>>
historyVars == <<restarts, killed>>
vars == <<recordVars, fileVars, appVars, doctorVars, relauncher, historyVars>>

Terminal == {"closed-healthy", "closed-blocked", "closed-fresh-task-required"}
IncidentStates ==
  {"none", "restart-eligible", "restart-prepared", "resume-pending"} \cup Terminal
Stages ==
  {"idle", "project", "recover", "probe", "repair", "reprobe", "create", "attest",
   "validate", "policy", "identify", "prepare", "checkpoint", "launch", "block",
   "exit", "resume", "conclude", "enable"}
RelaunchStages ==
  {"none", "wait", "identify", "quit", "quitting", "open", "ready", "thread",
   "commit", "block"}

TypeOK ==
  /\ state \in [Incidents -> IncidentStates]
  /\ scope \in [Incidents -> Tasks \cup {None}]
  /\ dogfood \in SUBSET Incidents
  /\ attested \in [Incidents -> {"none", "fresh", "expired"}]
  /\ heartbeat \in [Incidents -> {"none", "scheduled", "fired"}]
  /\ checkpoint \in [Incidents -> 0..started]
  /\ automatic \in BOOLEAN
  /\ started \in Nat \ {0} /\ app \in {0, started} /\ asked \in 0..started
  /\ userQuits \in Nat
  /\ pc \in [Doctors -> Stages]
  /\ task \in [Doctors -> Tasks \cup {None}]
  /\ incident \in [Doctors -> Incidents \cup {None}]
  /\ repaired \in SUBSET Doctors /\ trial \in SUBSET Doctors
  /\ identity \in [Doctors -> 0..started]
  /\ relauncher \in [Doctors -> RelaunchStages]
  /\ restarts \in [Incidents -> Nat]
  /\ killed \in SUBSET Incidents

Init ==
  /\ state = [i \in Incidents |-> "none"]
  /\ scope = [i \in Incidents |-> None]
  /\ dogfood = {}
  /\ attested = [i \in Incidents |-> "none"]
  /\ heartbeat = [i \in Incidents |-> "none"]
  /\ checkpoint = [i \in Incidents |-> 0]
  /\ automatic = FALSE
  /\ app = 1 /\ started = 1 /\ asked = 0 /\ userQuits = 0
  /\ pc = [d \in Doctors |-> "idle"]
  /\ task = [d \in Doctors |-> None]
  /\ incident = [d \in Doctors |-> None]
  /\ repaired = {} /\ trial = {}
  /\ identity = [d \in Doctors |-> 0]
  /\ relauncher = [d \in Doctors |-> "none"]
  /\ restarts = [i \in Incidents |-> 0]
  /\ killed = {}

-----------------------------------------------------------------------------
(* Common parts.                                                           *)

Free(d) == pc[d] = "idle" /\ relauncher[d] = "none"
Goto(d, stage) == pc' = [pc EXCEPT ![d] = stage]

\* A command that ends forgets what it knew.
End(d) ==
  /\ Goto(d, "idle")
  /\ task' = [task EXCEPT ![d] = None]
  /\ incident' = [incident EXCEPT ![d] = None]
  /\ repaired' = repaired \ {d}
  /\ trial' = trial \ {d}
  /\ identity' = [identity EXCEPT ![d] = 0]

\* IncidentStore.transition, under the lock: only from the expected state.
\* Mutation: from any.
BugInState(i, expected) == state[i] # "none"
InState(i, expected) == state[i] = expected
Becomes(i, next) == state' = [state EXCEPT ![i] = next]

\* A command for task t loads incident i and goes on only if it is in the
\* expected state and belongs to the task.
Load(d, t, i, expected, stage) ==
  /\ Free(d)
  /\ InState(i, expected)
  /\ scope[i] = t
  /\ Goto(d, stage)
  /\ task' = [task EXCEPT ![d] = t]
  /\ incident' = [incident EXCEPT ![d] = i]

-----------------------------------------------------------------------------
(* recover.                                                                *)

\* The configuration is healthy (otherwise the command only reports).
Recover(d, t) ==
  /\ Free(d)
  /\ Goto(d, "project")
  /\ task' = [task EXCEPT ![d] = t]
  /\ UNCHANGED <<incident, repaired, trial, identity, recordVars, fileVars,
                 appVars, relauncher, historyVars>>

InspectProject(d) ==
  /\ pc[d] = "project"
  /\ \/ Goto(d, "probe")
     \/ Goto(d, "recover")
  /\ UNCHANGED <<task, incident, repaired, trial, identity, recordVars, fileVars,
                 appVars, relauncher, historyVars>>

\* serena-project-doctor --recover: the semantics are healthy again, or not.
RecoverProject(d) ==
  /\ pc[d] = "recover"
  /\ \/ /\ repaired' = repaired \cup {d}
        /\ Goto(d, "probe")
        /\ UNCHANGED <<task, incident, trial, identity>>
     \/ End(d)
  /\ UNCHANGED <<recordVars, fileVars, appVars, relauncher, historyVars>>

\* The handshake.  When it succeeds after a repair, that was the cure.
Cured(d) == d \in repaired

Probe(d) ==
  /\ pc[d] = "probe"
  /\ \/ /\ Goto(d, "repair")
        /\ UNCHANGED <<task, incident, repaired, trial, identity>>
     \/ /\ ~Cured(d)
        /\ Goto(d, "create")
        /\ UNCHANGED <<task, incident, repaired, trial, identity>>
     \/ Cured(d) /\ End(d)
  /\ UNCHANGED <<recordVars, fileVars, appVars, relauncher, historyVars>>

\* broker repair-root, and the handshake once more; no incident either way.
Repair(d) ==
  /\ pc[d] = "repair"
  /\ \/ /\ repaired' = repaired \cup {d}
        /\ Goto(d, "reprobe")
        /\ UNCHANGED <<task, incident, trial, identity>>
     \/ End(d)
  /\ UNCHANGED <<recordVars, fileVars, appVars, relauncher, historyVars>>

Reprobe(d) ==
  /\ pc[d] = "reprobe"
  /\ End(d)
  /\ UNCHANGED <<recordVars, fileVars, appVars, relauncher, historyVars>>

\* create_or_reuse_restart: an eligible incident of the task, or a new one.
Room == userQuits + Cardinality({i \in Incidents : state[i] # "none"}) < MaxEvents
Eligible(t) == {i \in Incidents : state[i] = "restart-eligible" /\ scope[i] = t}
CreateOrReuse(d) ==
  /\ pc[d] = "create"
  /\ \/ /\ Eligible(task[d]) # {}
        /\ UNCHANGED recordVars
     \/ /\ Eligible(task[d]) = {}
        /\ Room
        /\ \E i \in Incidents :
             /\ state[i] = "none"
             /\ Becomes(i, "restart-eligible")
             /\ scope' = [scope EXCEPT ![i] = task[d]]
             /\ UNCHANGED dogfood
     \/ /\ ~Room \/ \A i \in Incidents : state[i] # "none"
        /\ UNCHANGED recordVars
  /\ End(d)
  /\ UNCHANGED <<fileVars, appVars, relauncher, historyVars>>

-----------------------------------------------------------------------------
(* attest-restart.                                                         *)

\* The agent has created the heartbeat and seen no other task active.
Attest(d, t, i) ==
  /\ Load(d, t, i, "restart-eligible", "attest")
  /\ heartbeat' = [heartbeat EXCEPT ![i] = "scheduled"]
  /\ UNCHANGED <<repaired, trial, identity, recordVars, attested, checkpoint,
                 automatic, appVars, relauncher, historyVars>>

\* An attestation is good for thirty seconds, a heartbeat is due after thirty.
WriteAttestation(d) ==
  /\ pc[d] = "attest"
  /\ \/ /\ heartbeat[incident[d]] = "scheduled"
        /\ attested' = [attested EXCEPT ![incident[d]] = "fresh"]
     \/ attested' = [attested EXCEPT ![incident[d]] = "expired"]
  /\ End(d)
  /\ UNCHANGED <<recordVars, heartbeat, checkpoint, automatic, appVars,
                 relauncher, historyVars>>

Expire(i) ==
  /\ attested[i] = "fresh"
  /\ attested' = [attested EXCEPT ![i] = "expired"]
  /\ UNCHANGED <<recordVars, heartbeat, checkpoint, automatic, appVars,
                 doctorVars, relauncher, historyVars>>

-----------------------------------------------------------------------------
(* prepare-restart.                                                        *)

Prepare(d, t, i) ==
  /\ Load(d, t, i, "restart-eligible", "validate")
  /\ trial' \in {trial, trial \cup {d}}
  /\ UNCHANGED <<repaired, identity, recordVars, fileVars, appVars, relauncher,
                 historyVars>>

ValidateAttestation(d) ==
  /\ pc[d] = "validate"
  /\ \/ /\ attested[incident[d]] = "fresh"
        /\ Goto(d, "policy")
        /\ UNCHANGED <<task, incident, repaired, trial, identity>>
     \/ attested[incident[d]] # "fresh" /\ End(d)
  /\ UNCHANGED <<recordVars, fileVars, appVars, relauncher, historyVars>>

\* Mutation: the policy is not asked.
BugAllowed(d) == TRUE
Allowed(d) == d \in trial \/ automatic

CheckPolicy(d) ==
  /\ pc[d] = "policy"
  /\ \/ /\ Allowed(d)
        /\ Goto(d, "identify")
        /\ UNCHANGED <<task, incident, repaired, trial, identity>>
     \/ ~Allowed(d) /\ End(d)
  /\ UNCHANGED <<recordVars, fileVars, appVars, relauncher, historyVars>>

\* find_codex_app_identity: the one running app, or nothing certain.
Identify(d) ==
  /\ pc[d] = "identify"
  /\ \/ /\ app # 0
        /\ identity' = [identity EXCEPT ![d] = app]
        /\ Goto(d, "prepare")
        /\ UNCHANGED <<task, incident, repaired, trial>>
     \/ End(d)
  /\ UNCHANGED <<recordVars, fileVars, appVars, relauncher, historyVars>>

\* The state is compared again under the lock.
\* Mutation: it is not.
BugMayPrepare(i) == state[i] # "none"
MayPrepare(i) == InState(i, "restart-eligible")

PrepareIncident(d) ==
  LET i == incident[d] IN
  /\ pc[d] = "prepare"
  /\ \/ /\ MayPrepare(i)
        /\ Becomes(i, "restart-prepared")
        /\ dogfood' = (dogfood \ {i}) \cup {j \in {i} : d \in trial}
        /\ Goto(d, "checkpoint")
        /\ UNCHANGED <<task, incident, repaired, trial, identity, scope>>
     \/ /\ ~MayPrepare(i)
        /\ End(d)
        /\ UNCHANGED recordVars
  /\ UNCHANGED <<fileVars, appVars, relauncher, historyVars>>

\* What follows when the checkpoint or the launch fails.
\* Mutation: the doctor only exits.
BugOnFailure == "exit"
OnFailure == "block"

WriteCheckpoint(d) ==
  /\ pc[d] = "checkpoint"
  /\ \/ /\ checkpoint' = [checkpoint EXCEPT ![incident[d]] = identity[d]]
        /\ Goto(d, "launch")
     \/ Goto(d, OnFailure) /\ UNCHANGED checkpoint
  /\ UNCHANGED <<task, incident, repaired, trial, identity, recordVars, attested,
                 heartbeat, automatic, appVars, relauncher, historyVars>>

LaunchRelauncher(d) ==
  /\ pc[d] = "launch"
  /\ \/ /\ relauncher' = [relauncher EXCEPT ![d] = "wait"]
        /\ Goto(d, "exit")
     \/ Goto(d, OnFailure) /\ UNCHANGED relauncher
  /\ UNCHANGED <<task, incident, repaired, trial, identity, recordVars, fileVars,
                 appVars, historyVars>>

BlockIncident(d) ==
  LET i == incident[d] IN
  /\ pc[d] = "block"
  /\ \/ InState(i, "restart-prepared") /\ Becomes(i, "closed-blocked")
     \/ ~InState(i, "restart-prepared") /\ UNCHANGED state
  /\ End(d)
  /\ UNCHANGED <<scope, dogfood, fileVars, appVars, relauncher, historyVars>>

\* The relauncher keeps what it read of the checkpoint.
Exit(d) ==
  /\ pc[d] = "exit"
  /\ Goto(d, "idle")
  /\ UNCHANGED <<task, incident, repaired, trial, identity, recordVars, fileVars,
                 appVars, relauncher, historyVars>>

-----------------------------------------------------------------------------
(* resume, started by the heartbeat or by hand.                            *)

Resume(d, t, i) ==
  /\ Load(d, t, i, "resume-pending", "resume")
  /\ UNCHANGED <<repaired, trial, identity, recordVars, fileVars, appVars,
                 relauncher, historyVars>>

\* The heartbeat wakes the task, which runs resume: that goes on, or it finds the
\* incident in another state and only reports.
Fire(d, i) ==
  /\ heartbeat[i] = "scheduled"
  /\ attested[i] # "fresh"
  /\ app # 0
  /\ Free(d)
  /\ heartbeat' = [heartbeat EXCEPT ![i] = "fired"]
  /\ \/ /\ Load(d, scope[i], i, "resume-pending", "resume")
        /\ UNCHANGED <<repaired, trial, identity>>
     \/ ~InState(i, "resume-pending") /\ UNCHANGED doctorVars
  /\ UNCHANGED <<recordVars, attested, checkpoint, automatic, appVars, relauncher,
                 historyVars>>

\* Only in another app than the checkpoint's.
CheckRelaunched(d) ==
  /\ pc[d] = "resume"
  /\ \/ /\ app \notin {0, checkpoint[incident[d]]}
        /\ Goto(d, "conclude")
        /\ UNCHANGED <<task, incident, repaired, trial, identity>>
     \/ End(d)
  /\ UNCHANGED <<recordVars, fileVars, appVars, relauncher, historyVars>>

\* By the handshake and the tools the task reports.
Conclude(d) ==
  LET i == incident[d] IN
  /\ pc[d] = "conclude"
  /\ \/ /\ InState(i, "resume-pending")
        /\ \E outcome \in {"closed-healthy", "closed-fresh-task-required"} :
             Becomes(i, outcome)
     \/ ~InState(i, "resume-pending") /\ UNCHANGED state
  /\ End(d)
  /\ UNCHANGED <<scope, dogfood, fileVars, appVars, relauncher, historyVars>>

-----------------------------------------------------------------------------
(* restart-policy.                                                         *)

\* A trial that has restored the tools.
Proven(i) == state[i] = "closed-healthy" /\ i \in dogfood

CheckTrial(d, i) ==
  /\ Free(d)
  /\ Proven(i)
  /\ Goto(d, "enable")
  /\ UNCHANGED <<task, incident, repaired, trial, identity, recordVars, fileVars,
                 appVars, relauncher, historyVars>>

Enable(d) ==
  /\ pc[d] = "enable"
  /\ automatic' = TRUE
  /\ End(d)
  /\ UNCHANGED <<recordVars, attested, heartbeat, checkpoint, appVars, relauncher,
                 historyVars>>

Disable ==
  /\ automatic' = FALSE
  /\ automatic # automatic'
  /\ UNCHANGED <<recordVars, attested, heartbeat, checkpoint, appVars, doctorVars,
                 relauncher, historyVars>>

-----------------------------------------------------------------------------
(* The relauncher, for the app in its checkpoint.                          *)

Relaunch(d, stage) == relauncher' = [relauncher EXCEPT ![d] = stage]
Recorded(d) == checkpoint[incident[d]]

\* It waits for the doctor to exit.
AwaitDoctor(d) ==
  /\ relauncher[d] = "wait"
  /\ \/ pc[d] # "exit" /\ Relaunch(d, "identify")
     \/ pc[d] = "exit" /\ Relaunch(d, "block")
  /\ UNCHANGED <<recordVars, fileVars, appVars, doctorVars, historyVars>>

\* The recorded app runs; or it does not, and none does, as far as ps can tell.
Revalidate(d) ==
  /\ relauncher[d] = "identify"
  /\ \/ app = Recorded(d) /\ Relaunch(d, "quit")
     \/ app # 0 /\ Relaunch(d, "block")
     \/ Relaunch(d, "open")
  /\ UNCHANGED <<recordVars, fileVars, appVars, doctorVars, historyVars>>

\* "tell application ... to quit" reaches whichever app runs; it may do so although
\* the command fails or is not answered in time.
Quit(d) ==
  /\ relauncher[d] = "quit"
  /\ \/ /\ restarts' = [restarts EXCEPT ![incident[d]] = @ + 1]
        /\ asked' = app
        /\ Relaunch(d, "quitting") \/ Relaunch(d, "block")
     \/ Relaunch(d, "block") /\ UNCHANGED <<asked, restarts>>
  /\ UNCHANGED <<recordVars, fileVars, app, started, userQuits, doctorVars, killed>>

\* It waits until the recorded app is not seen any more.
AwaitQuit(d) ==
  /\ relauncher[d] = "quitting"
  /\ \/ Relaunch(d, "open")
     \/ Relaunch(d, "block")
  /\ UNCHANGED <<recordVars, fileVars, appVars, doctorVars, historyVars>>

\* A start of the app when none runs; otherwise it only comes to the front.
Starts == app' = started + 1 /\ started' = started + 1

OpenApp(d) ==
  /\ relauncher[d] = "open"
  /\ \/ app = 0 /\ Starts /\ Relaunch(d, "ready")
     \/ app # 0 /\ Relaunch(d, "ready") /\ UNCHANGED <<app, started>>
     \/ Relaunch(d, "block") /\ UNCHANGED <<app, started>>
  /\ UNCHANGED <<recordVars, fileVars, asked, userQuits, doctorVars, historyVars>>

\* Ready is an app that is not the recorded one.
\* Mutation: any app.
BugReady(d) == app # 0
Ready(d) == app \notin {0, Recorded(d)}

AwaitApp(d) ==
  /\ relauncher[d] = "ready"
  /\ \/ Ready(d) /\ Relaunch(d, "thread")
     \/ Relaunch(d, "block")
  /\ UNCHANGED <<recordVars, fileVars, appVars, doctorVars, historyVars>>

OpenThread(d) ==
  /\ relauncher[d] = "thread"
  /\ \/ Relaunch(d, "commit")
     \/ Relaunch(d, "block")
  /\ UNCHANGED <<recordVars, fileVars, appVars, doctorVars, historyVars>>

\* The incident awaits its resumption, or is blocked.
Settle(d, stage, next) ==
  LET i == incident[d] IN
  /\ relauncher[d] = stage
  /\ \/ InState(i, "restart-prepared") /\ Becomes(i, next)
     \/ ~InState(i, "restart-prepared") /\ UNCHANGED state
  /\ Relaunch(d, "none")
  /\ task' = [task EXCEPT ![d] = None]
  /\ incident' = [incident EXCEPT ![d] = None]
  /\ trial' = trial \ {d}
  /\ identity' = [identity EXCEPT ![d] = 0]
  /\ UNCHANGED <<pc, repaired, scope, dogfood, fileVars, appVars, historyVars>>
Commit(d) == Settle(d, "commit", "resume-pending")
Block(d) == Settle(d, "block", "closed-blocked")

-----------------------------------------------------------------------------
(* What surrounds them.                                                    *)

AppQuits ==
  /\ app # 0
  /\ app = asked
  /\ app' = 0 /\ asked' = 0
  /\ UNCHANGED <<recordVars, fileVars, started, userQuits, doctorVars,
                 relauncher, historyVars>>

UserQuits ==
  /\ app # 0
  /\ Room
  /\ userQuits' = userQuits + 1
  /\ app' = 0 /\ asked' = 0
  /\ UNCHANGED <<recordVars, fileVars, started, doctorVars, relauncher,
                 historyVars>>

UserStarts ==
  /\ app = 0
  /\ Starts
  /\ UNCHANGED <<recordVars, fileVars, asked, userQuits, doctorVars, relauncher,
                 historyVars>>

\* Killed between its transition and the launch, a doctor leaves the incident to
\* nobody; so does a killed relauncher.
KillDoctor(d) ==
  /\ MayKill
  /\ pc[d] \in {"checkpoint", "launch", "block"}
  /\ killed' = killed \cup {incident[d]}
  /\ End(d)
  /\ UNCHANGED <<recordVars, fileVars, appVars, relauncher, restarts>>

KillRelauncher(d) ==
  /\ MayKill
  /\ relauncher[d] # "none"
  /\ pc[d] = "idle"
  /\ killed' = killed \cup {incident[d]}
  /\ Relaunch(d, "none")
  /\ End(d)
  /\ UNCHANGED <<recordVars, fileVars, appVars, restarts>>

-----------------------------------------------------------------------------
Diagnose(d) ==
  \/ InspectProject(d) \/ RecoverProject(d) \/ Probe(d) \/ Repair(d) \/ Reprobe(d)
  \/ CreateOrReuse(d)
GuardedRestart(d) ==
  \/ WriteAttestation(d) \/ ValidateAttestation(d) \/ CheckPolicy(d) \/ Identify(d)
  \/ PrepareIncident(d) \/ WriteCheckpoint(d) \/ LaunchRelauncher(d)
  \/ BlockIncident(d) \/ Exit(d)
AfterRestart(d) == CheckRelaunched(d) \/ Conclude(d) \/ Enable(d)
DoctorStep(d) == Diagnose(d) \/ GuardedRestart(d) \/ AfterRestart(d)
RelauncherStep(d) ==
  \/ AwaitDoctor(d) \/ Revalidate(d) \/ Quit(d) \/ AwaitQuit(d) \/ OpenApp(d)
  \/ AwaitApp(d) \/ OpenThread(d) \/ Commit(d) \/ Block(d)
Command(d) ==
  \/ \E t \in Tasks : Recover(d, t)
  \/ \E t \in Tasks, i \in Incidents : Attest(d, t, i) \/ Prepare(d, t, i) \/ Resume(d, t, i)
  \/ \E i \in Incidents : Fire(d, i) \/ CheckTrial(d, i)

Next ==
  \/ \E d \in Doctors : Command(d) \/ DoctorStep(d) \/ RelauncherStep(d)
  \/ \E d \in Doctors : KillDoctor(d) \/ KillRelauncher(d)
  \/ \E i \in Incidents : Expire(i)
  \/ Disable \/ AppQuits \/ UserQuits \/ UserStarts

Spec == Init /\ [][Next]_vars

-----------------------------------------------------------------------------
(* Properties.                                                             *)

\* "attempted at most once per incident": whatever doctors and relaunchers run at
\* the same time, one quit is requested for an incident, and none for an
\* incident that has not been prepared.
OneRestartPerIncident ==
  \A i \in Incidents :
    restarts[i] <= IF state[i] \in {"none", "restart-eligible"} THEN 0 ELSE 1

\* "a delayed duplicate wakeup observes a closed incident": once it is closed, no
\* late doctor, relauncher or heartbeat gives an incident another state.
ConclusionIsFinal ==
  [][\A i \in Incidents : state[i] \in Terminal => state'[i] = state[i]]_vars

\* An incident is resumed, and its result taken for that of a restart, only after
\* the app of its checkpoint was replaced by another.
ResumedAfterRelaunch ==
  \A i \in Incidents :
    state[i] \in {"resume-pending", "closed-healthy", "closed-fresh-task-required"} =>
      checkpoint[i] \in 1..(started - 1)

\* Automatic restarts have been earned: an incident is prepared without --dogfood
\* only after another, prepared with it, was closed healthy.
AutomaticIsEarned ==
  \A i \in Incidents :
    /\ state[i] \in {"restart-prepared", "resume-pending", "closed-healthy",
                     "closed-fresh-task-required"}
    /\ i \notin dogfood
    => \E j \in Incidents \ {i} : Proven(j)

\* A command that has repaired a lower layer opens no incident: the task is asked
\* for its tools again first.
RepairsComeFirst ==
  [][\A i \in Incidents :
       state[i] = "none" /\ state'[i] # "none" =>
         \E d \in Doctors \ repaired : pc[d] = "create" /\ scope'[i] = task[d]]_vars

\* A prepared restart is somebody's: unless a process was killed on the way, a
\* doctor or its relauncher is there to end it.
PreparedIsAttended ==
  \A i \in Incidents :
    state[i] = "restart-prepared" /\ i \notin killed =>
      \E d \in Doctors :
        /\ incident[d] = i
        /\ pc[d] \in {"checkpoint", "launch", "block"} \/ relauncher[d] # "none"

\* "A failed attempt cannot schedule a second restart": no restart for a task one
\* of whose attempts has failed.
FailedAttemptIsFinal ==
  [][\A i, j \in Incidents :
       /\ i # j /\ scope[i] = scope[j]
       /\ restarts[i] > 0 /\ state[i] \in {"closed-blocked", "closed-fresh-task-required"}
       => restarts'[j] = restarts[j]]_vars
=============================================================================
