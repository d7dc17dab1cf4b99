------------------------------- MODULE Opener -------------------------------
(***************************************************************************)
(* open-codex-project-in-intellij and the coordinator it calls             *)
(* (workspace_harbor_opener_queue.py): several opener processes, each      *)
(* asking IntelliJ to open one canonical worktree root.                    *)
(*                                                                         *)
(* Two layers of durable state coordinate them: one operation record per   *)
(* root (the single flight) and one launch queue for all of them.  Every   *)
(* critical section of the coordinator runs under flock and ends with one  *)
(* os.replace or unlink, so it is one atomic step here; everything else of *)
(* the script interleaves.  A process may be killed at any point (its      *)
(* coordinator child then keeps polling as an orphan), or interrupted (the *)
(* shell's traps then clean up).  The legacy directory lock is migrated    *)
(* outside any lock, one system call at a time.                            *)
(***************************************************************************)
EXTENDS Naturals

CONSTANTS
  Openers,       \* opener processes; one is one (request id, pid, start time)
  Roots,         \* canonical worktree roots
  RootOf,        \* the root each opener was started for
  None,          \* no owner
  LegacyStates,  \* what opener.lock may be when the first opener starts
  UserRoots,     \* roots whose windows a user or the reaper opens and closes
  MaxSequence    \* bound: orphans stop re-enqueueing at this sequence

ASSUME OpenerAssumption ==
  /\ None \notin Openers
  /\ RootOf \in [Openers -> Roots]
  /\ LegacyStates \subseteq {"absent", "dead", "live"}
  /\ UserRoots \subseteq Roots
  /\ MaxSequence \in Nat

VARIABLES
  pc,            \* where each opener's script is
  outcome,       \* "pending", then how the script ended
  orphan,        \* the coordinator command a killed opener left running
  operation,     \* operations/<digest>.json: the owner of each root, or None
  owner,         \* launch-queue.json "owner", or None
  ticket,        \* "sequence" of an opener's entry (waiting or owner), 0: none
  nextSequence,  \* launch-queue.json "next_sequence"
  legacy,        \* opener.lock: "absent", "empty", "dead" or "live" owner
  ide,           \* the IntelliJ window of each root: "ready" once it has answered
  asked,         \* the openers that sent a request for the root's current window
  doubted        \* the openers that asked although the window was "ready"

queueVars == <<owner, ticket, nextSequence>>
requests == <<asked, doubted>>
vars == <<pc, outcome, orphan, operation, queueVars, legacy, ide, requests>>

\* Stages of the script before it holds the operation record,
Uncoordinated ==
  {"start", "migrate", "migrateList", "migrateRead", "migrateUnlink",
   "migrateRmdir", "migrateSleep", "operationPoll", "operationJoined"}
\* while it holds the launch claim,
Launching == {"recheckLaunch", "trust", "recheckTrust", "open", "opened"}
\* and from the grant of the operation to its release.
Coordinated ==
  {"operationGranted", "recheckOperation", "launchPoll", "await",
    "register", "cleanLaunch", "cleanOperation"} \cup Launching
Stages == Uncoordinated \cup Coordinated \cup {"done"}

Outcomes ==
  {"pending", "ready", "failed", "operational-failure", "interrupted", "killed"}

TypeOK ==
  /\ pc \in [Openers -> Stages]
  /\ outcome \in [Openers -> Outcomes]
  /\ orphan \in [Openers -> {"none", "operation", "launch"}]
  /\ operation \in [Roots -> Openers \cup {None}]
  /\ owner \in Openers \cup {None}
  /\ ticket \in [Openers -> Nat]
  /\ nextSequence \in Nat \ {0}
  /\ legacy \in {"absent", "empty", "dead", "live"}
  /\ ide \in [Roots -> {"absent", "opening", "ready"}]
  /\ asked \in [Roots -> SUBSET Openers]
  /\ doubted \subseteq Openers

Init ==
  /\ pc = [p \in Openers |-> "start"]
  /\ outcome = [p \in Openers |-> "pending"]
  /\ orphan = [p \in Openers |-> "none"]
  /\ operation = [r \in Roots |-> None]
  /\ owner = None
  /\ ticket = [p \in Openers |-> 0]
  /\ nextSequence = 1
  /\ legacy \in LegacyStates
  /\ ide = [r \in Roots |-> "absent"]
  /\ asked = [r \in Roots |-> {}]
  /\ doubted = {}

-----------------------------------------------------------------------------
(* The coordinator.  A record is live while its process runs.              *)

Live(p) == pc[p] # "done"
\* Mutation: records of dead owners are never reclaimed.
BugIsLive(record) == record # None
IsLive(record) == record # None /\ Live(record)

\* acquire_operation, one pass under the root's lock: whether p may write its
\* record (or already has it), and the write.
\* Mutation: the existing record is overwritten without looking at its owner.
BugMayOwn(p) == TRUE
MayOwn(p) == ~IsLive(operation[RootOf[p]]) \/ operation[RootOf[p]] = p
AcquireOperation(p) == operation' = [operation EXCEPT ![RootOf[p]] = p]

\* _prune_dead_queue_entries, on the owner and on the entry of q.
HeldBy == IF IsLive(owner) THEN owner ELSE None
Kept(q) == IF Live(q) THEN ticket[q] ELSE 0

\* acquire_launch, one pass under the queue lock: p enlists unless it owns the
\* launch or is in line; it takes the launch when it is free and p comes first.
Enlists(p) == HeldBy # p /\ Kept(p) = 0
Entry(p, q) == IF q = p /\ Enlists(p) THEN nextSequence ELSE Kept(q)
\* Mutations: whoever finds the launch free takes it; whoever has a place in
\* line takes it.
BugMayLaunch(p) == HeldBy \in {p, None}
BugMayLaunchInLine(p) == Entry(p, p) > 0
MayLaunch(p) ==
  \/ HeldBy = p
  \/ /\ HeldBy = None
     /\ \A q \in Openers : Entry(p, q) > 0 => Entry(p, p) <= Entry(p, q)

\* Mutation: next_sequence is not advanced.
BugAcquireLaunch(p) ==
  /\ ticket' = [q \in Openers |-> Entry(p, q)]
  /\ owner' = IF MayLaunch(p) THEN p ELSE HeldBy
  /\ UNCHANGED nextSequence

AcquireLaunch(p) ==
  /\ ticket' = [q \in Openers |-> Entry(p, q)]
  /\ owner' = IF MayLaunch(p) THEN p ELSE HeldBy
  /\ nextSequence' = IF Enlists(p) THEN nextSequence + 1 ELSE nextSequence

\* Mutations of release_launch: an entry in line is left behind; the sequence
\* number is given back.
BugReleaseOwnerOnly(p) ==
  /\ owner' = IF owner = p THEN None ELSE owner
  /\ ticket' = IF owner = p THEN [ticket EXCEPT ![p] = 0] ELSE ticket
  /\ UNCHANGED nextSequence

\* release_launch: p's entry goes, wherever it is.
ReleaseLaunch(p) ==
  /\ owner' = IF owner = p THEN None ELSE owner
  /\ ticket' = [ticket EXCEPT ![p] = 0]
  /\ UNCHANGED nextSequence

\* Mutation: records are removed without matching the identity.
BugReleaseOperations(p) == operation' = [r \in Roots |-> None]

\* The second part of release_all: every operation record of p.
ReleaseOperations(p) ==
  operation' = [r \in Roots |-> IF operation[r] = p THEN None ELSE operation[r]]

-----------------------------------------------------------------------------
(* The script.                                                             *)

Goto(p, from, to) ==
  /\ pc[p] = from
  /\ pc' = [pc EXCEPT ![p] = to]

\* The script ends with this classification: its EXIT trap cleans up if the
\* operation was acquired.
Finish(p, from, result) ==
  /\ Goto(p, from, IF from \in Uncoordinated THEN "done" ELSE "cleanLaunch")
  /\ outcome' = [outcome EXCEPT ![p] = result]

\* is_ready_in_intellij says yes only of a window whose exact-root service runs
\* and whose model is ready.  It says no at any time: a call of it that times out
\* or fails is a no, and a window that was ready may not answer for a while.
IsReady(p) == ide[RootOf[p]] = "ready"

scriptOnly == <<orphan, operation, queueVars, legacy, ide, requests>>

\* update_reaper_registry touch: an unmanaged root is fine, an unconfirmed
\* window is not.
AlreadyReady(p, from) ==
  /\ IsReady(p)
  /\ \E result \in {"ready", "failed"} : Finish(p, from, result)
  /\ UNCHANGED scriptOnly

NotReady(p, from, to) ==
  /\ Goto(p, from, to)
  /\ UNCHANGED <<scriptOnly, outcome>>

\* Dependency preparation never blocks; then the already-open shortcut.
Start(p) == AlreadyReady(p, "start") \/ NotReady(p, "start", "migrate")

\* migrate_legacy_lock: exists(); iterdir(); validate and read the owner file;
\* unlink it; rmdir.  A path that is gone by then is an OSError.
MigrateExists(p) ==
  /\ Goto(p, "migrate", IF legacy = "absent" THEN "operationPoll" ELSE "migrateList")
  /\ UNCHANGED <<scriptOnly, outcome>>

MigrateList(p) ==
  /\ \/ legacy = "absent" /\ Finish(p, "migrateList", "operational-failure")
     \/ legacy = "empty" /\ Finish(p, "migrateList", "failed")
     \/ /\ legacy \in {"dead", "live"}
        /\ Goto(p, "migrateList", "migrateRead")
        /\ UNCHANGED outcome
  /\ UNCHANGED scriptOnly

\* Mutation: a live legacy owner is not told from a dead one.
BugMigrateRead(p) ==
  /\ \/ legacy \in {"absent", "empty"} /\ Finish(p, "migrateRead", "operational-failure")
     \/ /\ legacy \in {"dead", "live"}
        /\ Goto(p, "migrateRead", "migrateUnlink")
        /\ UNCHANGED outcome
  /\ UNCHANGED scriptOnly

MigrateRead(p) ==
  /\ \/ legacy \in {"absent", "empty"} /\ Finish(p, "migrateRead", "operational-failure")
     \/ /\ legacy = "dead"
        /\ Goto(p, "migrateRead", "migrateUnlink")
        /\ UNCHANGED outcome
     \/ /\ legacy = "live"
        /\ Goto(p, "migrateRead", "migrateSleep")
        /\ UNCHANGED outcome
  /\ UNCHANGED scriptOnly

MigrateUnlink(p) ==
  /\ \/ /\ legacy = "dead"
        /\ Goto(p, "migrateUnlink", "migrateRmdir")
        /\ legacy' = "empty"
        /\ UNCHANGED outcome
     \/ /\ legacy # "dead"
        /\ Finish(p, "migrateUnlink", "operational-failure")
        /\ UNCHANGED legacy
  /\ UNCHANGED <<orphan, operation, queueVars, ide, requests>>

MigrateRmdir(p) ==
  /\ Goto(p, "migrateRmdir", "operationPoll")
  /\ legacy' = "absent"
  /\ UNCHANGED <<outcome, orphan, operation, queueVars, ide, requests>>

\* A live legacy owner is waited for.
MigrateWait(p) ==
  /\ Goto(p, "migrateSleep", "migrate")
  /\ UNCHANGED <<scriptOnly, outcome>>

\* operation-acquire: one pass; a refused one joins the open in progress and
\* tries again.
OperationPoll(p) ==
  /\ \E from \in {"operationPoll", "operationJoined"} :
       \/ /\ MayOwn(p)
          /\ AcquireOperation(p)
          /\ Goto(p, from, "operationGranted")
       \/ /\ ~MayOwn(p)
          /\ Goto(p, from, "operationJoined")
          /\ UNCHANGED operation
  /\ UNCHANGED <<outcome, orphan, queueVars, legacy, ide, requests>>

\* coordinator_active=true: only from here on do the traps release anything.
OperationActive(p) ==
  /\ Goto(p, "operationGranted", "recheckOperation")
  /\ UNCHANGED <<scriptOnly, outcome>>

RecheckOperation(p) ==
  AlreadyReady(p, "recheckOperation") \/ NotReady(p, "recheckOperation", "launchPoll")

\* launch-acquire: one pass; a refused one waits in line and tries again.
LaunchPoll(p) ==
  /\ AcquireLaunch(p)
  /\ Goto(p, "launchPoll", IF MayLaunch(p) THEN "recheckLaunch" ELSE "launchPoll")
  /\ UNCHANGED <<outcome, orphan, operation, legacy, ide, requests>>

RecheckLaunch(p) ==
  AlreadyReady(p, "recheckLaunch") \/ NotReady(p, "recheckLaunch", "trust")

\* ensure_project_trusted within launch_command_budget: no budget, no trust.
Trust(p) ==
  /\ \/ Goto(p, "trust", "recheckTrust") /\ UNCHANGED outcome
     \/ Finish(p, "trust", "failed")
  /\ UNCHANGED scriptOnly

\* The last look before the request.
RecheckTrust(p) ==
  \/ AlreadyReady(p, "recheckTrust")
  \/ /\ Goto(p, "recheckTrust", "open")
     /\ doubted' = IF IsReady(p) THEN doubted \cup {p} ELSE doubted
     /\ UNCHANGED <<outcome, orphan, operation, queueVars, legacy, ide, asked>>

\* open_new_intellij_window: the exit status of `open' is ignored, so the
\* request may or may not have reached IntelliJ; no budget, no request.
Open(p) ==
  LET r == RootOf[p] IN
  \/ /\ Goto(p, "open", "opened")
     /\ asked' = [asked EXCEPT ![r] = @ \cup {p}]
     /\ \/ ide' = [ide EXCEPT ![r] = IF @ = "absent" THEN "opening" ELSE @]
        \/ UNCHANGED ide
     /\ UNCHANGED <<outcome, orphan, operation, queueVars, legacy, doubted>>
  \/ /\ Finish(p, "open", "failed")
     /\ UNCHANGED scriptOnly

\* Mutation: release-all is called once the window was requested.
BugLeaveQueue(p) ==
  /\ Goto(p, "opened", "await")
  /\ ReleaseLaunch(p)
  /\ ReleaseOperations(p)
  /\ UNCHANGED <<outcome, orphan, legacy, ide, requests>>

\* release_launch_claim: the queue moves on while p waits for readiness.  A
\* launch-release that fails is reported; its exit status is read after the `if',
\* where it is 0, so the script goes on with the claim in hand.  The early end
\* that set -e would give any other status is allowed as well.
LeaveQueue(p) ==
  /\ \/ Goto(p, "opened", "await") /\ ReleaseLaunch(p) /\ UNCHANGED outcome
     \/ Goto(p, "opened", "await") /\ UNCHANGED <<queueVars, outcome>>
     \/ Finish(p, "opened", "failed") /\ UNCHANGED queueVars
  /\ UNCHANGED <<orphan, operation, legacy, ide, requests>>

\* wait_for_serena_service: a probe that finds the root ready,
Await(p) ==
  /\ IsReady(p)
  /\ Goto(p, "await", "register")
  /\ UNCHANGED <<outcome, scriptOnly>>

\* or the earlier of its own timeout and the overall deadline, without a last look.
ReadinessDeadline(p) ==
  /\ Finish(p, "await", "failed")
  /\ UNCHANGED scriptOnly

\* update_reaper_registry register.
Register(p) ==
  /\ \E result \in {"ready", "failed"} : Finish(p, "register", result)
  /\ UNCHANGED scriptOnly

\* cleanup_coordination: launch-release, then release-all, which leaves the queue
\* again before it looks at the operations.  Their failures are ignored: when
\* neither leaves the queue, release-all ends there and the operation stays too.
CleanLaunch(p) ==
  /\ \/ Goto(p, "cleanLaunch", "cleanOperation") /\ ReleaseLaunch(p)
     \/ Goto(p, "cleanLaunch", "done") /\ UNCHANGED queueVars
  /\ UNCHANGED <<outcome, orphan, operation, legacy, ide, requests>>

CleanOperation(p) ==
  /\ Goto(p, "cleanOperation", "done")
  /\ ReleaseOperations(p) \/ UNCHANGED operation
  /\ UNCHANGED <<outcome, orphan, queueVars, legacy, ide, requests>>

-----------------------------------------------------------------------------
(* What happens to an opener.                                              *)

\* The overall deadline has passed when a refused pass looks at it.  The pass
\* came first: a request whose turn it is takes it, however late.
Deadline(p) ==
  /\ \/ \E from \in {"migrateSleep", "operationJoined"} : Finish(p, from, "failed")
     \/ ticket[p] > 0 /\ Finish(p, "launchPoll", "failed")
  /\ UNCHANGED scriptOnly

\* The `ps' probe of some record fails or times out: the pass raises before it
\* writes anything.
ProbeFails(p) ==
  /\ \E from \in {"operationPoll", "operationJoined", "launchPoll"} :
       Finish(p, from, "failed")
  /\ UNCHANGED scriptOnly

\* INT, TERM or HUP: the trap releases what coordinator_active covers.
Interrupt(p) ==
  /\ Live(p)
  /\ pc[p] \notin {"cleanLaunch", "cleanOperation"}
  /\ pc' = [pc EXCEPT ![p] =
              IF @ \in Uncoordinated \cup {"operationGranted"} THEN "done" ELSE "cleanLaunch"]
  /\ outcome' = [outcome EXCEPT ![p] = "interrupted"]
  /\ UNCHANGED scriptOnly

\* SIGKILL: no trap runs; a coordinator child that was polling goes on alone.
Kill(p) ==
  /\ Live(p)
  /\ pc' = [pc EXCEPT ![p] = "done"]
  /\ outcome' = [outcome EXCEPT ![p] = "killed"]
  /\ orphan' = [orphan EXCEPT ![p] =
                  CASE pc[p] \in {"operationPoll", "operationJoined"} -> "operation"
                    [] pc[p] = "launchPoll" -> "launch"
                    [] OTHER -> "none"]
  /\ UNCHANGED <<operation, queueVars, legacy, ide, requests>>

\* The child validated its owner once, when it started: it acquires for the
\* dead opener all the same.  Its own entry is pruned, so it enlists anew at
\* every pass.
OrphanPoll(p) ==
  \/ /\ orphan[p] = "operation"
     /\ ~IsLive(operation[RootOf[p]])
     /\ AcquireOperation(p)
     /\ orphan' = [orphan EXCEPT ![p] = "none"]
     /\ UNCHANGED <<pc, outcome, queueVars, legacy, ide, requests>>
  \/ /\ orphan[p] = "launch"
     /\ nextSequence <= MaxSequence
     /\ AcquireLaunch(p)
     /\ orphan' = [orphan EXCEPT ![p] = IF MayLaunch(p) THEN "none" ELSE "launch"]
     /\ UNCHANGED <<pc, outcome, operation, legacy, ide, requests>>

\* Its deadline ends the orphan.
OrphanEnds(p) ==
  /\ orphan[p] # "none"
  /\ orphan' = [orphan EXCEPT ![p] = "none"]
  /\ UNCHANGED <<pc, outcome, operation, queueVars, legacy, ide, requests>>

-----------------------------------------------------------------------------
(* The environment: an opener of the previous version, IntelliJ, a user.   *)

\* It releases its directory, or dies and leaves it.
LegacyOwnerExits ==
  /\ legacy = "live"
  /\ legacy' \in {"absent", "dead"}
  /\ UNCHANGED <<pc, outcome, orphan, operation, queueVars, ide, requests>>

\* Indexing finished and the Serena service of the root answers.
BecomesReady(r) ==
  /\ ide[r] = "opening"
  /\ ide' = [ide EXCEPT ![r] = "ready"]
  /\ UNCHANGED <<pc, outcome, orphan, operation, queueVars, legacy, requests>>

UserOpens(r) ==
  /\ r \in UserRoots
  /\ ide[r] = "absent"
  /\ ide' = [ide EXCEPT ![r] = "opening"]
  /\ UNCHANGED <<pc, outcome, orphan, operation, queueVars, legacy, requests>>

WindowCloses(r) ==
  /\ r \in UserRoots
  /\ ide[r] # "absent"
  /\ ide' = [ide EXCEPT ![r] = "absent"]
  /\ asked' = [asked EXCEPT ![r] = {}]
  /\ UNCHANGED <<pc, outcome, orphan, operation, queueVars, legacy, doubted>>

-----------------------------------------------------------------------------
Migrate(p) ==
  \/ MigrateExists(p) \/ MigrateList(p) \/ MigrateRead(p)
  \/ MigrateUnlink(p) \/ MigrateRmdir(p) \/ MigrateWait(p)

Coordinate(p) ==
  OperationPoll(p) \/ OperationActive(p) \/ RecheckOperation(p) \/ LaunchPoll(p)

LaunchSteps(p) ==
  \/ RecheckLaunch(p) \/ Trust(p) \/ RecheckTrust(p) \/ Open(p) \/ LeaveQueue(p)

FinishSteps(p) ==
  \/ Await(p) \/ Register(p) \/ CleanLaunch(p) \/ CleanOperation(p)

\* One step of the script of p.
Script(p) == Start(p) \/ Migrate(p) \/ Coordinate(p) \/ LaunchSteps(p) \/ FinishSteps(p)

Disturb(p) ==
  \/ Deadline(p) \/ ReadinessDeadline(p) \/ ProbeFails(p)
  \/ Interrupt(p) \/ Kill(p) \/ OrphanPoll(p) \/ OrphanEnds(p)

Environment ==
  \/ LegacyOwnerExits
  \/ \E r \in Roots : BecomesReady(r) \/ UserOpens(r) \/ WindowCloses(r)

Terminated == (\A p \in Openers : ~Live(p)) /\ UNCHANGED vars

Next == (\E p \in Openers : Script(p) \/ Disturb(p)) \/ Environment \/ Terminated

Spec == Init /\ [][Next]_vars

-----------------------------------------------------------------------------
(* Properties.                                                             *)

\* "The global launch critical sections do not overlap": trust and the open
\* request of two live openers never interleave, whoever was killed before.
LaunchExclusion ==
  \A p, q \in Openers : p # q => ~(pc[p] \in Launching /\ pc[q] \in Launching)

\* The canonical root is the single-flight boundary: from the grant of its
\* operation to the release no second opener of the root gets past it.
SingleFlight ==
  \A p, q \in Openers :
    p # q /\ RootOf[p] = RootOf[q] => ~(pc[p] \in Coordinated /\ pc[q] \in Coordinated)

\* launch-queue.json always passes _load_queue_state: sequences are distinct,
\* and the next one is above them all, so the list it appends to stays sorted.
QueueFileValid ==
  /\ \A p \in Openers : ticket[p] < nextSequence
  /\ \A p, q \in Openers : p # q /\ ticket[p] > 0 => ticket[p] # ticket[q]
  /\ owner # None => ticket[owner] > 0

\* A window is asked for once.  Of two openers that asked for the same one, one
\* failed or died, or asked because its last look missed that it was ready:
\* followers wait, however the window, the queue and the deaths interleave.
Excused(p) == p \in doubted \/ outcome[p] \notin {"pending", "ready"}
OneOpenRequestPerAttempt ==
  \A r \in Roots : \A p, q \in asked[r] : p # q => Excused(p) \/ Excused(q)

\* What an opener wrote is its own while it runs: no step of another process,
\* its cleanup included, removes or renumbers it.
OthersRecordsKept ==
  [][\A p \in Openers : Live(p) /\ pc'[p] = pc[p] =>
       /\ owner = p => owner' = p
       /\ ticket[p] > 0 => ticket'[p] = ticket[p]
       /\ operation[RootOf[p]] = p => operation'[RootOf[p]] = p]_vars

\* The queue among live processes is a first-come first-served lock: a request
\* that arrived later never launches first, and the dead hold nobody up.
InLine == {p \in Openers : Live(p) /\ ticket[p] > 0 /\ owner # p}
Ahead == [p \in Openers |->
            IF p \in InLine THEN {q \in InLine : ticket[q] < ticket[p]} ELSE {}]
Fifo == INSTANCE FifoLock WITH
          Clients <- Openers, holder <- HeldBy, waiting <- InLine, ahead <- Ahead
ImplementsFifoLock == Fifo!FifoSpec

\* While an opener of the previous version holds opener.lock, no new opener gets
\* past the migration: none removes its directory or coordinates beside it.
LegacyOwnerKeepsOut ==
  legacy = "live" => \A p \in Openers :
    pc[p] \in {"start", "migrate", "migrateList", "migrateRead", "migrateSleep", "done"}

-----------------------------------------------------------------------------
(* Liveness.                                                               *)

\* Every process is scheduled, the readiness wait is bounded by its timeout and
\* the previous version's opener ends.  The overall deadline may never pass.
FairSpec ==
  /\ Spec
  /\ \A p \in Openers : WF_vars(Script(p)) /\ WF_vars(ReadinessDeadline(p))
  /\ WF_vars(LegacyOwnerExits)

\* Every invocation ends without its overall deadline: nobody waits on anybody
\* for ever, a follower whose leader died takes over, and a queued request
\* launches although owners before it are killed and their orphans enlist again.
EveryRequestIsAnswered == <>(\A p \in Openers : pc[p] = "done")
=============================================================================
