# Workspace Harbor in TLA+

Formal models of the programs of this repository that share state between
processes: what they do to each other's files, windows, services and dependencies when
their steps interleave, when they are killed, and when answers come late.
Every definition is translated from the code under `src/`, not from its
documentation; the documentation supplies the promises that the code is
checked against.  `PROJECT.json` maps each definition to its lines.

Check an instance with `tlc -config X.cfg MCX.tla`, and proofs with
`tlapm XProofs.tla`.

## 1. Inventory

All programs are in `src/bin/`, the plugin in
`src/src/main/java/com/monsky/workspaceharbor/lifecycle/`.  A *root* is the
canonical path of a worktree; it is the boundary of ownership everywhere.

| Component | State it keeps | Operations |
| --- | --- | --- |
| Opener coordinator `workspace_harbor_opener_queue.py` | `operations/<digest>.json` per root, `launch-queue.json`, the `opener.lock` directory of older versions | acquire and release an operation or the launch turn, prune the dead, migrate |
| Opener script `open-codex-project-in-intellij` | `coordinator_active`, `launch_active`, traps | probe, coordinate, trust, open, wait for readiness, register, bootstrap the dependencies |
| Worktree broker `serena-worktree-broker` | `services.json` (records, leases, `idle_since`), service processes and ports | connect (migrate, start, lease, proxy, release), status, leases, cleanup, repair-root |
| Project reaper `intellij-project-reaper` | `managed.json` | cleanup, recycle, restart-hung, register, touch, unregister, status |
| Lifecycle plugin (Java) | `closingRoots` (futures by root), its runtime file with port and token | projects, status, close, trust, health |
| Bridge recovery `serena-bridge-doctor`, `workspace_harbor_bridge.py`, `workspace_harbor_codex.py`, `workspace-harbor-codex-relauncher` | incidents, attestations, checkpoints, restart policy, journal files | handshake, append and recent, recover, attest, heartbeat-scheduled, prepare-restart, resume, policy |
| Bootstrap `workspace_harbor_bootstrap.py` | success record per worktree, decisions per repository, locks | status, run, decide |
| Project doctor `serena-project-doctor` | none of its own | audit, recover (open, recycle, restart-hung, retry) |
| Project trust `intellij-project-trust` | IntelliJ's trusted-locations XML | trust |
| Hybrid gateway `serena-hybrid-mcp`, `serena_hybrid_routing.py` | two child sessions | list and route tool calls |
| `serena-codex` | none | resolves a root, runs the broker |
| `deploy-workspace-harbor` | the installed files | replace them one by one |
| `workspace_harbor_ide.py` | none | HTTP calls to the plugin |

How they interact:

- An opener asks the plugin whether the root is open and ready, the
  coordinator for its turns, the reaper to register the window, and runs the
  bootstrap in a session of its own, bounded by a timeout.
- The broker runs the project doctor (so, the opener) before it starts a
  service of the jetbrains backend, and does so inside its one flock.
- The reaper asks the broker for leases and the plugin for windows, and posts
  closes to the plugin, which carries them out on the event thread, when it
  gets to it.
- The doctors call all of the others.  The relauncher outlives the doctor
  that launched it, and the app it restarts.

What is hard: flocks that cover one section and not the call around it;
state that is read, then a slow external call, then a write that relies on
it; requests that take effect after whoever asked has given up; processes
killed with `SIGKILL` while children live on; records of processes that are
gone; results that are delivered twice.  `PROJECT.json` lists the hazards
line by line.  What makes each component correct:

- **Opener**: launch sections exclude each other, first come first served;
  one opener per root is past the grant; the queue file never becomes
  unreadable; a window is asked for once; what an opener leaves behind holds
  nobody up; every request ends.
- **Broker**: one owner per root; a live session has its record and its
  lease; no process without a record and no port twice but where a broker died
  over it; commands leave what is in use alone; every connect ends.
- **Close endpoint**: one close at a time per root; a close takes no work
  away; every request is answered, and not with the result of a close that was
  asked for before it came.
- **Reaper**: a managed window stays managed until it is closed; a leased
  root's window is closed only if the lease could not be seen.
- **Bridge recovery**: one restart per incident; no resumption without a
  restart; a conclusion is final; automation only after a trial.
- **Bootstrap**: a record says what is installed; installers run one call at
  a time; a hit is read-only; custom commands run as approved.
- **Diagnosis**: a healthy verdict is earned, the journal has the verdict that
  was returned and loses no event without saying so, no probe is left running,
  every handshake ends; the journal's files are one bounded log whoever is killed
  over them.
- **Project recovery**: repairs are ordered by how much they disturb, and
  IntelliJ is signalled only when it is the process its doctor found hung.
- **Hybrid gateway**: a native read is asked for the same lines and findings
  as the inspection it replaces, and goes to no other back end.
- **Deployment** (planned): whatever is installed belongs to one version; a
  crash in the loop shows what remains.

## 2. Modules

| Module | Stands for |
| --- | --- |
| `FifoLock` | abstract: a first-come first-served lock whose clients may leave or die |
| `Opener` | the script's stages and the coordinator's commands; implements `FifoLock` |
| `Broker` | connect step by step and the short commands, with service processes |
| `CloseEndpoint` | `LifecycleHttpServer.closeProject` and `LifecycleService` |
| `Reaper` | the reaper's commands, openers that register, the IDE's late closes |
| `BridgeRecovery` | the bridge doctor's commands, the relauncher, the app and its user |
| `Bootstrap` | run and decide, with the installers and the user's edits |
| `EventLog` | abstract: a set of numbered lines that grows at its end and forgets from its beginning |
| `Journal` | `BridgeJournal`: append with its rotation, recent; implements `EventLog` |
| `Handshake` | `run_handshake` with its child broker, composed with `Journal` |
| `ProjectRecovery` | the project doctor's `recover_serena`, the reaper's `restart-hung`, IntelliJ |
| `HybridRouting` | the gateway's routing as operators |
| `MCx` | values of the constants of `x` for TLC |
| `xProofs` | the theorems about `x` (`BrokerProofs`: also those about `HybridRouting`) |

In all of them a process is an element of a constant set with a stage in
`pc`.  A section under a flock that ends in a single `os.replace` or `unlink`
is one step; everything else is cut where another process can come in between.
A kill may come at any stage where it leaves a trace, and takes away just
what the operating system does (flocks, memory), not what was written.
Variables that exist only for properties are marked "history".

### Opener

`operation`, `owner`, `ticket` and `nextSequence` are the two files (`ticket`
is the sequence number of an opener's entry, so the list is the set of
openers with one, in the order of the numbers), `legacy` the old lock, `ide`
the window of each root.  The coordinator's polls are `OperationPoll` and
`LaunchPoll`, which prune the dead as `_load_queue_state` and its callers do;
the six `Migrate` steps are single system calls, since the migration takes no
lock.  `Interrupt` runs the traps, `Kill` does not: the coordinator child of a
killed opener goes on polling (`orphan`) and may acquire for it.  A release may
fail, and the script goes on (`LeaveQueue`) or ends (`CleanLaunch`,
`CleanOperation`) all the same, with entry or record left for the next prune.
The readiness probe is not exact: each of its two calls reads a timeout as "no",
so any look may miss that a window is ready.  `asked` and `doubted` (history) are
the openers that asked for the window there is, and those of them whose last look
missed it.

### Broker

`disk` is `services.json`; `draft` the copy `connect` edits inside its long
section, lost when it is killed; `service`, `serves` and `port` are the
operating system's processes.  `spawned` and `orphans` (history) are the processes
the connect in the section has started, and those whose broker died there before
they were on file.  The section is `Enter` (sweep, migrate, check
the owner), `Start`, `Open` (the doctor), `Spawn`, `Identify`, `Await`,
`StartSecondary`, `Commit`; then `proxy` and `Release`.  Status, leases, cleanup,
repair-root are one step each under the same flock.

### Close endpoint

`closingRoots`, `attempt` (the future), `existing`; each access to the map,
to a future and to the IDE is a step.  `Conditions` are how the event thread
behaves: whether reads take longer than the adapter waits, and what the close
throws.  IntelliJ may veto a close: `LifecycleService` does not look at what
`closeAndDispose` returns, so the request is accepted and the window stays
(`EdtCloses`; `Carry` of `Reaper`).  `current` (history) are the requests that may
be told of a close.

### Reaper

`registry` is `managed.json` (time of the last registration or touch, 0: none),
`queue` the closes posted to the IDE, which carries them out at any later
time whether they are still awaited or not.  `inventory` and `records` are
what a cleanup has read before it decides.

### Bridge recovery

`state`, `scope`, `dogfood` are the incidents, changed only by transitions
that state what they expect; `attested`, `heartbeat`, `checkpoint`,
`automatic` the files; `app` numbers the starts of the Codex app, so that the
comparison of process identities is one of numbers.  Time is reduced to an
attestation being fresh or expired.  Other active tasks of the app are not
modelled: that there are none is what an attestation says.  A checkpoint
that cannot be read ends the relauncher as a kill does.

### Bootstrap

A *definition* stands for what a worktree's configuration selects (recipes, a
task, a custom command), with the number of its installers; `inputs` for the
contents of all declared files together with the tools' identity; `env` for what each
installer has left, labelled with what it was made from.  `bootstrap_status`
is `Plan`, `CheckApproval`, `TakeFingerprint`, `ReadRecord`, `Judge`, run once
without and once with the lock; the installers are `Invalidate`, `Start`,
`Finish`, `Verify`, `WriteRecord`.  The comparison of plan and fingerprint at
the end is one step.  A rejection is the absence of an approval.  `orphans`
are processes an installer has started and that outlive it
(`subprocess.run` kills only the child; a group may survive the opener's
`TERM` once the bootstrap itself has gone).  Edits and decisions come at any time.

### Diagnosis

`Journal` has a file for each name (`file[0]` is `journal.jsonl`), the flock,
and where each writer is: `Enter` takes the lock and measures, `Rotate` is one
`os.replace`, `Write` and `WriteFails` append a line, or a part of one on a full
disk.  `recent` reads one file per step (`ReadFile`) and takes no lock.  Lines
have one size and are known by their numbers, in the order they were begun in, so
that order, repetition and loss are visible in the numbers.  What became of each
event is kept per writer (`recorded`, history): what the line says that can be read, or
`lost` (`append` returned `False`), or `spoilt` (it returned `True`, but the line stands
behind a part of another one and cannot be read).
`Handshake` adds the attempts: the
`select` loop with its deadline, the poll after it, the messages by kind, the
closing of the pipe, the wait, `TERM`, `KILL`, the verdict and the `finally` block.
The broker follows no protocol: what it says is chosen when it is read, it ends
whenever it likes, and after a `KILL` whenever the kernel gets to it.  An attempt
goes on when the append it has called has returned.

### Project recovery

A process of IntelliJ is its start number, which stands for the PID and start
instant that `same_start` compares.  `ide` runs, `runtime` is the one the plugin's
runtime file describes (`Publish`), `judged` the one a doctor's `restart-hung` is
about.  An audit, a look at the project's state, a probe, a signal, a wait and an
opening are a step each.  Answers are chosen from what the state allows: a doctor
in `denied` (a sandbox without loopback access) gets none.  Opener and reaper are
reduced to what the doctor sees of them; their own modules have the rest.  A `ps`
that fails is seen as the end of the process by the two waits (`Gone`, which notes
in `misled` whose IntelliJ was still there), and as another process by the
validations, so that nothing is signalled.  It is
assumed that no PID is reused between `validated_intellij_process` and the signal.

### Hybrid gateway

`HybridRouting` keeps no state.  A path is an element of `Paths` with the file it
leads to; arguments are a record of the ones the routing looks at.  What an
inspection asks for and what clangd is asked for are stated separately
(`AskedLine`, `ServedLine`, ...), as predicates on a finding, and proved to agree.
There is nothing to run; the theorems are at the end of `BrokerProofs`, since it is
the broker that starts the gateway.

## 3. Runs

| Run | Instance | What it asks |
| --- | --- | --- |
| `opener` | 3 openers, 2 of them for one root whose window its user may open and close; sequence numbers up to 4 | exclusion, single flight, valid file, one open request per window, records kept, implements `FifoLock` |
| `opener_live` | the same behind a live opener of the old version, fair | the old one keeps them out; every request ends |
| `broker` | 3 connects of 2 hosts, one root, a jetbrains and an LSP key, 3 processes, 2 ports, kills and interrupts in every stage | ownership, leases, idle clock, commands, no unrecorded service, ports exclusive |
| `broker_live` | 2 connects, each on a root of its own, the same faults, fair | every connect ends |
| `broker_owner` | 2 connects of 2 tasks | finding (section 6) |
| `close` | 3 requests, one root, 2 windows, late reads, throws and vetoes, fair but for the event thread | exclusion, freshness, work protected, every request answered |
| `reaper` | a cleanup, a recycle, an opener, one root with 2 windows, a registry damaged once | registration survives, leases seen are respected |
| `bridge` | 2 doctors with relaunchers, one task, events at most 2 (incidents created, quits by the user): two incidents, or one and a quit; kills | budget, order, finality, attendance |
| `bridge_second` | a doctor, one task, 2 incidents | finding |
| `bootstrap` | 2 calls, one worktree, 2 custom commands of 2 and 1 installers, 2 contents, 2 events (edits, installers that outlive their call) | record, exclusion, hits, approvals |
| `diagnosis` | a handshake of up to 2 messages, another broker that writes two events, 3 files of one line each, a disk that fills up, kills, fair | healthy is earned, verdicts are journaled, no silent loss, no probe left, files bounded, readers see order, implements `EventLog`, every handshake ends |
| `recovery` | 2 doctors on one root, either of them denied loopback access or not, up to 3 starts of IntelliJ, 3 probes, a `ps` that may fail | signals are earned, restarts are real |

Why the bounds are enough.  Conflicts here are between two processes that
want one thing; a third is there where order matters (the queue: someone
behind a dead owner; the broker: a lease of each kind of owner).  Two windows
per root are enough to tell a window from its successor, two incidents to
tell a budget from its renewal, two starts of the app and one unexpected quit
to mistake one app for another; `bootstrap` needs two events, for an edit that
is undone.  `MaxEvents` is a shared budget for them, so that `bridge` sees a
second incident or a quit by the user, not both; the proofs cover any budget.  `MaxSequence` leaves room for one orphan to enlist again.
`Bootstrap` has the worktree in each
digest, but its instance only one worktree; worktrees share nothing else but
the approval.  In `diagnosis` a file holds one line, so that every event but the first rotates, and
an attempt records two events beside the broker's two, which is enough for a
rotation that is interrupted and one that follows it, and for a line that is
lost and one that it spoils; two messages are the
shortest healthy handshake and every pair of messages out of order.  `recovery`
has three starts: the one that hung, the one that came after it, and one that
replaces that.  The type invariants that are theorems (section 4) are not
repeated in the runs.

Symmetry is used only with safety properties (`bridge`, `bootstrap`): the permuted
values are interchangeable in every constant.
`opener`, `opener_live` and `close` have a `VIEW` that leaves out values that no
step and no property of the run will look at again: in `opener` how those ended who
have not asked for the window there is, in `opener_live` all of the history, and in
`close` a future that was found and is not needed any more, and under late reads the
history and the answers.

Every property has a mutation of the model that breaks it (the `Bug...`
operators beside the definitions they replace), so that none of them holds for
lack of something to violate it.

### Fairness

- `diagnosis`: the steps of a doctor are weakly fair, and so are those of whoever
  appends; a flock that is released again and again is granted, and a deadline
  that is looked at again and again passes (strong fairness).  Nothing is assumed
  of the broker: it may say nothing, and never die.
- `opener_live`: the steps of every opener's script are weakly fair, as the
  scheduler is; so is the readiness deadline, which the script bounds
  (`await` has a timeout), and the end of the old version's opener.  The
  overall deadline is *not* fair: requests end without it.
- `broker_live`: steps weakly fair; entering and releasing under the flock
  strongly fair, since the kernel wakes waiters of a flock that is free again
  and again.  Sessions end some day.
- `close`: request threads come from a pool and are weakly fair, and their
  reads have a deadline.  `invokeAndWait` and `join` have none: nothing is assumed
  of the step on the event thread, and `join` returns only when the future it waits
  for is complete.  So an answer is claimed unless the close of a request for the
  same root hangs on the event thread for ever, or an `Error` has come out of one
  (the handler catches `RuntimeException`s only).

## 4. Proofs

TLAPS checks these for every value of the constants that satisfies the module's
named assumption (what is and is not a process, the ranges of functions between
constants; nothing about sizes).

- **`OpenerProofs`**.  `OpenerInv`: a stage implies the claims that go with it, an
  opener outside the queue's stages has no entry, only killed openers have
  orphans, sequence numbers are distinct and below the next.  From it the
  exclusion of launch sections, single flight and the validity of the queue file.
  `LaunchExclusion` alone is not inductive: an owner must
  be known to be unique *in the file*, and dead when it is replaced.
  `LegacyOwnerIsRespected` needs nothing but itself: all ways past the migration
  look at the old lock.  `OneOpenPerAttempt` rests on `AskedInv`: whoever asked for
  the window there is, and is not excused, has its request in flight and so the
  record of its root, or the window is ready; whoever gets to the request next has
  that record itself, so it asks only if its last look misses that. `RecordsKept` and `QueueIsFifoLock` are statements about steps: each
  step of `Opener` is one of `FifoLock` or leaves holder, line and order alone.
- **`BrokerProofs`**.  `BrokerInv`: file and copy are both `Good` (leases lie in
  records, agree on each root, are genuine), and whoever is in the section has a
  copy whose leases on its root are its own.  `OneOwnerPerRoot` needs both,
  because a copy becomes the file.  The lemmas reduce each operator to two
  relations, `Within` (takes away only) and `Mine`.  `ServiceInv`, on top of it,
  relates file, copy and processes: each record names a process that was started
  for it (`Matched`), a session whose service runs has record and lease in the
  file *and* in the copy (`Connected`), idle clocks run only where no live lease
  is (`Clocked`), and the section's stage says whether its target has a record yet
  (`Started`). `ConnectedIsLeased` alone is not inductive, since the copy replaces
  the file. A step keeps `Sound` if it takes a file to one it `Keeps`: what runs
  stays recorded, what is connected stays leased.  That no service is unrecorded
  and that no port is shared hold wherever brokers are killed, because the invariant
  keeps apart what runs: a service is on file, in `spawned` while its connect is in
  the section, or in `orphans` from the moment that connect dies there, and a port
  is chosen against all that is on file or in the copy.
  `SecondOwnersAreRejected` is the part of the promise behind the finding
  `broker_owner` that the code does keep.
- **`CloseProofs`**.  `IInv`: who works on a root is in the map with a pending
  future, only completed futures are evicted, and whoever waits for another has
  seen what it saw.  The history variable `current` carries freshness through an
  eviction and through a veto, after which an old acceptance is in the map and its
  window still open.
- **`ReaperProofs`**.  `RInv`: what a process is about to remove or close is *due*
  (`RemovalsAreDue`): its window has gone or will be closed by a request already
  posted; what cleanup closes it has seen unleased (`LeasesAreKnown`).  This is
  what makes late closes harmless, and is not visible in `RegistrationSurvives`.
- **`BridgeProofs`**.  `BInv`: who works on an incident is in a stage its state
  allows, the budget is spent by a relauncher past `quit` or not at all, a
  checkpoint names an app that was running, and a trial is closed healthy before
  the policy is written.  All properties of the run follow, and that no incident
  is opened by a command that has repaired a lower layer.
- **`BootstrapProofs`**.  `StInv`: whoever installs holds the lock of its worktree
  and the record is gone (`LockIsValid`, `WorkIsMade`); what it has installed up
  to `step` is of what it saw, unless the worktree was edited since
  (`SeenIsValid`, `Progress`); the plan is the definition until the approval is
  checked (`PlanIsValid`); and a call of a prepared worktree has read what makes
  it so (`HitIsValid`).  `RecordIsEarned` alone is not inductive: a record is
  written from a fingerprint taken much earlier, and it takes the second
  comparison together with `Progress` to say that nothing changed under the
  installers.  The other three properties follow.
- **`RecoveryProofs`**.  `RecoveryInv`: to each stage belongs the evidence a
  doctor has by then (`Course`: how many probes have failed and that IntelliJ hung
  at as many of them as it was there for, what it has sent, what it has seen end),
  a denied doctor never gets past the first stages (`KeptOut`), and start numbers
  only grow (`Numbers`). `SignalsAreEarned` is not inductive: who is signalled is
  the process the doctor has judged only because it is validated in the same step,
  and its hangs add up to `Probes` only because a process that has gone never
  comes back.  For `RestartIsReal` each stage past a wait says that the judged one
  has gone, or that its doctor is `misled` and has sent it `TERM`.
- **`HandshakeProofs`**.  `JournalInv` says nothing of the journal's callers: who
  is between the lock and the write has the lock, what it has measured still
  holds, and the file it is about to replace has been moved, unless it is the
  oldest (`Appending`); moved files are full (`Filled`); lines are in order across
  the files (`Ordered`); and what a reader has is older than all it has still to
  read (`Reading`), because a line only ever moves into a file the reader has left
  behind.  That makes a lock-free `recent` correct, and it is not visible in
  `RecentInOrder`.  Half a line at the end of the file has been reported lost to
  its writer (`LossIsTold`), which is all that `NoSilentLoss` needs.  A lemma for each of the journal's five operations (call, work,
  kill, read, nothing) then serves every step of `Handshake`, whose own invariant
  is one predicate per attempt: what it has heard (`Hears`), what its broker may
  still be (`Stops`), and whether its verdict has been handed to the journal, and
  as its last event (`Journals`).  `TheJournalIsALog` is the refinement: a written
  line is a `Record`, a rename into an empty name is a stutter, and one that
  replaces the oldest file is a `Forget` that leaves the current file and the one
  that takes the last name, both full and, by `Ordered`, without a line in common.
- **`HybridRouting`**, in `BrokerProofs`.  Arithmetic on every line bound and
  severity: `LinesAreKept`, `NothingIsWithheld`, and `EachBackendItsFiles` about
  the gateway as a whole.

Every safety property of every passing run, state invariant or action property,
and both refinements (`ImplementsFifoLock`, `JournalIsLog`) are theorems, and so
is the type correctness of all eight state machines.  Only model-checked is
liveness under fairness: `EveryRequestIsAnswered` (opener and close endpoint),
`EveryConnectEnds` and `EveryHandshakeEnds`; that and `ENABLED` are beyond the
proof system.

## 5. What properties leave out

- Nothing says that an opener leaves no entry and no record behind: the script
  ignores failing releases, and a signal between the grant and
  `coordinator_active=true` skips them.  What is left is reclaimed by the next prune
  once the opener has ended, which `LaunchExclusion`, `ImplementsFifoLock` and
  `EveryRequestIsAnswered` cover.
- `OneOpenRequestPerAttempt` excuses an opener that failed or died, and one whose
  last look missed a ready window; two requests of the latter kind do no harm that
  the code knows of, but are what the coordination is meant to avoid.
- `NoUnrecordedService` and `PortsAreExclusive` except what a broker had started and
  not recorded when it died in the section: nothing in the code takes it up.
- `AcceptanceIsFresh` does not say that the window has gone: a vetoed close is
  accepted.  Late reads are left out; one that names no root makes an open root look
  closed.
- `EveryRequestIsAnswered` (close endpoint) excepts an event thread that hangs over a
  close, since nothing bounds the wait for it.
- `RegistrationSurvives` gives up a registry that was damaged: `load_registry`
  moves the file away without the lock.
- `RecordIsEarned` leaves out worktrees that an orphan has written to, and
  those where an input was changed and changed back while installers ran: the
  comparison at the end cannot see either.  Both are how the code is; nothing
  in the repository promises more.
- `CommandsAreApproved` leaves out calls whose configuration changed between
  `plan_repository` in `bootstrap_status` (line 277) and the second one inside
  `_decision_subject` (197, called at 283): the approval is compared with the command of
  the second reading, and the first is run.  The window is a few system
  calls, and a hazard in the list.
- `JournalIsLog` says that the last two full files are never forgotten, or all
  of the backups where nobody is killed: an interrupted rotation leaves a gap, and
  the next one drops the oldest file before it fills it.
- `VerdictIsJournaled` is about lines that can be read.  It excepts events whose
  `append` returned `False`, which the handshake ignores, and those written after
  half a line of another event, which make one unreadable line with it although
  `append` returns `True`; `NoSilentLoss` says that the latter never happens unless
  some `append` has returned `False`.  An attempt that a `BrokenPipeError` ends has
  no verdict, returned or recorded.
- `SignalsAreEarned` speaks of the probes before `TERM`.  `KILL` follows ten seconds
  later without another one.
- `RestartIsReal` excepts a doctor whose `ps` failed in a wait; section 6 says what
  that leads to.
- `PreparedIsAttended` leaves out incidents whose process was killed: a prepared
  incident without one stays prepared.

## 6. Findings

Places where the code does otherwise than the repository says; each is a run
that ends in a counterexample.

- `broker_owner`: a record whose process has died is dropped with the live
  leases in it, so a second task is admitted to a root whose first session
  still runs (README.md:200 says it is rejected).
- `bridge_second`: after a failed restart `recover` opens a second incident for
  the same task, with a restart of its own (README.md:159).

Observed while modelling, without a run of their own:

- A `ps` that fails once while `restart-hung` waits for the end of IntelliJ counts as
  that end (`intellij-project-reaper`:246, 255; line 33 calls a failure of that `ps`
  unsafe).  If the hung process answers again before `TERM` ends it, the doctor says
  that Serena recovered after a restart (`serena-project-doctor`:849), and IntelliJ
  has not restarted: the second disjunct of `RestartIsReal`, which TLC reaches.
- A close that IntelliJ vetoes is answered "closing", and its future stays in the map
  as accepted; the next request finds the root open and evicts it.
- The failure of `launch-release` in the middle of an opener: `release_exit=$?` comes
  after the `fi`, where `$?` is 0, so that `fail_from_packet` returns instead of
  ending the script and the opener goes on with its entry in the queue
  (`open-codex-project-in-intellij`:351-357).
- A duplicate close reads "open" before the close completes and "done" after it;
  it takes the finished future for a stale one, starts over and is answered 404
  (`Inspect`, `Judge` of `CloseEndpoint`; the test
  `concurrent_same_root_close_attempts_share_one_close_and_result` has them share it).
- A lease taken after cleanup's last look at the leases does not protect the
  window (README.md:314, the cutover design's fail-closed checks);
  `LeasesSeenAreRespected` is what does hold.
- A service that is slow to accept is stopped and replaced while sessions hold
  leases in its record; a killed broker leaves its proxy, and the session, without
  a lease; one flock makes connects for other roots wait while a service starts.
- Two openers that migrate the same dead `opener.lock` can make each other fail
  (`MigrateList`, `MigrateRead`, `MigrateUnlink` have the steps).
- An approval covers absolute paths, so that approving a command in one worktree
  replaces the approval of its sibling, although decisions are kept per repository.
- A project doctor whose sandbox denies loopback access finds the service missing
  and asks the opener to open the project, although README.md:48-51 says that denial
  is never evidence that IntelliJ must be reopened.  It never signals.
- An IntelliJ that ends between the last look of the wait after `TERM` and the
  validation before `KILL` is reported as `identity-changed`: it was stopped, but the
  project is not reopened.  One that survives `KILL` for five seconds is
  `still-running`, with the same result.  A restart closes the windows of all other
  roots, which no doctor opens again.

## 7. Not modelled

- Project doctor: the findings of `audit`, which reads files and changes nothing.
- Trust (one edit under its own lock, an outcome of the opener's `Trust`),
  `serena-codex` (stateless), deployment (sequential; in the plan below).
- Hybrid gateway: the connections to the two back ends.
- The plugin's provisioners and readers: calls into the IDE's model.
- Broker: recovery from an unreadable `services.json`, lineage of threads,
  sessions without a root.  Its journal events are `Note` of `Handshake`.
- Reaper: reports, the order of preference among windows.
- Bridge: the contents of the status report, configuration files.
- Bootstrap: decisions on languages and tracking, unreadable state, the rules
  by which recipes are found.
- Everywhere: wording, logging, JSON layout, file modes.

## 8. Plan

Done: the components above in the order of how much others rest on them
(opener, broker, close endpoint, reaper, bridge, bootstrap, project recovery,
diagnosis, gateway); `FifoLock` and `EventLog` as abstractions of the opener's
queue and of the journal; proofs of all safety properties.

1. An abstract lease table that `Broker` implements, with the loss of leases that
   the finding shows as a step of its own, and its composition with `Reaper`: both
   read what the other changes.
2. `load_registry` without the lock, as steps of `Reaper` (section 5), with what a
   registry written in between loses.
3. The plugin's runtime file with a second IDE; deployment with a crash between
   two replacements and a rollback that fails.
