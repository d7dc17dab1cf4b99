------------------------------ MODULE Bootstrap ------------------------------
(***************************************************************************)
(* workspace-harbor-bootstrap: the dependencies of a worktree are          *)
(* installed once for what its files and configuration say, under a lock   *)
(* of the worktree, and a record spares every later call the installers.   *)
(* A custom command runs only with an approval that the worktrees of one   *)
(* repository keep in one file.                                            *)
(*                                                                         *)
(* A call reads definition, approval, inputs, record and environment one   *)
(* after the other, first without the lock and, if there is work, again    *)
(* with it; users edit files, change the configuration and delete          *)
(* environments at any time; calls and installers are killed.              *)
(***************************************************************************)
EXTENDS Naturals

CONSTANTS
  Worktrees,   \* worktrees of one repository
  Calls,       \* processes that call run_bootstrap or decide
  Definitions, \* what the configuration selects: a recipe, a task, a command
  AtFirst,     \* the definitions a worktree may start with
  Custom,      \* the definitions that are custom commands
  MaxSteps,    \* the most installers a definition runs
  StepsOf,     \* installers that each runs
  Marked,      \* installers whose environment leaves a marker
  Inputs,      \* contents of manifests, lock files, tools and runtimes
  MaxEvents,   \* bound: edits by users and installers that outlive their call
  None,        \* no call, no worktree, no record, no approval
  Absent,      \* an environment that is not there
  Partial      \* one whose installer has not finished

Steps == 1..MaxSteps

Results == [plan : Definitions, inputs : Inputs]
Fingerprints == [plan : Definitions, config : Definitions, inputs : Inputs]
Digests == Worktrees \X Custom

ASSUME BootstrapAssumption ==
  /\ AtFirst \subseteq Definitions /\ Custom \subseteq Definitions
  /\ MaxSteps \in Nat /\ StepsOf \in [Definitions -> Steps]
  /\ MaxEvents \in Nat
  /\ None \notin Calls \cup Worktrees \cup Fingerprints \cup Digests
  /\ Absent # Partial /\ {Absent, Partial} \cap Results = {}

VARIABLES
  definition, \* the definition a worktree's configuration selects
  inputs,     \* the contents of its inputs
  events,     \* edits and orphans so far
  approval,   \* the digest the repository's decision approves, if it does
  record,     \* success record of each worktree: a fingerprint
  env,        \* what each installer has left in each worktree
  lock,       \* the call that holds the lock of each worktree
  orphans,    \* installers that have outlived their call
  pc,         \* where each call is
  worktree,   \* the worktree it was called for
  forced,     \* calls with --force
  plan,       \* the definition it has read
  seen,       \* the fingerprint it has computed
  hit,        \* calls that have found the record of their fingerprint
  step,       \* the installer it runs, or runs next
  taken,      \* the inputs its installer has taken
  verdict,    \* the approval it is about to write, None: a rejection
  consented,  \* history: digests approved between a call's reading and its check
  moved,      \* history: calls whose definition changed before their check
  edited,     \* history: calls whose worktree changed since their fingerprint
  reverted,   \* history: worktrees whose record was written over such a change
  disturbed,  \* history: worktrees an orphan has written to since
  settled     \* history: calls whose worktree has been prepared all along

userVars == <<definition, inputs, events>>
sharedVars == <<approval, record, env, lock, orphans>>
callVars == <<worktree, forced, plan, seen, hit, step, taken, verdict>>
historyVars == <<consented, moved, edited, reverted, disturbed>>
vars == <<userVars, sharedVars, pc, callVars, historyVars, settled>>

Stages == {"idle", "plan", "approve", "fingerprint", "record", "judge", "lock",
           "invalidate", "start", "install", "verify", "write", "decide"}
Installers == [worktree : Worktrees, step : Steps, result : Results]

TypeOK ==
  /\ definition \in [Worktrees -> Definitions] /\ inputs \in [Worktrees -> Inputs]
  /\ events \in 0..MaxEvents
  /\ approval \in Digests \cup {None}
  /\ record \in [Worktrees -> Fingerprints \cup {None}]
  /\ env \in [Worktrees -> [Steps -> Results \cup {Absent, Partial}]]
  /\ lock \in [Worktrees -> Calls \cup {None}]
  /\ orphans \in SUBSET Installers
  /\ pc \in [Calls -> Stages]
  /\ worktree \in [Calls -> Worktrees \cup {None}]
  /\ forced \in SUBSET Calls /\ hit \in SUBSET Calls
  /\ plan \in [Calls -> Definitions \cup {None}]
  /\ seen \in [Calls -> Fingerprints \cup {None}]
  /\ step \in [Calls -> Steps \cup {0}]
  /\ taken \in [Calls -> Inputs \cup {None}]
  /\ verdict \in [Calls -> Digests \cup {None}]
  /\ consented \in [Calls -> SUBSET Digests]
  /\ moved \in SUBSET Calls /\ edited \in SUBSET Calls /\ settled \in SUBSET Calls
  /\ reverted \in SUBSET Worktrees /\ disturbed \in SUBSET Worktrees

Init ==
  /\ definition \in [Worktrees -> AtFirst] /\ inputs \in [Worktrees -> Inputs]
  /\ events = 0
  /\ approval = None
  /\ record = [w \in Worktrees |-> None]
  /\ env = [w \in Worktrees |-> [k \in Steps |-> Absent]]
  /\ lock = [w \in Worktrees |-> None]
  /\ orphans = {}
  /\ pc = [c \in Calls |-> "idle"]
  /\ worktree = [c \in Calls |-> None]
  /\ forced = {} /\ hit = {}
  /\ plan = [c \in Calls |-> None]
  /\ seen = [c \in Calls |-> None]
  /\ step = [c \in Calls |-> 0]
  /\ taken = [c \in Calls |-> None]
  /\ verdict = [c \in Calls |-> None]
  /\ consented = [c \in Calls |-> {}]
  /\ moved = {} /\ edited = {} /\ settled = {}
  /\ reverted = {} /\ disturbed = {}

-----------------------------------------------------------------------------
(* Common parts.                                                           *)

Goto(c, stage) == pc' = [pc EXCEPT ![c] = stage]
Holds(c) == worktree[c] # None /\ lock[worktree[c]] = c

\* A call that ends, or is killed, releases the lock and forgets what it read.
Unlock(c) == lock' = [w \in Worktrees |-> IF lock[w] = c THEN None ELSE lock[w]]
Forget(c) ==
  /\ Goto(c, "idle")
  /\ worktree' = [worktree EXCEPT ![c] = None]
  /\ forced' = forced \ {c} /\ hit' = hit \ {c}
  /\ plan' = [plan EXCEPT ![c] = None]
  /\ seen' = [seen EXCEPT ![c] = None]
  /\ step' = [step EXCEPT ![c] = 0]
  /\ taken' = [taken EXCEPT ![c] = None]
  /\ verdict' = [verdict EXCEPT ![c] = None]
  /\ consented' = [consented EXCEPT ![c] = {}]
  /\ moved' = moved \ {c} /\ edited' = edited \ {c}

\* What was read without the lock counts for nothing with it.
Retry(c) ==
  /\ Goto(c, "lock")
  /\ hit' = hit \ {c}
  /\ plan' = [plan EXCEPT ![c] = None]
  /\ seen' = [seen EXCEPT ![c] = None]
  /\ consented' = [consented EXCEPT ![c] = {}]
  /\ moved' = moved \ {c} /\ edited' = edited \ {c}
End(c) ==
  /\ Forget(c)
  /\ Unlock(c)
\* One that ends without having done anything in this step.
Stop(c) ==
  /\ End(c)
  /\ UNCHANGED <<userVars, approval, record, env, orphans, reverted, disturbed>>

\* One of the bounded events that nobody has asked for.
Happens == events < MaxEvents /\ events' = events + 1

\* The digest of a custom command covers its absolute paths, so the worktree.
Digest(w, d) == <<w, d>>
InForce(g) == approval = g

-----------------------------------------------------------------------------
(* run_bootstrap: the status, without and with the lock.                   *)

Call(c, w) ==
  /\ pc[c] = "idle"
  /\ Goto(c, "plan")
  /\ worktree' = [worktree EXCEPT ![c] = w]
  /\ forced' \in {forced, forced \cup {c}}
  /\ UNCHANGED <<userVars, sharedVars, plan, seen, hit, step, taken, verdict,
                 historyVars>>

\* plan_repository; nothing to do, disabled or undecided ends the call, and so does
\* a task runner that does not answer.
Plan(c) ==
  LET d == definition[worktree[c]] IN
  /\ pc[c] = "plan"
  /\ \/ Stop(c)
     \/ /\ plan' = [plan EXCEPT ![c] = d]
        /\ consented' = [consented EXCEPT ![c] = {approval} \ {None}]
        /\ Goto(c, "approve")
        /\ UNCHANGED <<userVars, sharedVars, worktree, forced, seen, hit, step,
                       taken, verdict, moved, edited, reverted, disturbed>>

\* The digest is that of the command selected now, which is planned again.
\* Mutation: any approved command will do.
BugApproved(w) == approval # None
Approved(w) == InForce(Digest(w, definition[w]))

CheckApproval(c) ==
  /\ pc[c] = "approve"
  /\ \/ /\ plan[c] \in Custom => Approved(worktree[c])
        /\ Goto(c, "fingerprint")
        /\ UNCHANGED <<userVars, sharedVars, callVars, historyVars>>
     \/ /\ plan[c] \in Custom
        /\ ~Approved(worktree[c])
        /\ Stop(c)

\* bootstrap_fingerprint: of the plan that was read and the files as they are.
Fingerprint(d, w) == [plan |-> d, config |-> definition[w], inputs |-> inputs[w]]

TakeFingerprint(c) ==
  /\ pc[c] = "fingerprint"
  /\ seen' = [seen EXCEPT ![c] = Fingerprint(plan[c], worktree[c])]
  /\ edited' = edited \ {c}
  /\ Goto(c, "record")
  /\ UNCHANGED <<userVars, sharedVars, worktree, forced, plan, hit, step, taken,
                 verdict, consented, moved, reverted, disturbed>>

ReadRecord(c) ==
  /\ pc[c] = "record"
  /\ hit' = (hit \ {c}) \cup {x \in {c} : record[worktree[x]] = seen[x]}
  /\ Goto(c, "judge")
  /\ UNCHANGED <<userVars, sharedVars, worktree, forced, plan, seen, step, taken,
                 verdict, historyVars>>

\* Every environment that leaves a marker is there.
\* Mutation: markers are asked of installers that leave none.
BugHasMarkers(w, d) == \A k \in 1..StepsOf[d] : env[w][k] # Absent
HasMarkers(w, d) == \A k \in Marked \cap 1..StepsOf[d] : env[w][k] # Absent

Ready(c) == c \in hit /\ HasMarkers(worktree[c], plan[c])
Judge(c) ==
  /\ pc[c] = "judge"
  /\ \/ /\ Ready(c) /\ c \notin forced
        /\ Stop(c)
     \/ /\ ~Ready(c) \/ c \in forced
        /\ Holds(c)
        /\ Goto(c, "invalidate")
        /\ hit' = hit \ {c}
        /\ UNCHANGED <<userVars, sharedVars, worktree, forced, plan, seen, step,
                       taken, verdict, historyVars>>
     \/ /\ ~Ready(c) \/ c \in forced
        /\ ~Holds(c)
        /\ Retry(c)
        /\ UNCHANGED <<userVars, sharedVars, worktree, forced, step, taken, verdict,
                       reverted, disturbed>>

\* Mutation: the lock is not waited for.
BugLockable(w) == TRUE
Lockable(w) == lock[w] = None

Lock(c) ==
  /\ pc[c] = "lock"
  /\ Lockable(worktree[c])
  /\ lock' = [lock EXCEPT ![worktree[c]] = c]
  /\ Goto(c, "plan")
  /\ UNCHANGED <<userVars, approval, record, env, orphans, callVars, historyVars>>

-----------------------------------------------------------------------------
(* run_bootstrap: the installers.                                          *)

Invalidated(w) == [record EXCEPT ![w] = None]

Invalidate(c) ==
  LET w == worktree[c] IN
  /\ pc[c] = "invalidate"
  /\ \/ /\ record' = Invalidated(w)
        /\ step' = [step EXCEPT ![c] = 1]
        /\ disturbed' = disturbed \ {w}
        /\ Goto(c, "start")
        /\ UNCHANGED <<userVars, approval, env, lock, orphans, worktree, forced, plan,
                       seen, hit, taken, verdict, consented, moved, edited, reverted>>
     \/ Stop(c)

\* An installer takes the inputs it finds, or its tool is missing.
Start(c) ==
  LET w == worktree[c] IN
  /\ pc[c] = "start"
  /\ \/ /\ env' = [env EXCEPT ![w][step[c]] = Partial]
        /\ taken' = [taken EXCEPT ![c] = inputs[w]]
        /\ Goto(c, "install")
        /\ UNCHANGED <<userVars, approval, record, lock, orphans, worktree, forced,
                       plan, seen, hit, step, verdict, historyVars>>
     \/ Stop(c)

Work(c) == [worktree |-> worktree[c], step |-> step[c],
            result |-> [plan |-> plan[c], inputs |-> taken[c]]]
MayOrphan(c) ==
  \/ UNCHANGED <<orphans, events>>
  \/ Happens /\ orphans' = orphans \cup {Work(c)}
Installs(o) == env' = [env EXCEPT ![o.worktree][o.step] = o.result]

IsLast(c) == step[c] = StepsOf[plan[c]]

\* It succeeds and the next one follows; or it fails, or is killed when its time
\* is up, and what it has started itself may live on.
Finish(c) ==
  /\ pc[c] = "install"
  /\ \/ /\ Installs(Work(c))
        /\ taken' = [taken EXCEPT ![c] = None]
        /\ \/ /\ ~IsLast(c)
              /\ step' = [step EXCEPT ![c] = step[c] + 1]
              /\ Goto(c, "start")
           \/ /\ IsLast(c)
              /\ Goto(c, "verify")
              /\ UNCHANGED step
        /\ UNCHANGED <<lock, orphans, events, worktree, forced, plan, seen, hit,
                       verdict, historyVars>>
     \/ /\ MayOrphan(c)
        /\ End(c)
        /\ UNCHANGED <<env, reverted, disturbed>>
  /\ UNCHANGED <<definition, inputs, approval, record>>

\* Fingerprint and markers once more.
\* Mutation: only the markers.
BugUnchanged(c) == TRUE
Unchanged(c) ==
  Fingerprint(definition[worktree[c]], worktree[c]) = seen[c]

Undone(c) ==
  /\ c \in edited
  /\ Fingerprint(definition[worktree[c]], worktree[c]) = seen[c]

Verify(c) ==
  /\ pc[c] = "verify"
  /\ \/ /\ Unchanged(c) /\ HasMarkers(worktree[c], plan[c])
        /\ Goto(c, "write")
        /\ reverted' = (reverted \ {worktree[c]}) \cup {w \in {worktree[c]} : Undone(c)}
        /\ UNCHANGED <<userVars, sharedVars, callVars, consented, moved, edited,
                       disturbed>>
     \/ /\ ~Unchanged(c) \/ ~HasMarkers(worktree[c], plan[c])
        /\ Stop(c)

WriteRecord(c) ==
  /\ pc[c] = "write"
  /\ record' \in {record, [record EXCEPT ![worktree[c]] = seen[c]]}
  /\ End(c)
  /\ UNCHANGED <<userVars, approval, env, orphans, reverted, disturbed>>

-----------------------------------------------------------------------------
(* decide: the digest is computed first, then the file written; a rejection *)
(* approves nothing.                                                       *)

Decide(c, w) ==
  /\ pc[c] = "idle"
  /\ definition[w] \in Custom
  /\ verdict' \in {verdict, [verdict EXCEPT ![c] = Digest(w, definition[w])]}
  /\ Goto(c, "decide")
  /\ UNCHANGED <<userVars, sharedVars, worktree, forced, plan, seen, hit, step,
                 taken, historyVars>>

\* Under the repository's lock, which nothing else waits for.
WriteDecision(c) ==
  /\ pc[c] = "decide"
  /\ approval' = verdict[c]
  /\ Goto(c, "idle")
  /\ verdict' = [verdict EXCEPT ![c] = None]
  /\ consented' =
       [x \in Calls |->
          consented[x] \cup {g \in {verdict[c]} \ {None} : pc[x] = "approve"}]
  /\ UNCHANGED <<userVars, record, env, lock, orphans, worktree, forced, plan, seen,
                 hit, step, taken, moved, edited, reverted, disturbed>>

-----------------------------------------------------------------------------
(* What surrounds them.                                                    *)

CallsOn(w, stages) == {c \in Calls : worktree[c] = w /\ pc[c] \in stages}
Affected(w) == CallsOn(w, {"record", "judge", "invalidate", "start", "install", "verify"})

Edit(w) ==
  /\ Happens
  /\ \E v \in Inputs \ {inputs[w]} : inputs' = [inputs EXCEPT ![w] = v]
  /\ edited' = edited \cup Affected(w)
  /\ UNCHANGED <<definition, sharedVars, pc, callVars, consented, moved, reverted,
                 disturbed>>

Configure(w) ==
  /\ Happens
  /\ \E d \in Definitions \ {definition[w]} :
       definition' = [definition EXCEPT ![w] = d]
  /\ edited' = edited \cup Affected(w)
  /\ moved' = moved \cup CallsOn(w, {"approve"})
  /\ UNCHANGED <<inputs, sharedVars, pc, callVars, consented, reverted, disturbed>>

DeleteEnvironment(w) ==
  /\ Happens
  /\ env' = [env EXCEPT ![w] = [k \in Steps |-> Absent]]
  /\ UNCHANGED <<definition, inputs, approval, record, lock, orphans, pc, callVars,
                 historyVars>>

\* A call is killed, by the opener's guard when it takes too long: the group gets a
\* TERM, which an installer may survive, and nothing waits for it any more.
Kill(c) ==
  /\ pc[c] # "idle"
  /\ Holds(c) \/ pc[c] = "decide"
  /\ End(c)
  /\ \/ pc[c] # "install" /\ UNCHANGED <<orphans, events>>
     \/ pc[c] = "install" /\ MayOrphan(c)
  /\ UNCHANGED <<definition, inputs, approval, record, env, reverted, disturbed>>

OrphanEnds(o) ==
  /\ o \in orphans
  /\ orphans' = orphans \ {o}
  /\ \/ Installs(o)
     \/ env' = [env EXCEPT ![o.worktree][o.step] = Partial]
  /\ disturbed' = disturbed \cup {o.worktree}
  /\ UNCHANGED <<userVars, approval, record, lock, pc, callVars, consented, moved,
                 edited, reverted>>

-----------------------------------------------------------------------------
Status(c) ==
  \/ Plan(c) \/ CheckApproval(c) \/ TakeFingerprint(c) \/ ReadRecord(c) \/ Judge(c)
Install(c) ==
  \/ Lock(c) \/ Invalidate(c) \/ Start(c) \/ Finish(c) \/ Verify(c) \/ WriteRecord(c)
Users ==
  \/ \E w \in Worktrees : Edit(w) \/ Configure(w) \/ DeleteEnvironment(w)
  \/ \E o \in orphans : OrphanEnds(o)
Step ==
  \/ \E c \in Calls : Status(c) \/ Install(c) \/ WriteDecision(c) \/ Kill(c)
  \/ \E c \in Calls, w \in Worktrees : Call(c, w) \/ Decide(c, w)
  \/ Users

\* A worktree whose record is that of its files and whose markers are there.
Prepared(w) ==
  /\ record[w] = Fingerprint(definition[w], w)
  /\ \A k \in Marked \cap 1..StepsOf[definition[w]] : env[w][k] # Absent
  /\ definition[w] \in Custom => InForce(Digest(w, definition[w]))

Witness ==
  settled' = {c \in Calls :
                /\ worktree'[c] # None
                /\ c \in settled \/ worktree[c] = None
                /\ Prepared(worktree[c])' }

Next == Step /\ Witness
Spec == Init /\ [][Next]_vars

-----------------------------------------------------------------------------
(* Properties.                                                             *)

\* "Failure and protected-input mutation never write success state": a record says
\* what is installed, step by step, from these inputs, unless an environment was
\* deleted since, an orphan has written over it, or an edit was undone under the
\* installers.
RecordIsEarned ==
  \A w \in Worktrees \ (disturbed \cup reverted) :
    record[w] # None =>
      \A k \in 1..StepsOf[record[w].plan] :
        env[w][k] \in {Absent, [plan |-> record[w].plan, inputs |-> record[w].inputs]}

\* "Concurrent callers execute one installer": calls work on a worktree one at a
\* time, orphans apart.
OneInstaller ==
  \A c, x \in Calls :
    /\ pc[c] \in {"invalidate", "start", "install", "verify", "write"}
    /\ pc[x] \in {"invalidate", "start", "install", "verify", "write"}
    /\ worktree[c] = worktree[x]
    => c = x

\* "A cache hit is fully read-only": while its worktree is prepared from first to
\* last, a call without --force neither locks nor installs, whatever others do.
CacheHitIsReadOnly ==
  \A c \in settled \ forced :
    pc[c] \in {"plan", "approve", "fingerprint", "record", "judge"} /\ ~Holds(c)

\* "Tracked configuration does not grant permission": a custom command is run only
\* with an approval of just that command, in that worktree, that was in force when
\* it was checked, unless the configuration changed between the two readings.
CommandsAreApproved ==
  \A c \in Calls \ moved :
    pc[c] \in {"start", "install"} /\ plan[c] \in Custom =>
      Digest(worktree[c], plan[c]) \in consented[c]
=============================================================================
