--------------------------- MODULE CloseEndpoint ---------------------------
(***************************************************************************)
(* POST /v1/projects/close of the IntelliJ plugin: the handler             *)
(* LifecycleHttpServer.closeProject, run by one pool thread per request,   *)
(* with the adapter LifecycleService, whose reads and whose close run on   *)
(* the event thread.                                                       *)
(*                                                                         *)
(* Requests for one root meet in the map closingRoots: the first installs  *)
(* its future, works, completes the future and, unless the close was       *)
(* accepted, removes it; the others wait for it, or evict a finished one   *)
(* whose root is open again.  Each access to the map, to a future and to   *)
(* the IDE is a step.  Windows come, go and change activity by themselves, *)
(* and IntelliJ may veto a close: the endpoint does not look at that.      *)
(***************************************************************************)
EXTENDS Naturals, FiniteSets

CONSTANTS
  Requests,   \* the POSTs that arrive, one thread each
  Roots,      \* canonical project roots
  RootOf,     \* "root" of each request
  ModeOf,     \* "normal", or "owned-recovery"
  UserRoots,  \* roots whose windows the user opens, closes and works in
  MaxOpens,   \* bound: windows opened per root
  Conditions, \* how the event thread may behave: whether its reads may take more
              \* than two seconds, and what closeAndDispose may throw
  None        \* no request

ASSUME CloseAssumption ==
  /\ None \notin Requests
  /\ RootOf \in [Requests -> Roots]
  /\ ModeOf \in [Requests -> {"normal", "owned-recovery"}]
  /\ UserRoots \subseteq Roots
  /\ MaxOpens \in Nat \ {0}
  /\ Conditions \subseteq
       [reads : {"prompt", "late"}, fault : {"none", "exception", "error"}]

VARIABLES
  pc,            \* where the thread of each request is
  closingRoots,  \* the map: the request whose future is installed, or None
  attempt,       \* the future each request made: "pending" until completed
  existing,      \* the request whose future it found in the map
  target,        \* the window findOpenProject returned, 0: none, or no more needed
  reply,         \* the status it is going to send
  window,        \* the open window of each root: its number, 0 when closed
  opened,        \* the windows opened so far, per root
  activity,      \* what goes on in the root's window
  current,       \* history: the requests that may be told of a close: since they
                 \* arrived, or since one arrived that was not finished then,
                 \* IntelliJ was asked to close their root, or it had no window
  reads, fault   \* how the event thread behaves in this behaviour

threadVars == <<pc, attempt, existing, target, reply>>
ideVars == <<window, opened, activity>>
vars == <<threadVars, closingRoots, ideVars, current, reads, fault>>

\* What the snapshot of a window shows: "data" if there are unsaved documents, a
\* modal dialog or a closing transition, else "task" if it is indexing or has a
\* run, terminal or debugger session, else "idle".
Activities == {"idle", "task", "data"}
\* SafetyDecision: what protects a window from evaluate, evaluateOwnedRecovery.
Blocking(mode) == IF mode = "normal" THEN {"task", "data"} ELSE {"data"}

\* A request owns its root's entry in the map in these stages.
Working == {"probe", "decide", "find", "edt", "accept", "refuse"}
Stages ==
  {"idle", "insert", "inspect", "judge", "evict", "join", "retract",
   "answered", "aborted"} \cup Working

TypeOK ==
  /\ pc \in [Requests -> Stages]
  /\ closingRoots \in [Roots -> Requests \cup {None}]
  /\ attempt \in [Requests -> {"pending", "accepted", "refused"}]
  /\ existing \in [Requests -> Requests \cup {None}]
  /\ target \in [Requests -> Nat]
  /\ reply \in [Requests -> {"none", "closing", "protected", "not-found"}]
  /\ window \in [Roots -> Nat]
  /\ opened \in [Roots -> Nat]
  /\ activity \in [Roots -> Activities]
  /\ current \in SUBSET Requests
  /\ [reads |-> reads, fault |-> fault] \in Conditions

Init ==
  /\ pc = [q \in Requests |-> "idle"]
  /\ closingRoots = [r \in Roots |-> None]
  /\ attempt = [q \in Requests |-> "pending"]
  /\ existing = [q \in Requests |-> None]
  /\ target = [q \in Requests |-> 0]
  /\ reply = [q \in Requests |-> "none"]
  /\ window = [r \in Roots |-> 1]
  /\ opened = [r \in Roots |-> 1]
  /\ activity = [r \in Roots |-> "idle"]
  /\ current = {}
  /\ \E c \in Conditions : reads = c.reads /\ fault = c.fault

-----------------------------------------------------------------------------
(* Operators of the steps.                                                 *)

Goto(q, stage) == pc' = [pc EXCEPT ![q] = stage]
Answer(q, status) == reply' = [reply EXCEPT ![q] = status]

\* readWithDeadline: a read that misses its two seconds names no root, so the
\* window is not found under its own.
Seen(r) == {window[r]} \cup IF reads = "late" THEN {0} ELSE {}

\* closingRoots.remove(root, future): only that future.
\* Mutation: whatever is installed.
BugRemoved(r, q) == [closingRoots EXCEPT ![r] = None]
Removed(r, q) ==
  IF closingRoots[r] = q THEN [closingRoots EXCEPT ![r] = None] ELSE closingRoots

\* The window of r goes away, and with it what went on in it.
Disappear(r) ==
  /\ window' = [window EXCEPT ![r] = 0]
  /\ activity' = [activity EXCEPT ![r] = "idle"]
  /\ UNCHANGED opened

\* What the requests for r that have arrived may be told from now on.
Reported(r) == current \cup {q \in Requests : RootOf[q] = r /\ pc[q] # "idle"}

-----------------------------------------------------------------------------
(* The handler.                                                            *)

\* The history of a request starts with that of a request it finds at work.
CurrentFor(p) == p \in current /\ attempt[p] = "pending"

\* putIfAbsent.
Insert(q) ==
  LET r == RootOf[q] IN
  /\ pc[q] \in {"idle", "insert"}
  /\ current' = IF window[r] = 0 \/ CurrentFor(closingRoots[r]) THEN current \cup {q} ELSE current
  /\ \/ /\ closingRoots[r] = None
        /\ closingRoots' = [closingRoots EXCEPT ![r] = q]
        /\ Goto(q, "probe")
        /\ UNCHANGED existing
     \/ /\ closingRoots[r] # None
        /\ existing' = [existing EXCEPT ![q] = closingRoots[r]]
        /\ Goto(q, "inspect")
        /\ UNCHANGED closingRoots
  /\ UNCHANGED <<attempt, target, reply, ideVars, reads, fault>>

\* Is the root open?  If not, the result of the future found is the answer.
\* Mutation: it always is.
BugInspect(q) ==
  /\ pc[q] = "inspect"
  /\ Goto(q, "join")
  /\ UNCHANGED <<closingRoots, attempt, existing, target, reply, ideVars, current, reads, fault>>
Inspect(q) ==
  /\ pc[q] = "inspect"
  /\ \E w \in Seen(RootOf[q]) : Goto(q, IF w = 0 THEN "join" ELSE "judge")
  /\ UNCHANGED <<closingRoots, attempt, existing, target, reply, ideVars, current, reads, fault>>

\* Is the future done?  If so it is stale: no reading reports the reason
\* "closing" (ProjectStatusReader sets it to false, or to unknown).
Judge(q) ==
  /\ pc[q] = "judge"
  /\ Goto(q, IF attempt[existing[q]] = "pending" THEN "join" ELSE "evict")
  /\ UNCHANGED <<closingRoots, attempt, existing, target, reply, ideVars, current, reads, fault>>

Evict(q) ==
  /\ pc[q] = "evict"
  /\ closingRoots' = Removed(RootOf[q], existing[q])
  /\ Goto(q, "insert")
  /\ UNCHANGED <<attempt, existing, target, reply, ideVars, current, reads, fault>>

\* existing.join() returns and its result is sent.
Join(q) ==
  /\ pc[q] = "join"
  /\ attempt[existing[q]] # "pending"
  /\ Answer(q, IF attempt[existing[q]] = "accepted" THEN "closing" ELSE "protected")
  /\ Goto(q, "answered")
  /\ UNCHANGED <<closingRoots, attempt, existing, target, ideVars, current, reads, fault>>

Probe(q) ==
  /\ pc[q] = "probe"
  /\ \E w \in Seen(RootOf[q]) :
       IF w = 0 THEN Goto(q, "refuse") /\ Answer(q, "not-found")
                ELSE Goto(q, "decide") /\ UNCHANGED reply
  /\ UNCHANGED <<closingRoots, attempt, existing, target, ideVars, current, reads, fault>>

\* freshDecision: a root that is not found, or read late, is unknown: not safe.
Decide(q) ==
  LET r == RootOf[q] IN
  /\ pc[q] = "decide"
  /\ \E w \in Seen(r) :
       IF w # 0 /\ activity[r] \notin Blocking(ModeOf[q])
       THEN Goto(q, "find") /\ UNCHANGED reply
       ELSE Goto(q, "refuse") /\ Answer(q, "protected")
  /\ UNCHANGED <<closingRoots, attempt, existing, target, ideVars, current, reads, fault>>

\* LifecycleService.close: the window is looked up,
Find(q) ==
  /\ pc[q] = "find"
  /\ \E w \in Seen(RootOf[q]) :
       /\ target' = [target EXCEPT ![q] = w]
       /\ IF w = 0 THEN Goto(q, "refuse") /\ Answer(q, "protected")
                   ELSE Goto(q, "edt") /\ UNCHANGED reply
  /\ UNCHANGED <<closingRoots, attempt, existing, ideVars, current, reads, fault>>

\* and judged again on the event thread, where IntelliJ is asked to close it.
\* Mutation: it is closed on the decision made before.
BugClosable(q) == window[RootOf[q]] = target[q]
Closable(q) ==
  /\ window[RootOf[q]] = target[q]
  /\ activity[RootOf[q]] \notin Blocking(ModeOf[q])

\* closeAndDispose closes it, or returns false (a veto): accepted either way.
EdtCloses(q) ==
  /\ pc[q] = "edt"
  /\ Closable(q)
  /\ Disappear(RootOf[q]) \/ UNCHANGED ideVars
  /\ current' = Reported(RootOf[q])
  /\ Goto(q, "accept")
  /\ target' = [target EXCEPT ![q] = 0]
  /\ UNCHANGED <<closingRoots, attempt, existing, reply, reads, fault>>

EdtRefuses(q) ==
  /\ pc[q] = "edt"
  /\ ~Closable(q)
  /\ Goto(q, "refuse")
  /\ Answer(q, "protected")
  /\ target' = [target EXCEPT ![q] = 0]
  /\ UNCHANGED <<closingRoots, attempt, existing, ideVars, current, reads, fault>>

\* closeAndDispose throws, before or after the window is gone: the handler
\* catches a RuntimeException; an Error ends the thread.
EdtThrows(q) ==
  /\ pc[q] = "edt"
  /\ Closable(q)
  /\ fault \in {"exception", "error"}
  /\ Disappear(RootOf[q]) \/ UNCHANGED ideVars
  /\ current' = Reported(RootOf[q])
  /\ \/ fault = "exception" /\ Goto(q, "refuse") /\ Answer(q, "protected")
     \/ fault = "error" /\ Goto(q, "aborted") /\ UNCHANGED reply
  /\ target' = [target EXCEPT ![q] = 0]
  /\ UNCHANGED <<closingRoots, attempt, existing, reads, fault>>

\* attempt.complete(true); the future stays in the map.
Accept(q) ==
  /\ pc[q] = "accept"
  /\ attempt' = [attempt EXCEPT ![q] = "accepted"]
  /\ Answer(q, "closing")
  /\ Goto(q, "answered")
  /\ UNCHANGED <<closingRoots, existing, target, ideVars, current, reads, fault>>

\* attempt.complete(false), and then the removal.
\* Mutation: the future is not completed.
BugRefuse(q) ==
  /\ pc[q] = "refuse"
  /\ Goto(q, "retract")
  /\ UNCHANGED <<closingRoots, attempt, existing, target, reply, ideVars, current, reads, fault>>
Refuse(q) ==
  /\ pc[q] = "refuse"
  /\ attempt' = [attempt EXCEPT ![q] = "refused"]
  /\ Goto(q, "retract")
  /\ UNCHANGED <<closingRoots, existing, target, reply, ideVars, current, reads, fault>>

Retract(q) ==
  /\ pc[q] = "retract"
  /\ closingRoots' = Removed(RootOf[q], q)
  /\ Goto(q, "answered")
  /\ UNCHANGED <<attempt, existing, target, reply, ideVars, current, reads, fault>>

Handle(q) ==
  \/ Insert(q) \/ Inspect(q) \/ Judge(q) \/ Evict(q) \/ Join(q)
  \/ Probe(q) \/ Decide(q) \/ Find(q)
  \/ EdtCloses(q) \/ EdtRefuses(q) \/ EdtThrows(q)
  \/ Accept(q) \/ Refuse(q) \/ Retract(q)

-----------------------------------------------------------------------------
(* The windows.                                                            *)

Opens(r) ==
  /\ window[r] = 0
  /\ opened[r] < MaxOpens
  /\ opened' = [opened EXCEPT ![r] = @ + 1]
  /\ window' = [window EXCEPT ![r] = opened[r] + 1]
  /\ UNCHANGED <<threadVars, closingRoots, activity, current, reads, fault>>

UserCloses(r) ==
  /\ window[r] # 0
  /\ Disappear(r)
  /\ current' = Reported(r)
  /\ UNCHANGED <<threadVars, closingRoots, reads, fault>>

Works(r) ==
  /\ window[r] # 0
  /\ \E now \in Activities \ {activity[r]} :
       activity' = [activity EXCEPT ![r] = now]
  /\ UNCHANGED <<threadVars, closingRoots, window, opened, current, reads, fault>>

User(r) == Opens(r) \/ UserCloses(r) \/ Works(r)

Next ==
  \/ \E q \in Requests : Handle(q)
  \/ \E r \in UserRoots : User(r)

Spec == Init /\ [][Next]_vars

\* Pool threads run on, their reads have a deadline of two seconds; nobody has to
\* work or to ask.  invokeAndWait has no deadline: nothing is assumed of the event
\* thread, which may hang for ever over a close.
FairSpec ==
  /\ Spec
  /\ \A q \in Requests : WF_vars(pc[q] \notin {"idle", "edt"} /\ Handle(q))

-----------------------------------------------------------------------------
(* Properties.                                                             *)

\* The map is a lock per root: from putIfAbsent to the completion of its future
\* one request works on a root, although futures are removed by their owner and
\* evicted by others at any time.
OneCloserPerRoot ==
  \A p, q \in Requests :
    pc[p] \in Working /\ pc[q] \in Working /\ RootOf[p] = RootOf[q] => p = q

\* A request that was refused is forgotten when it is answered: nobody who asks
\* later is given its result.
RefusalsAreForgotten ==
  \A q \in Requests :
    closingRoots[RootOf[q]] = q /\ pc[q] = "answered" => attempt[q] = "accepted"

\* Whoever is told that the root is closing, when reads are on time, is told of a
\* close that IntelliJ was asked for since it asked, or since an unfinished request
\* it met did, or the root has had no window since: an acceptance kept in the map,
\* whose close may have been vetoed, is not taken for one of the window there now.
AcceptanceIsFresh ==
  reads = "prompt" =>
    \A q \in Requests : pc[q] = "answered" /\ reply[q] = "closing" => q \in current

\* No request takes a window away from what its mode protects, whatever started
\* in it since it was asked for.
WorkIsProtected ==
  [][\A q \in Requests :
       pc[q] = "edt" /\ pc'[q] # "edt" /\ window[RootOf[q]] # window'[RootOf[q]]
         => activity[RootOf[q]] \notin Blocking(ModeOf[q])]_vars

\* Every request is answered, those that wait for another's future included, unless
\* the event thread hangs for ever over the close of one request for its root (the
\* wait for it has no deadline), or an Error has ended a thread that owned a future.
EveryRequestIsAnswered ==
  \A q \in Requests :
    (pc[q] # "idle" /\ fault # "error") ~>
      \/ pc[q] = "answered"
      \/ \E p \in Requests : RootOf[p] = RootOf[q] /\ [](pc[p] = "edt")
=============================================================================
