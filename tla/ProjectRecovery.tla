--------------------------- MODULE ProjectRecovery ---------------------------
(***************************************************************************)
(* serena-project-doctor --recover: doctors open a missing project, wait   *)
(* for its indexing, ask again, recycle its window, and stop an IntelliJ   *)
(* that does not answer.  They know nothing of each other; the IDE, which  *)
(* all roots share, lives its own life.                                    *)
(*                                                                         *)
(* A process is its start number: a PID and a start instant.  It is        *)
(* assumed that no PID is reused between the last look at a process and    *)
(* the signal that follows it.                                             *)
(***************************************************************************)
EXTENDS Integers, FiniteSets

CONSTANTS
  Doctors,   \* runs of the doctor
  Roots,
  RootOf,    \* the root each doctor is run for
  MaxStarts, \* bound: starts of IntelliJ
  Probes     \* failed probes that condemn it

ASSUME RecoveryAssumption ==
  /\ RootOf \in [Doctors -> Roots]
  /\ MaxStarts \in Nat \ {0}
  /\ Probes \in Nat \ {0}

VARIABLES
  ide,      \* the IntelliJ that runs, 0: none
  starts,   \* how often it has been started
  hung,     \* its event thread does not answer in time
  doomed,   \* the ones that KILL was sent to
  runtime,  \* the one the runtime file describes
  window,   \* of each root: "blocked" has a modal dialog or unsaved documents
  denied,   \* doctors whose sandbox denies loopback access
  pc,       \* where each doctor is
  judged,   \* the IntelliJ its restart-hung is about
  fails,    \* probes of it that have failed
  status,   \* what the recovery has come to
  signals,  \* history: the signals sent, by whom and to which IntelliJ
  hangs,    \* history: how often a doctor has found an IntelliJ hung
  misled,   \* history: doctors that took a failure of ps for the end of theirs
  served    \* history: the IntelliJ of a doctor's last healthy audit

ideVars == <<ide, starts, hung, doomed, runtime>>
historyVars == <<signals, hangs, misled, served>>
doctorVars == <<pc, judged, fails, status, historyVars>>
vars == <<ideVars, window, denied, doctorVars>>

Generations == 1..MaxStarts
States == {"closed", "ready", "indexing", "blocked", "closing"}
Stages == {"audit", "open", "audit-opened", "state", "hung", "probe", "term",
           "term-wait", "kill", "kill-wait", "reopen", "audit-restarted",
           "indexing", "retry", "recycle", "close", "closing",
           "reopen-window", "audit-recycled", "done"}

Init ==
  /\ ide \in {0, 1} /\ starts = ide
  /\ hung = FALSE
  /\ doomed = {}
  /\ runtime = 0
  /\ window = [r \in Roots |-> "closed"]
  /\ denied \in SUBSET Doctors
  /\ pc = [d \in Doctors |-> "audit"]
  /\ judged = [d \in Doctors |-> 0]
  /\ fails = [d \in Doctors |-> 0]
  /\ status = [d \in Doctors |-> "none"]
  /\ signals = {}
  /\ hangs = [d \in Doctors |-> 0]
  /\ misled = {}
  /\ served = [d \in Doctors |-> 0]

Goto(d, l) == pc' = [pc EXCEPT ![d] = l]
Ends(d, s) == Goto(d, "done") /\ status' = [status EXCEPT ![d] = s]
Window(d) == window[RootOf[d]]
World == UNCHANGED <<ideVars, window, denied>>

-----------------------------------------------------------------------------
(* What a doctor sees.                                                     *)

\* audit: a doctor without loopback access finds every service missing.
Audits(d) ==
  IF d \in denied \/ ide = 0 \/ Window(d) = "closed" THEN {"missing"}
  ELSE IF hung THEN {"missing", "unhealthy"}
  ELSE {"healthy", "missing", "unhealthy"}

\* runtime_client: nothing, unless the file is about the process that runs.
RuntimeClient == IF runtime = ide THEN ide ELSE 0

\* The request the plugin answers, if it can be reached: what is not known is
\* no state.  Unsaved documents are no state of their own.
Snapshot(d) ==
  {"unknown"} \cup
  IF d \in denied \/ RuntimeClient = 0 \/ hung THEN {}
  ELSE IF Window(d) = "blocked" THEN {"modal", "ready"}
  ELSE {Window(d)}

\* validated_intellij_process, when ps works.  Mutation: taken for granted.
BugValidated(d) == TRUE
Validated(d) == ide = judged[d] /\ ide # 0

Responds(d) == Validated(d) /\ ~hung /\ d \notin denied

-----------------------------------------------------------------------------
(* The doctor.                                                             *)

\* An audit: where a healthy, a missing and any other service lead to.
Audit(d, from, Healthy, Missing, Other) ==
  /\ pc[d] = from
  /\ \E s \in Audits(d) :
       \/ /\ s = "healthy"
          /\ Healthy
          /\ served' = [served EXCEPT ![d] = ide]
       \/ s = "missing" /\ Missing /\ UNCHANGED served
       \/ s = "unhealthy" /\ Other /\ UNCHANGED served
  /\ UNCHANGED <<judged, fails, signals, hangs, misled>> /\ World

Continue(d, l) == Goto(d, l) /\ UNCHANGED status

FirstAudit(d) ==
  Audit(d, "audit", Ends(d, "healthy"), Continue(d, "open"), Continue(d, "state"))

\* The opener: it succeeds when the exact project is open and answers; it may
\* fail or be given up at any time.
Opens(d, from, to, failure) ==
  /\ pc[d] = from
  /\ \/ /\ Window(d) \in {"ready", "indexing"}
        /\ ~hung
        /\ Continue(d, to)
     \/ Ends(d, failure)
  /\ UNCHANGED <<judged, fails, historyVars>> /\ World

Open(d) == Opens(d, "open", "audit-opened", "opener-failed")

\* Mutation: a service that is still missing is looked into like any other.
BugStillMissing(d) == Continue(d, "state")
StillMissing(d) == Ends(d, "service-still-missing")

AuditOpened(d) ==
  Audit(d, "audit-opened", Ends(d, "recovered"), StillMissing(d), Continue(d, "state"))

State(d) ==
  /\ pc[d] = "state"
  /\ \E s \in Snapshot(d) :
       \/ s = "modal" /\ Ends(d, "blocked-modal")
       \/ s = "closing" /\ Ends(d, "project-closing")
       \/ s = "closed" /\ Ends(d, "project-state-unknown")
       \/ s = "unknown" /\ Continue(d, "hung")
       \/ s = "indexing" /\ Continue(d, "indexing")
       \/ s = "ready" /\ Continue(d, "retry")
  /\ UNCHANGED <<judged, fails, historyVars>> /\ World

\* restart-hung, a process of its own: anything but a stopped IntelliJ leaves
\* the state unknown, as does one whose plugin is of another version than the
\* restart is made for.
Unknown(d) == Ends(d, "project-state-unknown")

RestartHung(d) ==
  /\ pc[d] = "hung"
  /\ \/ Unknown(d) /\ UNCHANGED judged
     \/ /\ RuntimeClient # 0
        /\ judged' = [judged EXCEPT ![d] = RuntimeClient]
        /\ Continue(d, "probe")
  /\ UNCHANGED <<fails, historyVars>> /\ World

\* Mutation: a good answer does not end it.
BugAnswered(d) == FALSE
Answered(d) == Responds(d)

Probe(d) ==
  /\ pc[d] = "probe"
  /\ fails[d] < Probes
  /\ IF Answered(d) THEN Unknown(d) /\ UNCHANGED <<fails, hangs>>
     ELSE /\ fails' = [fails EXCEPT ![d] = @ + 1]
          /\ hangs' = [hangs EXCEPT ![d] = IF Validated(d) /\ hung THEN @ + 1 ELSE @]
          /\ Continue(d, IF fails[d] + 1 = Probes THEN "term" ELSE "probe")
  /\ UNCHANGED <<judged, signals, misled, served>> /\ World

Sends(d, sig) == signals' = signals \cup {[by |-> d, to |-> ide, signal |-> sig]}

\* ps may fail, and then nothing is signalled.
Term(d) ==
  /\ pc[d] = "term"
  /\ \/ Validated(d) /\ Sends(d, "TERM") /\ Continue(d, "term-wait")
     \/ Unknown(d) /\ UNCHANGED signals
  /\ UNCHANGED <<judged, fails, hangs, misled, served>> /\ World

\* The wait for the end: a process that ps does not show, or that it cannot show
\* because it fails itself, has ended.  Mutation: when the time is up, any has.
BugGone(d) == UNCHANGED misled
Gone(d) ==
  \/ ide # judged[d] /\ UNCHANGED misled
  \/ ide = judged[d] /\ misled' = misled \cup {d}

TermWait(d) ==
  /\ pc[d] = "term-wait"
  /\ \/ Gone(d) /\ Continue(d, "reopen")
     \/ Continue(d, "kill") /\ UNCHANGED misled
  /\ UNCHANGED <<judged, fails, signals, hangs, served>> /\ World

\* An IntelliJ that has ended since is not one that was stopped.
Kill(d) ==
  /\ pc[d] = "kill"
  /\ \/ /\ Validated(d)
        /\ Sends(d, "KILL")
        /\ doomed' = doomed \cup {ide}
        /\ Continue(d, "kill-wait")
     \/ Unknown(d) /\ UNCHANGED <<signals, doomed>>
  /\ UNCHANGED <<ide, starts, hung, runtime, window, denied, judged, fails, hangs, misled, served>>

KillWait(d) ==
  /\ pc[d] = "kill-wait"
  /\ \/ Gone(d) /\ Continue(d, "reopen")
     \/ Unknown(d) /\ UNCHANGED misled
  /\ UNCHANGED <<judged, fails, signals, hangs, served>> /\ World

Reopen(d) == Opens(d, "reopen", "audit-restarted", "ide-restart-opener-failed")

AuditRestarted(d) ==
  LET Unhealthy == Ends(d, "semantic-unhealthy-after-ide-restart") IN
  Audit(d, "audit-restarted", Ends(d, "recovered-after-ide-restart"), Unhealthy, Unhealthy)

\* The wait for indexing, which a deadline ends.
Indexing(d) ==
  /\ pc[d] = "indexing"
  /\ \/ \E s \in Snapshot(d) :
          \/ s = "ready" /\ Continue(d, "retry")
          \/ s \notin {"ready", "indexing"} /\ Ends(d, "blocked")
     \/ Continue(d, "recycle")
  /\ UNCHANGED <<judged, fails, historyVars>> /\ World

Retry(d) ==
  Audit(d, "retry", Ends(d, "recovered"), Continue(d, "recycle"), Continue(d, "recycle"))

\* recycle, a process of its own: it looks at the window and asks the plugin to
\* close it; the plugin looks again.
StillUnhealthy(d) == Ends(d, "semantic-still-unhealthy")

Closable(d) == Window(d) \in {"ready", "indexing"} \cap Snapshot(d)

Recycle(d) ==
  /\ pc[d] = "recycle"
  /\ \/ Closable(d) /\ Continue(d, "close")
     \/ StillUnhealthy(d)
  /\ UNCHANGED <<judged, fails, historyVars>> /\ World

Close(d) ==
  /\ pc[d] = "close"
  /\ \/ /\ Closable(d)
        /\ window' = [window EXCEPT ![RootOf[d]] = "closing"]
        /\ Continue(d, "closing")
     \/ StillUnhealthy(d) /\ UNCHANGED window
  /\ UNCHANGED <<ideVars, denied, judged, fails, historyVars>>

\* The wait for the window to go.
Closing(d) ==
  /\ pc[d] = "closing"
  /\ \/ "closed" \in Snapshot(d) /\ Continue(d, "reopen-window")
     \/ StillUnhealthy(d)
  /\ UNCHANGED <<judged, fails, historyVars>> /\ World

ReopenWindow(d) == Opens(d, "reopen-window", "audit-recycled", "window-recycle-opener-failed")

AuditRecycled(d) ==
  Audit(d, "audit-recycled", Ends(d, "recovered-after-window-recycle"),
        StillUnhealthy(d), StillUnhealthy(d))

\* A child that takes longer than thirty seconds is killed, and the exception
\* ends the doctor.
Overrun(d) ==
  /\ pc[d] \notin {"open", "reopen", "reopen-window", "done"}
  /\ Ends(d, "raised")
  /\ UNCHANGED <<judged, fails, historyVars>> /\ World

Stop(d) == Term(d) \/ TermWait(d) \/ Kill(d) \/ KillWait(d)
RestartIde(d) == RestartHung(d) \/ Probe(d) \/ Stop(d) \/ Reopen(d) \/ AuditRestarted(d)
RecycleWindow(d) == Recycle(d) \/ Close(d) \/ Closing(d) \/ ReopenWindow(d) \/ AuditRecycled(d)
Recover(d) ==
  \/ FirstAudit(d) \/ Open(d) \/ AuditOpened(d) \/ State(d) \/ Indexing(d) \/ Retry(d)
  \/ RestartIde(d) \/ RecycleWindow(d) \/ Overrun(d)

-----------------------------------------------------------------------------
(* IntelliJ and its users, openers among them.                             *)

\* An IntelliJ that has got KILL does nothing any more.
Alive == ide # 0 /\ ide \notin doomed

Outside == UNCHANGED <<denied, doctorVars>>

Start ==
  /\ ide = 0 /\ starts < MaxStarts
  /\ ide' = starts + 1 /\ starts' = starts + 1
  /\ hung' = FALSE
  /\ UNCHANGED <<doomed, runtime, window>> /\ Outside

\* The plugin writes the runtime file when it starts.
Publish ==
  /\ Alive /\ runtime # ide
  /\ runtime' = ide
  /\ UNCHANGED <<ide, starts, hung, doomed, window>> /\ Outside

\* The event thread stops answering, or answers again.
Hang == Alive /\ hung' = ~hung /\ UNCHANGED <<ide, starts, doomed, runtime, window>> /\ Outside

\* It ends for whatever reason, TERM among them.
Exit ==
  /\ ide # 0
  /\ ide' = 0
  /\ hung' = FALSE
  /\ window' = [r \in Roots |-> "closed"]
  /\ UNCHANGED <<starts, doomed, runtime>> /\ Outside

\* A window is opened, goes on, or is closed.
Moved(r) ==
  IF window[r] = "closed" THEN {"ready", "indexing"}
  ELSE IF window[r] = "closing" THEN {"closed", "ready"}
  ELSE {"ready", "indexing", "blocked", "closing"}
Live(r) ==
  /\ Alive /\ ~hung
  /\ \E s \in Moved(r) : window' = [window EXCEPT ![r] = s]
  /\ UNCHANGED ideVars /\ Outside

Next ==
  \/ \E d \in Doctors : Recover(d)
  \/ Start \/ Publish \/ Hang \/ Exit
  \/ \E r \in Roots : Live(r)

Spec == Init /\ [][Next]_vars

-----------------------------------------------------------------------------
(* Properties.                                                             *)

Outcomes ==
  {"none", "healthy", "recovered", "opener-failed", "service-still-missing",
   "blocked-modal", "project-closing", "project-state-unknown", "blocked",
   "ide-restart-opener-failed", "recovered-after-ide-restart",
   "semantic-unhealthy-after-ide-restart", "semantic-still-unhealthy",
   "window-recycle-opener-failed", "recovered-after-window-recycle", "raised"}

TypeOK ==
  /\ ide \in {0} \cup Generations
  /\ starts \in 0..MaxStarts
  /\ hung \in BOOLEAN
  /\ doomed \subseteq Generations
  /\ runtime \in {0} \cup Generations
  /\ window \in [Roots -> States]
  /\ denied \subseteq Doctors
  /\ pc \in [Doctors -> Stages]
  /\ judged \in [Doctors -> {0} \cup Generations]
  /\ fails \in [Doctors -> 0..Probes]
  /\ status \in [Doctors -> Outcomes]
  /\ signals \subseteq [by : Doctors, to : Generations, signal : {"TERM", "KILL"}]
  /\ hangs \in [Doctors -> 0..Probes]
  /\ misled \subseteq Doctors
  /\ served \in [Doctors -> {0} \cup Generations]

\* "A whole-IDE restart is reserved for an alive exact IntelliJ process whose
\* event-thread probe fails three times": who is signalled is the one the doctor
\* has itself found hung as often as that, never its successor, and never
\* because the doctor cannot reach it; TERM is tried before KILL.
SignalsAreEarned ==
  \A s \in signals :
    /\ s.to = judged[s.by]
    /\ hangs[s.by] = Probes
    /\ s.by \notin denied
    /\ s.signal = "KILL" => [s EXCEPT !.signal = "TERM"] \in signals

\* A recovery by a restart is one: the service that is healthy in the end is of
\* a later IntelliJ than the one that hung.  Only a failure of ps can make it the
\* same one, and then TERM is on its way to that.
Restarted(d) == status[d] = "recovered-after-ide-restart"
RestartIsReal ==
  \A d \in Doctors : Restarted(d) =>
    \/ served[d] > judged[d]
    \/ d \in misled /\ [by |-> d, to |-> judged[d], signal |-> "TERM"] \in signals
=============================================================================
