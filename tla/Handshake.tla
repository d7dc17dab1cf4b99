----------------------------- MODULE Handshake ------------------------------
(***************************************************************************)
(* run_handshake of the bridge doctor: a broker is started, asked to       *)
(* initialize and to list its tools over its pipes, and stopped again,     *)
(* within a time limit; what happened goes into the journal, into which    *)
(* brokers write too, and of which the doctor's report shows the recent    *)
(* events.                                                                 *)
(*                                                                         *)
(* The broker is any program: it may say anything at any time, say         *)
(* nothing, end whenever it likes and take its time to die.  What it has   *)
(* said is chosen when it is read.                                         *)
(***************************************************************************)
EXTENDS Journal, FiniteSets

CONSTANTS
  Attempts,    \* handshakes
  Brokers,     \* brokers, those of the attempts among them, that write events
  MaxMessages, \* bound: messages read in an attempt
  MaxNotes,    \* bound: events a broker writes
  MayKill      \* whether doctors and brokers are killed

ASSUME HandshakeAssumption ==
  /\ Writers = Attempts \cup Brokers
  /\ Readers = Attempts
  /\ Attempts \cap Brokers = {}
  /\ MaxMessages \in Nat
  /\ MaxNotes \in Nat
  /\ MayKill \in BOOLEAN

VARIABLES
  pc,          \* where each attempt is
  back,        \* where it goes when it has stopped its broker
  broker,      \* its child process: absent, running, sent KILL ("dying"),
               \* or how it has ended
  initialized, \* attempts whose initialize has been answered
  finding,     \* what the attempt will return, "none": it goes on
  heard        \* history: the messages it has handled

loopVars == <<initialized, finding, heard>>
vars == <<journalVars, pc, back, broker, loopVars>>

Messages == {"initialized", "refused", "tools", "foreign-tools", "no-tools",
             "garbage", "flood"}
Failures == {"initialize-timeout", "tools-list-timeout", "initialize-eof",
             "tools-list-eof", "output-limit", "protocol-error",
             "initialize-error", "tools-list-error", "expected-tool-missing",
             "proxy-exit-nonzero", "broker-launch-failed"}
Findings == Failures \cup {"none", "healthy", "nothing-to-probe", "raised"}
Kinds == {"begun", "failed", "ok", "note"}
Fates == Kinds \cup {"lost", "spoilt"}
Stages == {"begin", "greet", "loop", "poll", "close", "wait", "term", "term-wait",
           "kill-wait", "judge", "finally", "done", "dead"}

Init ==
  /\ JournalInit
  /\ pc = [p \in Attempts |-> "begin"]
  /\ back = [p \in Attempts |-> "done"]
  /\ broker = [p \in Attempts |-> "none"]
  /\ initialized = {}
  /\ finding = [p \in Attempts |-> "none"]
  /\ heard = [p \in Attempts |-> <<>>]

\* An attempt goes on when the append it has called has returned.
At(p, l) == pc[p] = l /\ Idle(p)
Goto(p, l) == pc' = [pc EXCEPT ![p] = l]
Finds(p, f) == finding' = [finding EXCEPT ![p] = f]
Exited(p) == broker[p] \in {"zero", "nonzero", "killed"}
Quiet == UNCHANGED journalVars

-----------------------------------------------------------------------------
(* The handshake.                                                          *)

\* No project or no broker; a broker that cannot be started; a broker.
Begin(p) ==
  /\ At(p, "begin")
  /\ \/ /\ Finds(p, "nothing-to-probe")
        /\ Goto(p, "done")
        /\ Quiet /\ UNCHANGED broker
     \/ /\ Finds(p, "broker-launch-failed")
        /\ Goto(p, "done")
        /\ Submit(p, "failed") /\ UNCHANGED broker
     \/ /\ broker' = [broker EXCEPT ![p] = "running"]
        /\ Goto(p, "greet")
        /\ Quiet /\ UNCHANGED finding
  /\ UNCHANGED <<back, initialized, heard>>

\* Writing to a broker that has ended or closed its input raises; nothing
\* catches it.
Raises(p) ==
  /\ Finds(p, "raised")
  /\ Goto(p, "finally")
  /\ Quiet

Greet(p) ==
  /\ At(p, "greet")
  /\ \/ Raises(p)
     \/ Goto(p, "loop") /\ UNCHANGED finding /\ Quiet
  /\ UNCHANGED <<back, broker, initialized, heard>>

Fails(p, f) == Finds(p, f) /\ Goto(p, "close")

\* The deadline, which is looked at before every select, has passed.
\* Mutation: it counts for initialize only.
BugTimeOut(p) ==
  /\ At(p, "loop")
  /\ p \notin initialized
  /\ Fails(p, "initialize-timeout")
  /\ Quiet /\ UNCHANGED <<back, broker, initialized, heard>>

TimeOut(p) ==
  /\ At(p, "loop")
  /\ Fails(p, IF p \in initialized THEN "tools-list-timeout" ELSE "initialize-timeout")
  /\ Quiet /\ UNCHANGED <<back, broker, initialized, heard>>

\* select has returned nothing; the child is polled after it.
Select(p) ==
  /\ At(p, "loop")
  /\ Goto(p, "poll")
  /\ Quiet /\ UNCHANGED <<back, broker, loopVars>>

Poll(p) ==
  /\ At(p, "poll")
  /\ IF Exited(p)
     THEN Fails(p, IF p \in initialized THEN "tools-list-eof" ELSE "initialize-eof")
     ELSE Goto(p, "loop") /\ UNCHANGED finding
  /\ Quiet /\ UNCHANGED <<back, broker, initialized, heard>>

\* One line, or a chunk that no line can be made of.  A line that answers
\* neither request changes nothing.
Answered(p) ==
  /\ initialized' = initialized \cup {p}
  /\ \/ Raises(p)
     \/ Goto(p, "loop") /\ UNCHANGED finding /\ Submit(p, "begun")

\* Mutation: a list is taken before initialize has been answered.
BugListed(p, f) == Fails(p, f) /\ Quiet /\ UNCHANGED initialized

Listed(p, f) ==
  /\ IF p \in initialized THEN Fails(p, f) ELSE Fails(p, "protocol-error")
  /\ Quiet /\ UNCHANGED initialized

Handle(p, m) ==
  \/ m = "initialized" /\ Answered(p)
  \/ m = "tools" /\ Listed(p, "none")
  \/ m = "foreign-tools" /\ Listed(p, "expected-tool-missing")
  \/ m = "no-tools" /\ Listed(p, "tools-list-error")
  \/ /\ m \in {"refused", "garbage", "flood"}
     /\ Fails(p, CASE m = "refused" -> "initialize-error"
                   [] m = "garbage" -> "protocol-error"
                   [] m = "flood" -> "output-limit")
     /\ Quiet /\ UNCHANGED initialized

Read(p) ==
  /\ At(p, "loop")
  /\ Len(heard[p]) < MaxMessages
  /\ \E m \in Messages :
       /\ Handle(p, m)
       /\ heard' = [heard EXCEPT ![p] = Append(@, m)]
  /\ UNCHANGED <<back, broker>>

\* stdin is closed.  A failure is recorded before the broker is stopped.
Close(p) ==
  /\ At(p, "close")
  /\ IF finding[p] = "none"
     THEN Goto(p, "wait") /\ UNCHANGED back /\ Quiet
     ELSE Goto(p, "term") /\ back' = [back EXCEPT ![p] = "finally"] /\ Submit(p, "failed")
  /\ UNCHANGED <<broker, loopVars>>

Wait(p) ==
  /\ At(p, "wait")
  /\ IF Exited(p) THEN Goto(p, "judge") /\ UNCHANGED back
     ELSE Goto(p, "term") /\ back' = [back EXCEPT ![p] = "judge"]
  /\ Quiet /\ UNCHANGED <<broker, loopVars>>

\* TERM for the group of a broker that runs.
Term(p) ==
  /\ At(p, "term")
  /\ Goto(p, IF Exited(p) THEN back[p] ELSE "term-wait")
  /\ Quiet /\ UNCHANGED <<back, broker, loopVars>>

\* A second later KILL, if that was not enough.
Kill(p) ==
  /\ At(p, "term-wait")
  /\ IF Exited(p) THEN Goto(p, back[p]) /\ UNCHANGED broker
     ELSE Goto(p, "kill-wait") /\ broker' = [broker EXCEPT ![p] = "dying"]
  /\ Quiet /\ UNCHANGED <<back, loopVars>>

\* Another second later the broker is given up, dead or not.
GiveUp(p) ==
  /\ At(p, "kill-wait")
  /\ Goto(p, back[p])
  /\ Quiet /\ UNCHANGED <<back, broker, loopVars>>

\* Mutation: a bad end is returned and not recorded.
BugJudge(p) ==
  /\ At(p, "judge")
  /\ IF broker[p] \in {"nonzero", "killed"}
     THEN Finds(p, "proxy-exit-nonzero") /\ Quiet
     ELSE Finds(p, "healthy") /\ Submit(p, "ok")
  /\ Goto(p, "finally")
  /\ UNCHANGED <<back, broker, initialized, heard>>

Judge(p) ==
  /\ At(p, "judge")
  /\ IF broker[p] \in {"nonzero", "killed"}
     THEN Finds(p, "proxy-exit-nonzero") /\ Submit(p, "failed")
     ELSE Finds(p, "healthy") /\ Submit(p, "ok")
  /\ Goto(p, "finally")
  /\ UNCHANGED <<back, broker, initialized, heard>>

\* Mutation: the broker is stopped only where a verdict was reached.
BugFinally(p) ==
  /\ At(p, "finally")
  /\ Goto(p, "done")
  /\ Quiet /\ UNCHANGED <<back, broker, loopVars>>

Finally(p) ==
  /\ At(p, "finally")
  /\ IF Exited(p) THEN Goto(p, "done") /\ UNCHANGED back
     ELSE Goto(p, "term") /\ back' = [back EXCEPT ![p] = "done"]
  /\ Quiet /\ UNCHANGED <<broker, loopVars>>

Stop(p) == Term(p) \/ Kill(p) \/ GiveUp(p)
Loop(p) == TimeOut(p) \/ Select(p) \/ Poll(p) \/ Read(p)
Attempt(p) ==
  Begin(p) \/ Greet(p) \/ Loop(p) \/ Close(p) \/ Wait(p) \/ Stop(p) \/ Judge(p) \/ Finally(p)

\* The report ends with the recent events.
Report(p) ==
  /\ At(p, "done")
  /\ finding[p] # "raised"
  /\ ReadFile(p)
  /\ UNCHANGED <<pc, back, broker, loopVars>>

Journaling(w) == Work(w) /\ UNCHANGED <<pc, back, broker, loopVars>>

-----------------------------------------------------------------------------
(* The broker and the kernel.                                              *)

End(p) ==
  /\ \/ /\ broker[p] = "running"
        /\ \E e \in {"zero", "nonzero"} : broker' = [broker EXCEPT ![p] = e]
     \/ /\ broker[p] = "dying"
        /\ broker' = [broker EXCEPT ![p] = "killed"]
  /\ Quiet /\ UNCHANGED <<pc, back, loopVars>>

\* An event of a broker.
Note(b) ==
  /\ Idle(b)
  /\ Len(recorded[b]) < MaxNotes
  /\ Submit(b, "note")
  /\ UNCHANGED <<pc, back, broker, loopVars>>

KillDoctor(p) ==
  /\ MayKill
  /\ pc[p] \notin {"begin", "dead"}
  /\ pc[p] = "done" => ~Idle(p)
  /\ Goto(p, "dead")
  /\ Abandon(p)
  /\ UNCHANGED <<back, broker, loopVars>>

KillBroker(b) ==
  /\ MayKill
  /\ ~Idle(b)
  /\ Abandon(b)
  /\ UNCHANGED <<pc, back, broker, loopVars>>

Next ==
  \/ \E p \in Attempts : Attempt(p) \/ Report(p) \/ End(p) \/ KillDoctor(p)
  \/ \E b \in Brokers : Note(b) \/ KillBroker(b)
  \/ \E w \in Writers : Journaling(w)

Spec == Init /\ [][Next]_vars

\* Doctors run on, a flock that is released again and again is granted, and
\* deadlines pass; brokers have to do nothing.
FairSpec ==
  /\ Spec
  /\ \A p \in Attempts : WF_vars(Attempt(p)) /\ SF_vars(TimeOut(p))
  /\ \A w \in Writers : WF_vars(Journaling(w)) /\ SF_vars(Enter(w) /\ Journaling(w))

-----------------------------------------------------------------------------
(* Properties.                                                             *)

TypeOK ==
  /\ JournalTypeOK
  /\ event \in [Writers -> Kinds \cup {"none"}]
  /\ recorded \in [Writers -> Seq(Fates)]
  /\ pc \in [Attempts -> Stages]
  /\ back \in [Attempts -> {"judge", "finally", "done"}]
  /\ broker \in [Attempts -> {"none", "running", "dying", "zero", "nonzero", "killed"}]
  /\ initialized \subseteq Attempts
  /\ finding \in [Attempts -> Findings]
  /\ heard \in [Attempts -> Seq(Messages)]

\* "Accept the handshake only when at least one of [the expected tools] appears":
\* healthy means that initialize was answered, then a list with such a tool came,
\* nothing out of order in between, and that the broker did not end badly, unless
\* it had to be killed and was not yet dead when its exit status was looked at.
HealthyIsEarned ==
  \A p \in Attempts : finding[p] = "healthy" =>
    LET n == Len(heard[p]) IN
    /\ n > 1 /\ heard[p][n] = "tools"
    /\ \A i \in 1..n - 1 : heard[p][i] = "initialized"
    /\ broker[p] # "nonzero"

\* The events of an attempt that has returned are its beginnings and then one
\* verdict, the one the caller got (none, for a probe that raised), and each has
\* become a line of the journal, unless append has reported it lost or has put it
\* behind a part of a line.
Verdict(p) ==
  IF finding[p] = "healthy" THEN "ok" ELSE IF finding[p] \in Failures THEN "failed" ELSE "none"
OnlyBegun(s, n) == \A i \in 1..n : s[i] \in {"begun", "lost", "spoilt"}
VerdictIsJournaled ==
  \A p \in Attempts : At(p, "done") =>
    LET s == recorded[p]
        n == Len(s)
    IN
    IF Verdict(p) = "none" THEN OnlyBegun(s, n)
    ELSE n > 0 /\ OnlyBegun(s, n - 1) /\ s[n] \in {Verdict(p), "lost", "spoilt"}

\* An attempt that returns, also by an exception, leaves no broker behind that
\* has not ended or been sent KILL.
NoProbeLeft ==
  \A p \in Attempts : pc[p] = "done" => broker[p] # "running"

\* Whatever is renamed while recent reads, it shows no line twice and none before
\* an older one.
RecentInOrder ==
  \A r \in Readers : \A i, j \in DOMAIN got[r] : i < j => got[r][i] < got[r][j]

\* The journal implements the log of EventLog: whoever rotates and is killed over
\* it, whatever the disk does, only the oldest lines go.
Log == INSTANCE EventLog WITH log <- Contents, Keep <- Capacity * Certain
JournalIsLog == Log!Spec

\* A handshake ends, whatever its broker does or leaves undone.
EveryHandshakeEnds ==
  \A p \in Attempts : pc[p] = "greet" ~> pc[p] \in {"done", "dead"}
=============================================================================
