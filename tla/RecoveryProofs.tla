--------------------------- MODULE RecoveryProofs ---------------------------
(***************************************************************************)
(* ProjectRecovery for any number of doctors, roots and starts of the IDE: *)
(* whom a doctor may signal, and what a recovery by a restart means.       *)
(***************************************************************************)
EXTENDS ProjectRecovery, TLAPS

-----------------------------------------------------------------------------
(* The inductive invariant.                                                *)

\* Start numbers are given out once and in order; only the last IntelliJ runs.
Numbers ==
  /\ ide \in {0, starts}
  /\ runtime <= starts
  /\ \A d \in Doctors : judged[d] <= starts

Early == {"audit", "open", "audit-opened", "state", "hung"}
Silent(d) == \A s \in signals : s.by # d
TermOf(d) == [by |-> d, to |-> judged[d], signal |-> "TERM"]

\* A doctor that cannot reach the IDE does not get past the opener.
KeptOut(d) == d \in denied => pc[d] \in {"audit", "open", "audit-opened", "done"}

\* What a doctor has found out about the IntelliJ it may stop.  While that one
\* runs every failed probe was a hang, because it cannot have come back.
Evidence(d) ==
  /\ pc[d] \in Early => Silent(d) /\ fails[d] = 0 /\ hangs[d] = 0
  /\ pc[d] = "probe" =>
       /\ Silent(d)
       /\ judged[d] # 0
       /\ fails[d] < Probes
       /\ hangs[d] <= fails[d]
       /\ ide = judged[d] => hangs[d] = fails[d]
  /\ pc[d] = "term" => Silent(d) /\ judged[d] # 0 /\ (ide = judged[d] => hangs[d] = Probes)
  /\ pc[d] \in {"term-wait", "kill"} => TermOf(d) \in signals /\ hangs[d] = Probes
  /\ pc[d] \in {"term-wait", "kill", "kill-wait"} => judged[d] # 0

\* What has stopped does not come back; a doctor that ps has failed has sent TERM
\* to what it takes for stopped.
Told(d) == TermOf(d) \in signals
Stopped(d) ==
  /\ pc[d] = "kill-wait" => Told(d)
  /\ pc[d] \in {"reopen", "audit-restarted"} =>
       judged[d] # 0 /\ (ide # judged[d] \/ (d \in misled /\ Told(d)))
  /\ status[d] = "recovered-after-ide-restart" =>
       pc[d] = "done" /\ (served[d] > judged[d] \/ (d \in misled /\ Told(d)))

Course(d) == KeptOut(d) /\ Evidence(d) /\ Stopped(d)

RecoveryInv ==
  /\ TypeOK
  /\ Numbers
  /\ \A d \in Doctors : Course(d)
  /\ SignalsAreEarned

LEMMA RecoveryInit == Init => RecoveryInv
<1> SUFFICES ASSUME Init PROVE RecoveryInv
  OBVIOUS
<1>1. TypeOK
  <2>1. ide \in {0} \cup Generations /\ starts \in 0..MaxStarts
    BY RecoveryAssumption DEF Init, Generations
  <2>4. hung \in BOOLEAN /\ doomed \subseteq Generations /\ runtime \in {0} \cup Generations
    BY DEF Init
  <2>2. window \in [Roots -> States] /\ pc \in [Doctors -> Stages] /\ status \in [Doctors -> Outcomes]
    BY DEF Init, States, Stages, Outcomes
  <2>3. /\ judged \in [Doctors -> {0} \cup Generations] /\ served \in [Doctors -> {0} \cup Generations]
        /\ fails \in [Doctors -> 0..Probes] /\ hangs \in [Doctors -> 0..Probes]
    BY RecoveryAssumption DEF Init
  <2> QED
    BY <2>1, <2>2, <2>3, <2>4 DEF Init, TypeOK
<1>2. Numbers
  BY DEF Init, Numbers
<1>3. ASSUME NEW d \in Doctors PROVE Course(d)
  BY RecoveryAssumption DEF Init, Course, KeptOut, Evidence, Silent, Stopped, Early
<1>4. SignalsAreEarned
  BY DEF Init, SignalsAreEarned
<1> QED
  BY <1>1, <1>2, <1>3, <1>4 DEF RecoveryInv

-----------------------------------------------------------------------------
(* Steps of a doctor that judge and signal nobody.                         *)

Moves(d) ==
  /\ pc' = [pc EXCEPT ![d] = pc'[d]] /\ pc'[d] \in Stages
  /\ status' = [status EXCEPT ![d] = status'[d]] /\ status'[d] \in Outcomes
  /\ served' = [served EXCEPT ![d] = served'[d]] /\ served'[d] \in {0} \cup Generations
  /\ window' \in [Roots -> States]
  /\ UNCHANGED <<ide, starts, hung, doomed, runtime, denied, judged, fails, signals, hangs>>
  /\ misled' \in {misled, misled \cup {d}}
  /\ pc[d] # "done"
  /\ d \in denied => pc'[d] \in {"audit", "open", "audit-opened", "done"}
  /\ pc'[d] \in Early => pc[d] \in Early
  /\ pc'[d] \notin {"probe", "term", "term-wait", "kill-wait"}
  /\ pc'[d] = "kill" => pc[d] = "term-wait"
  /\ pc'[d] \in {"reopen", "audit-restarted"} =>
       judged[d] # 0 /\ (ide # judged[d] \/ (d \in misled' /\ Told(d)))
  /\ status'[d] = "recovered-after-ide-restart" =>
       \/ pc'[d] = "done" /\ (served'[d] > judged[d] \/ (d \in misled' /\ Told(d)))
       \/ status'[d] = status[d]

LEMMA MoveStep ==
  ASSUME RecoveryInv, NEW d \in Doctors, Moves(d)
  PROVE  RecoveryInv'
<1>1. TypeOK'
  BY DEF RecoveryInv, TypeOK, Moves
<1>2. Numbers'
  BY DEF RecoveryInv, Numbers, Moves
<1>3. ASSUME NEW e \in Doctors PROVE Course(e)'
  <2>0. /\ Course(e)
        /\ UNCHANGED <<ide, denied, judged, fails, signals, hangs>>
        /\ pc \in [Doctors -> Stages] /\ status \in [Doctors -> Outcomes]
        /\ served \in [Doctors -> {0} \cup Generations]
        /\ Told(e)' = Told(e)
        /\ e # d => (e \in misled' <=> e \in misled)
    BY DEF RecoveryInv, TypeOK, Moves, Told, TermOf
  <2>1. CASE e = d
    <3>1. KeptOut(e)'
      BY <2>0, <2>1 DEF KeptOut, Moves
    <3>2. Evidence(e)'
      BY <2>0, <2>1 DEF Course, Evidence, Silent, TermOf, Moves, Early
    <3>3. Stopped(e)'
      BY <2>0, <2>1 DEF Course, Stopped, Moves
    <3> QED
      BY <3>1, <3>2, <3>3 DEF Course
  <2>2. CASE e # d
    <3>1. pc'[e] = pc[e] /\ status'[e] = status[e] /\ served'[e] = served[e]
      BY <2>0, <2>2 DEF Moves
    <3> QED
      BY <2>0, <2>2, <3>1 DEF Course, KeptOut, Evidence, Silent, TermOf, Stopped
  <2> QED
    BY <2>1, <2>2
<1>4. SignalsAreEarned'
  BY DEF RecoveryInv, SignalsAreEarned, Moves
<1> QED
  BY <1>1, <1>2, <1>3, <1>4 DEF RecoveryInv

\* What an audit can say.
LEMMA AuditResult ==
  ASSUME NEW d \in Doctors, NEW s \in Audits(d)
  PROVE  /\ s \in {"healthy", "missing", "unhealthy"}
         /\ d \in denied => s = "missing"
         /\ s = "healthy" => ide # 0
  BY DEF Audits

\* Nobody whose audit or snapshot could be of use is denied.
LEMMA Bearings ==
  ASSUME RecoveryInv, NEW d \in Doctors
  PROVE  /\ pc \in [Doctors -> Stages]
         /\ status \in [Doctors -> Outcomes]
         /\ served \in [Doctors -> {0} \cup Generations]
         /\ judged \in [Doctors -> {0} \cup Generations]
         /\ window \in [Roots -> States]
         /\ RootOf[d] \in Roots
         /\ ide \in {0} \cup Generations
         /\ KeptOut(d)
         /\ ide # 0 /\ ide # judged[d] => ide > judged[d]
<1>1. /\ TypeOK /\ Numbers /\ Course(d)
  BY DEF RecoveryInv
<1>2. ide # 0 /\ ide # judged[d] => ide > judged[d]
  BY <1>1, RecoveryAssumption DEF TypeOK, Numbers, Generations
<1> QED
  BY <1>1, <1>2, RecoveryAssumption DEF TypeOK, Course

LEMMA AuditMoves ==
  ASSUME RecoveryInv, NEW d \in Doctors,
         FirstAudit(d) \/ AuditOpened(d) \/ Retry(d) \/ AuditRestarted(d) \/ AuditRecycled(d)
  PROVE  Moves(d)
<1> USE Bearings
<1>1. CASE FirstAudit(d)
  BY <1>1, AuditResult DEF FirstAudit, Audit, Ends, Continue, Goto, World, ideVars, Moves, Stages, Outcomes, Early
<1>2. CASE AuditOpened(d)
  BY <1>2, AuditResult DEF AuditOpened, StillMissing, Audit, Ends, Continue, Goto, World, ideVars, Moves, Stages, Outcomes, Early
<1>3. CASE Retry(d)
  BY <1>3, AuditResult DEF Retry, Audit, Ends, Continue, Goto, World, ideVars, Moves, Stages, Outcomes, Early, KeptOut
<1>4. CASE AuditRestarted(d)
  <2>1. pc[d] = "audit-restarted" =>
          judged[d] # 0 /\ (ide # judged[d] \/ (d \in misled /\ Told(d)))
    BY DEF RecoveryInv, Course, Stopped
  <2> QED
    BY <1>4, <2>1, AuditResult DEF AuditRestarted, Audit, Ends, Continue, Goto, World, ideVars, Moves, Stages, Outcomes, Early, KeptOut
<1>5. CASE AuditRecycled(d)
  BY <1>5, AuditResult DEF AuditRecycled, StillUnhealthy, Audit, Ends, Continue, Goto, World, ideVars, Moves, Stages, Outcomes, Early, KeptOut
<1> QED
  BY <1>1, <1>2, <1>3, <1>4, <1>5

LEMMA OpenerMoves ==
  ASSUME RecoveryInv, NEW d \in Doctors, Open(d) \/ Reopen(d) \/ ReopenWindow(d)
  PROVE  Moves(d)
<1> USE Bearings DEF Opens, Ends, Continue, Goto, World, ideVars, historyVars, Moves, Stages, Outcomes, Early, KeptOut
<1>1. CASE Open(d)
  BY <1>1 DEF Open
<1>2. CASE Reopen(d)
  <2>1. pc[d] = "reopen" =>
          judged[d] # 0 /\ (ide # judged[d] \/ (d \in misled /\ Told(d)))
    BY DEF RecoveryInv, Course, Stopped
  <2> QED
    BY <1>2, <2>1 DEF Reopen
<1>3. CASE ReopenWindow(d)
  BY <1>3 DEF ReopenWindow
<1> QED
  BY <1>1, <1>2, <1>3

LEMMA WindowMoves ==
  ASSUME RecoveryInv, NEW d \in Doctors,
         State(d) \/ Indexing(d) \/ Recycle(d) \/ Close(d) \/ Closing(d) \/ Overrun(d)
  PROVE  Moves(d)
<1> USE Bearings DEF Ends, Continue, Goto, World, ideVars, historyVars, Moves, Stages, Outcomes, Early, KeptOut
<1>1. CASE State(d)
  BY <1>1 DEF State
<1>2. CASE Indexing(d)
  BY <1>2 DEF Indexing
<1>3. CASE Recycle(d)
  BY <1>3 DEF Recycle, StillUnhealthy
<1>4. CASE Close(d)
  BY <1>4 DEF Close, StillUnhealthy, States
<1>5. CASE Closing(d)
  BY <1>5 DEF Closing, StillUnhealthy
<1>6. CASE Overrun(d)
  BY <1>6 DEF Overrun
<1> QED
  BY <1>1, <1>2, <1>3, <1>4, <1>5, <1>6

LEMMA WaitMoves ==
  ASSUME RecoveryInv, NEW d \in Doctors, TermWait(d) \/ KillWait(d)
  PROVE  Moves(d)
<1> USE Bearings DEF Gone, Unknown, Ends, Continue, Goto, World, ideVars, historyVars, Moves, Stages, Outcomes, Early, KeptOut
<1>1. pc[d] \in {"term-wait", "kill-wait"} => judged[d] # 0 /\ Told(d)
  BY DEF RecoveryInv, Course, Evidence, Stopped, Told
<1>2. CASE TermWait(d)
  BY <1>1, <1>2 DEF TermWait
<1>3. CASE KillWait(d)
  BY <1>1, <1>3 DEF KillWait
<1> QED
  BY <1>2, <1>3

-----------------------------------------------------------------------------
(* Steps that judge or signal an IntelliJ.                                 *)

\* What is true of the other doctors when the step of one changes nothing they
\* rely on.
Bystanders(d) ==
  \A e \in Doctors \ {d} :
    /\ pc'[e] = pc[e] /\ status'[e] = status[e] /\ served'[e] = served[e]
    /\ judged'[e] = judged[e] /\ fails'[e] = fails[e] /\ hangs'[e] = hangs[e]

LEMMA BystanderStep ==
  ASSUME RecoveryInv, NEW d \in Doctors, Bystanders(d),
         UNCHANGED <<ide, denied, misled>>,
         signals \subseteq signals',
         \A s \in signals' \ signals : s.by = d
  PROVE  \A e \in Doctors \ {d} : Course(e)'
<1> SUFFICES ASSUME NEW e \in Doctors \ {d} PROVE Course(e)'
  OBVIOUS
<1>1. /\ Course(e)
      /\ pc'[e] = pc[e] /\ status'[e] = status[e] /\ served'[e] = served[e]
      /\ judged'[e] = judged[e] /\ fails'[e] = fails[e] /\ hangs'[e] = hangs[e]
      /\ Silent(e) => Silent(e)'
      /\ TermOf(e)' = TermOf(e)
      /\ Told(e) => Told(e)'
  BY DEF RecoveryInv, Bystanders, Silent, TermOf, Told
<1> QED
  BY <1>1 DEF Course, KeptOut, Evidence, Stopped

LEMMA RestartHungStep ==
  ASSUME RecoveryInv, NEW d \in Doctors, RestartHung(d)
  PROVE  RecoveryInv'
<1>1. CASE Unknown(d) /\ UNCHANGED judged
  <2>1. Moves(d)
    BY <1>1, Bearings DEF RestartHung, Unknown, Ends, Continue, Goto, World, ideVars, historyVars, Moves, Stages, Outcomes, Early, KeptOut
  <2> QED
    BY <2>1, MoveStep
<1>2. CASE /\ RuntimeClient # 0
           /\ judged' = [judged EXCEPT ![d] = RuntimeClient]
           /\ Continue(d, "probe")
  <2>0. /\ pc[d] = "hung" /\ pc' = [pc EXCEPT ![d] = "probe"]
        /\ runtime = ide /\ ide # 0
        /\ judged' = [judged EXCEPT ![d] = ide]
        /\ UNCHANGED <<ide, starts, hung, doomed, runtime, window, denied, fails, status, signals, hangs, misled, served>>
    BY <1>2 DEF RestartHung, RuntimeClient, Unknown, Ends, Continue, Goto, World, ideVars, historyVars
  <2>1. TypeOK /\ Numbers /\ SignalsAreEarned /\ \A e \in Doctors : Course(e)
    BY DEF RecoveryInv
  <2>2. TypeOK'
    BY <2>0, <2>1 DEF TypeOK, Stages
  <2>3. Numbers'
    BY <2>0, <2>1 DEF Numbers, TypeOK
  <2>4. Silent(d) /\ fails[d] = 0 /\ hangs[d] = 0
    BY <2>0, <2>1 DEF Course, Evidence, Early
  <2>5. Course(d)'
    <3>1. pc'[d] = "probe" /\ judged'[d] = ide /\ Silent(d)'
      BY <2>0, <2>1, <2>4 DEF TypeOK, Silent
    <3>2. Evidence(d)'
      BY <2>0, <2>4, <3>1, RecoveryAssumption DEF Evidence, Early
    <3>3. KeptOut(d)' /\ Stopped(d)'
      BY <2>0, <2>1, <3>1 DEF Course, KeptOut, Stopped
    <3> QED
      BY <3>2, <3>3 DEF Course
  <2>6. \A e \in Doctors \ {d} : Course(e)'
    <3>1. Bystanders(d)
      BY <2>0, <2>1 DEF Bystanders, TypeOK
    <3> QED
      BY <2>0, <3>1, BystanderStep
  <2>7. SignalsAreEarned'
    BY <2>0, <2>1, <2>4 DEF SignalsAreEarned, Silent, TypeOK
  <2> QED
    BY <2>2, <2>3, <2>5, <2>6, <2>7 DEF RecoveryInv
<1> QED
  BY <1>1, <1>2 DEF RestartHung

LEMMA ProbeStep ==
  ASSUME RecoveryInv, NEW d \in Doctors, Probe(d)
  PROVE  RecoveryInv'
<1>1. CASE UNCHANGED fails
  <2>1. pc[d] = "probe" /\ Unknown(d) /\ UNCHANGED <<fails, hangs>>
    BY <1>1, RecoveryAssumption DEF Probe, RecoveryInv, TypeOK
  <2>2. Moves(d)
    BY <2>1, Bearings DEF Probe, Unknown, Ends, Goto, World, ideVars, Moves, Stages, Outcomes, Early, KeptOut
  <2> QED
    BY <2>2, MoveStep
<1>2. CASE ~UNCHANGED fails
  <2>0. /\ pc[d] = "probe" /\ ~Responds(d) /\ fails[d] < Probes
        /\ fails' = [fails EXCEPT ![d] = @ + 1]
        /\ hangs' = [hangs EXCEPT ![d] = IF Validated(d) /\ hung THEN @ + 1 ELSE @]
        /\ pc' = [pc EXCEPT ![d] = IF fails[d] + 1 = Probes THEN "term" ELSE "probe"]
        /\ UNCHANGED <<ide, starts, hung, doomed, runtime, window, denied, judged, status, signals, misled, served>>
    BY <1>2 DEF Probe, Answered, Continue, Goto, World, ideVars
  <2>1. TypeOK /\ Numbers /\ SignalsAreEarned /\ \A e \in Doctors : Course(e)
    BY DEF RecoveryInv
  <2>2. /\ fails[d] \in Nat /\ hangs[d] \in Nat /\ Probes \in Nat
        /\ Silent(d) /\ judged[d] # 0 /\ d \notin denied
        /\ hangs[d] <= fails[d]
        /\ ide = judged[d] => hangs[d] = fails[d]
    BY <2>0, <2>1, RecoveryAssumption DEF TypeOK, Course, Evidence, KeptOut
  <2>3. /\ fails'[d] = fails[d] + 1
        /\ hangs'[d] \in {hangs[d], hangs[d] + 1}
        /\ ide = judged[d] => hangs'[d] = fails'[d]
        /\ pc'[d] = IF fails[d] + 1 = Probes THEN "term" ELSE "probe"
    BY <2>0, <2>1, <2>2, RecoveryAssumption DEF TypeOK, Validated, Responds, Generations
  <2>4. TypeOK'
    <3>1. fails' \in [Doctors -> 0..Probes] /\ hangs' \in [Doctors -> 0..Probes]
      BY <2>0, <2>1, <2>2, <2>3 DEF TypeOK
    <3> QED
      BY <2>0, <2>1, <3>1 DEF TypeOK, Stages
  <2>5. Numbers'
    BY <2>0, <2>1 DEF Numbers
  <2>6. Course(d)'
    <3>1. Silent(d)' /\ judged'[d] = judged[d] /\ status'[d] = status[d] /\ served'[d] = served[d]
      BY <2>0, <2>2 DEF Silent
    <3>2. Evidence(d)'
      BY <2>0, <2>2, <2>3, <3>1 DEF Evidence, Early
    <3>3. KeptOut(d)' /\ Stopped(d)'
      BY <2>0, <2>1, <2>2, <2>3, <3>1 DEF Course, KeptOut, Stopped
    <3> QED
      BY <3>2, <3>3 DEF Course
  <2>7. \A e \in Doctors \ {d} : Course(e)'
    <3>1. Bystanders(d)
      BY <2>0, <2>1 DEF Bystanders, TypeOK
    <3> QED
      BY <2>0, <3>1, BystanderStep
  <2>8. SignalsAreEarned'
    BY <2>0, <2>1, <2>2 DEF SignalsAreEarned, Silent, TypeOK
  <2> QED
    BY <2>4, <2>5, <2>6, <2>7, <2>8 DEF RecoveryInv
<1> QED
  BY <1>1, <1>2

\* A signal by d to the IntelliJ it has judged, which runs and is no other's.
LEMMA SignalStep ==
  ASSUME RecoveryInv, NEW d \in Doctors, NEW sig \in {"TERM", "KILL"}, NEW l,
         ide = judged[d], ide # 0,
         \/ sig = "TERM" /\ l = "term-wait" /\ pc[d] = "term"
         \/ sig = "KILL" /\ l = "kill-wait" /\ pc[d] = "kill",
         signals' = signals \cup {[by |-> d, to |-> ide, signal |-> sig]},
         pc' = [pc EXCEPT ![d] = l],
         doomed' \subseteq Generations,
         UNCHANGED <<ide, starts, hung, runtime, window, denied, judged, fails, status, hangs, misled, served>>
  PROVE  RecoveryInv'
<1> DEFINE new == [by |-> d, to |-> ide, signal |-> sig]
<1>1. TypeOK /\ Numbers /\ SignalsAreEarned /\ \A e \in Doctors : Course(e)
  BY DEF RecoveryInv
<1>2. pc'[d] = l /\ judged[d] \in Generations /\ ide \in Generations
  BY <1>1 DEF TypeOK
<1>3. hangs[d] = Probes /\ d \notin denied
  BY <1>1 DEF Course, Evidence, KeptOut
<1>4. TypeOK'
  <2>1. signals' \subseteq [by : Doctors, to : Generations, signal : {"TERM", "KILL"}]
    BY <1>1, <1>2 DEF TypeOK
  <2> QED
    BY <1>1, <2>1 DEF TypeOK, Stages
<1>5. Numbers'
  BY <1>1 DEF Numbers
<1>6. TermOf(d) \in signals'
  <2>1. CASE sig = "TERM"
    BY <2>1 DEF TermOf
  <2>2. CASE sig = "KILL"
    BY <2>2, <1>1 DEF Course, Evidence
  <2> QED
    BY <2>1, <2>2
<1>7. Course(d)'
  <2>1. Evidence(d)'
    BY <1>2, <1>3, <1>6 DEF Evidence, Early, TermOf
  <2>2. KeptOut(d)' /\ Stopped(d)'
    BY <1>1, <1>2, <1>3, <1>6 DEF Course, KeptOut, Stopped, Told, TermOf
  <2> QED
    BY <2>1, <2>2 DEF Course
<1>8. \A e \in Doctors \ {d} : Course(e)'
  <2>1. Bystanders(d)
    BY <1>1 DEF Bystanders, TypeOK
  <2> QED
    BY <2>1, BystanderStep
<1>9. SignalsAreEarned'
  <2> SUFFICES ASSUME NEW s \in signals'
               PROVE  /\ s.to = judged[s.by]
                      /\ hangs[s.by] = Probes
                      /\ s.by \notin denied
                      /\ s.signal = "KILL" => [s EXCEPT !.signal = "TERM"] \in signals'
    BY DEF SignalsAreEarned
  <2>1. CASE s \in signals
    BY <1>1, <2>1 DEF SignalsAreEarned
  <2>2. CASE s = new
    <3>1. s.by = d /\ s.to = ide /\ s.signal = sig /\ [s EXCEPT !.signal = "TERM"] = TermOf(d)
      BY <2>2 DEF TermOf
    <3> QED
      BY <1>3, <1>6, <3>1
  <2> QED
    BY <2>1, <2>2
<1> QED
  BY <1>4, <1>5, <1>7, <1>8, <1>9 DEF RecoveryInv

LEMMA TermStep ==
  ASSUME RecoveryInv, NEW d \in Doctors, Term(d)
  PROVE  RecoveryInv'
<1>1. CASE Unknown(d) /\ UNCHANGED signals
  <2>1. Moves(d)
    BY <1>1, Bearings DEF Term, Unknown, Ends, Goto, World, ideVars, Moves, Stages, Outcomes, Early, KeptOut
  <2> QED
    BY <2>1, MoveStep
<1>2. CASE Validated(d) /\ Sends(d, "TERM") /\ Continue(d, "term-wait")
  <2>1. doomed' \subseteq Generations
    BY <1>2 DEF Term, World, ideVars, RecoveryInv, TypeOK
  <2> QED
    BY <1>2, <2>1, SignalStep DEF Term, Validated, Sends, Continue, Goto, World, ideVars
<1> QED
  BY <1>1, <1>2 DEF Term

LEMMA KillStep ==
  ASSUME RecoveryInv, NEW d \in Doctors, Kill(d)
  PROVE  RecoveryInv'
<1>1. CASE Unknown(d) /\ UNCHANGED <<signals, doomed>>
  <2>1. Moves(d)
    BY <1>1, Bearings DEF Kill, Unknown, Ends, Goto, ideVars, Moves, Stages, Outcomes, Early, KeptOut
  <2> QED
    BY <2>1, MoveStep
<1>2. CASE Validated(d) /\ Sends(d, "KILL") /\ Continue(d, "kill-wait")
  <2>1. doomed' \subseteq Generations
    BY <1>2 DEF Kill, Validated, RecoveryInv, TypeOK
  <2> QED
    BY <1>2, <2>1, SignalStep DEF Kill, Validated, Sends, Continue, Goto
<1> QED
  BY <1>1, <1>2 DEF Kill

-----------------------------------------------------------------------------
(* Steps of the IDE.                                                       *)

\* An IntelliJ starts under a new number, goes on, or ends.
IdeMoves ==
  /\ \/ ide' = ide /\ starts' = starts
     \/ ide = 0 /\ ide' = starts + 1 /\ starts' = starts + 1 /\ starts < MaxStarts
     \/ ide' = 0 /\ starts' = starts
  /\ hung' \in BOOLEAN
  /\ runtime' \in {runtime, ide}
  /\ window' \in [Roots -> States]
  /\ UNCHANGED <<doomed, denied, pc, judged, fails, status, signals, hangs, misled, served>>

LEMMA IdeStep ==
  ASSUME RecoveryInv, IdeMoves
  PROVE  RecoveryInv'
<1>1. TypeOK /\ Numbers /\ SignalsAreEarned /\ \A e \in Doctors : Course(e)
  BY DEF RecoveryInv
<1>2. TypeOK'
  <2>1. ide' \in {0} \cup Generations /\ starts' \in 0..MaxStarts /\ runtime' \in {0} \cup Generations
    BY <1>1, RecoveryAssumption DEF TypeOK, IdeMoves, Generations
  <2> QED
    BY <1>1, <2>1 DEF TypeOK, IdeMoves
<1>3. Numbers'
  BY <1>1, RecoveryAssumption DEF Numbers, TypeOK, IdeMoves, Generations
<1>4. ASSUME NEW e \in Doctors PROVE Course(e)'
  <2>1. judged[e] # 0 /\ ide # judged[e] => ide' # judged[e]
    BY <1>1, RecoveryAssumption DEF Numbers, TypeOK, IdeMoves, Generations
  <2>2. UNCHANGED <<denied, pc, judged, fails, status, signals, hangs, misled, served>>
    BY DEF IdeMoves
  <2>3. Course(e)
    BY <1>1
  <2> QED
    BY <2>1, <2>2, <2>3 DEF Course, KeptOut, Evidence, Silent, TermOf, Stopped, Told
<1>5. SignalsAreEarned'
  BY <1>1 DEF SignalsAreEarned, IdeMoves
<1> QED
  BY <1>2, <1>3, <1>4, <1>5 DEF RecoveryInv

LEMMA OutsideStep ==
  ASSUME RecoveryInv, Start \/ Publish \/ Hang \/ Exit \/ \E r \in Roots : Live(r)
  PROVE  RecoveryInv'
<1> USE DEF Outside, doctorVars, historyVars, ideVars, IdeMoves
<1>1. TypeOK
  BY DEF RecoveryInv
<1>2. CASE Start
  BY <1>1, <1>2, IdeStep DEF Start, TypeOK
<1>3. CASE Publish
  BY <1>1, <1>3, IdeStep DEF Publish, TypeOK
<1>4. CASE Hang
  BY <1>1, <1>4, IdeStep DEF Hang, TypeOK
<1>5. CASE Exit
  BY <1>1, <1>5, IdeStep DEF Exit, TypeOK, States
<1>6. CASE \E r \in Roots : Live(r)
  <2>1. PICK r \in Roots : Live(r)
    BY <1>6
  <2>2. Moved(r) \subseteq States
    BY DEF Moved, States
  <2>3. window' \in [Roots -> States]
    BY <1>1, <2>1, <2>2 DEF Live, TypeOK
  <2> QED
    BY <1>1, <2>1, <2>3, IdeStep DEF Live, TypeOK
<1> QED
  BY <1>2, <1>3, <1>4, <1>5, <1>6

-----------------------------------------------------------------------------
(* Theorems.                                                               *)

LEMMA RecoveryStep == RecoveryInv /\ [Next]_vars => RecoveryInv'
<1> SUFFICES ASSUME RecoveryInv, [Next]_vars PROVE RecoveryInv'
  OBVIOUS
<1>1. ASSUME NEW d \in Doctors, Recover(d) PROVE RecoveryInv'
  <2>1. CASE FirstAudit(d) \/ AuditOpened(d) \/ Retry(d) \/ AuditRestarted(d) \/ AuditRecycled(d)
    BY <2>1, AuditMoves, MoveStep
  <2>2. CASE Open(d) \/ Reopen(d) \/ ReopenWindow(d)
    BY <2>2, OpenerMoves, MoveStep
  <2>3. CASE State(d) \/ Indexing(d) \/ Recycle(d) \/ Close(d) \/ Closing(d) \/ Overrun(d)
    BY <2>3, WindowMoves, MoveStep
  <2>4. CASE TermWait(d) \/ KillWait(d)
    BY <2>4, WaitMoves, MoveStep
  <2>5. CASE RestartHung(d) \/ Probe(d) \/ Term(d) \/ Kill(d)
    BY <2>5, RestartHungStep, ProbeStep, TermStep, KillStep
  <2> QED
    BY <1>1, <2>1, <2>2, <2>3, <2>4, <2>5 DEF Recover, RestartIde, RecycleWindow, Stop
<1>2. CASE UNCHANGED vars
  BY <1>2 DEF vars, ideVars, doctorVars, historyVars, RecoveryInv, TypeOK, Numbers, Course,
              KeptOut, Evidence, Silent, TermOf, Stopped, Told, SignalsAreEarned
<1> QED
  BY <1>1, <1>2, OutsideStep DEF Next

\* The strengthened invariant: what a doctor has found out about the IntelliJ it
\* may stop stays true whatever the IDE and the other doctors do.
THEOREM RecoveryInvariance == Spec => []RecoveryInv
  BY RecoveryInit, RecoveryStep, PTL DEF Spec

\* Every state of the doctors, of their evidence and of the IDE is well-formed.
THEOREM RecoveryTypeCorrect == Spec => []TypeOK
<1>1. RecoveryInv => TypeOK
  BY DEF RecoveryInv
<1> QED
  BY <1>1, RecoveryInvariance, PTL

\* For any doctors, roots and number of probes: only an IntelliJ that a doctor
\* has itself found hung at every probe is signalled by it, never its successor,
\* never from a sandbox that cannot reach it, and TERM before KILL.
THEOREM OnlyTheHungAreSignalled == Spec => []SignalsAreEarned
<1>1. RecoveryInv => SignalsAreEarned
  BY DEF RecoveryInv
<1> QED
  BY <1>1, RecoveryInvariance, PTL

\* A recovery by a restart ends with a healthy service of a later IntelliJ, unless
\* ps has failed while the doctor waited for the end of one it had sent TERM.
THEOREM RestartsAreReal == Spec => []RestartIsReal
<1>1. RecoveryInv => RestartIsReal
  BY DEF RecoveryInv, Course, Stopped, Restarted, Told, TermOf, RestartIsReal
<1> QED
  BY <1>1, RecoveryInvariance, PTL
=============================================================================
