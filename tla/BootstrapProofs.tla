-------------------------- MODULE BootstrapProofs --------------------------
(***************************************************************************)
(* Bootstrap for every number of worktrees, calls, definitions and         *)
(* installers: one call at a time installs, a record says what is there, a *)
(* prepared worktree is only read, and custom commands run as approved.    *)
(*                                                                         *)
(* What makes this inductive: whoever installs holds the lock of its       *)
(* worktree, whose record is gone; what it has seen is still so unless     *)
(* somebody edited, so what it has installed up to now is of what it saw;  *)
(* and a call whose worktree is prepared has read just that.               *)
(***************************************************************************)
EXTENDS Bootstrap, TLAPS

Installing == {"invalidate", "start", "install", "verify", "write"}
Building == {"start", "install", "verify", "write"}
\* After the plan, the approval, the fingerprint.
Planned == {"approve", "fingerprint", "record", "judge"} \cup Installing
Approving == {"fingerprint", "record", "judge"} \cup Installing
Fingerprinted == {"record", "judge"} \cup Installing

\* Who installs holds the lock, and nobody holds one that is not at work.
LockIsValid ==
  /\ \A c \in Calls :
       /\ worktree[c] # None <=> pc[c] \notin {"idle", "decide"}
       /\ pc[c] \in Installing => lock[worktree[c]] = c
  /\ \A c \in Calls, w \in Worktrees :
       lock[w] = c => worktree[c] = w /\ pc[c] # "lock"

\* What was planned is the definition until the approval is checked, and an
\* approval that has been in force since is among the consented ones.
PlanIsValid ==
  \A c \in Calls :
    /\ pc[c] \in Planned => plan[c] \in Definitions
    /\ pc[c] = "approve" /\ c \notin moved =>
         plan[c] = definition[worktree[c]] /\ approval \in consented[c] \cup {None}
    /\ pc[c] \in Approving /\ c \notin moved /\ plan[c] \in Custom =>
         Digest(worktree[c], plan[c]) \in consented[c]

\* A fingerprint is that of the plan, and of the inputs unless they were edited;
\* an installer is at one of its steps.
SeenIsValid ==
  \A c \in Calls :
    /\ pc[c] \in Fingerprinted =>
         /\ seen[c] \in Fingerprints /\ seen[c].plan = plan[c]
         /\ c \notin edited /\ pc[c] # "write" => seen[c].inputs = inputs[worktree[c]]
    /\ pc[c] \in {"start", "install"} => step[c] \in 1..StepsOf[plan[c]]
    /\ pc[c] = "install" =>
         taken[c] \in Inputs /\ (c \notin edited => taken[c] = seen[c].inputs)

\* What a call has installed so far is of what it has seen.
Made(c, k) ==
  env[worktree[c]][k] \in
    {Absent, [plan |-> seen[c].plan, inputs |-> seen[c].inputs]}
Progress(c) ==
  /\ record[worktree[c]] = None
  /\ worktree[c] \notin disturbed =>
       /\ pc[c] \in {"start", "install"} /\ c \notin edited =>
            \A k \in Steps : k < step[c] => Made(c, k)
       /\ \/ pc[c] = "verify" /\ c \notin edited
          \/ pc[c] = "write" /\ worktree[c] \notin reverted
          => \A k \in 1..StepsOf[plan[c]] : Made(c, k)
WorkIsMade == \A c \in Calls : pc[c] \in Building => Progress(c)

\* A call whose worktree is prepared has read what makes it so.
Current(c) ==
  /\ pc[c] \in {"plan", "approve", "fingerprint", "record", "judge"}
  /\ lock[worktree[c]] # c
  /\ pc[c] # "plan" => plan[c] = definition[worktree[c]]
  /\ pc[c] \in {"record", "judge"} =>
       seen[c] = Fingerprint(definition[worktree[c]], worktree[c])
  /\ pc[c] = "judge" => c \in hit
HitIsValid ==
  \A c \in settled :
    /\ worktree[c] # None /\ Prepared(worktree[c])
    /\ c \notin forced => Current(c)

StInv ==
  /\ TypeOK
  /\ LockIsValid
  /\ PlanIsValid
  /\ SeenIsValid
  /\ WorkIsMade
  /\ RecordIsEarned
  /\ HitIsValid

\* Types of what is shared, of what each call has read, of the stages, of the sets.
SharedType ==
  /\ definition \in [Worktrees -> Definitions] /\ inputs \in [Worktrees -> Inputs]
  /\ events \in 0..MaxEvents
  /\ approval \in Digests \cup {None}
  /\ record \in [Worktrees -> Fingerprints \cup {None}]
  /\ env \in [Worktrees -> [Steps -> Results \cup {Absent, Partial}]]
  /\ lock \in [Worktrees -> Calls \cup {None}]
CallType ==
  /\ worktree \in [Calls -> Worktrees \cup {None}]
  /\ plan \in [Calls -> Definitions \cup {None}]
  /\ seen \in [Calls -> Fingerprints \cup {None}]
  /\ step \in [Calls -> Steps \cup {0}]
  /\ taken \in [Calls -> Inputs \cup {None}]
  /\ verdict \in [Calls -> Digests \cup {None}]
StageType == pc \in [Calls -> Stages]
SetType ==
  /\ orphans \in SUBSET Installers
  /\ forced \in SUBSET Calls /\ hit \in SUBSET Calls
  /\ consented \in [Calls -> SUBSET Digests]
  /\ moved \in SUBSET Calls /\ edited \in SUBSET Calls
  /\ reverted \in SUBSET Worktrees /\ disturbed \in SUBSET Worktrees

\* They are the type, given that of the settled calls.
LEMMA TypesOfParts ==
  /\ TypeOK => SharedType /\ CallType /\ StageType /\ SetType
  /\ Witness /\ SharedType' /\ CallType' /\ StageType' /\ SetType' => TypeOK'
<1> USE DEF TypeOK, SharedType, CallType, StageType, SetType
<1>1. Witness => settled' \in SUBSET Calls
  BY DEF Witness
<1> QED
  BY <1>1, Zenon

\* Where a call at work is, and what it knows.
LEMMA Bearings ==
  ASSUME StInv, NEW c \in Calls, pc[c] \notin {"idle", "decide"}
  PROVE  /\ worktree[c] \in Worktrees
         /\ pc[c] \in Planned => plan[c] \in Definitions /\ StepsOf[plan[c]] \in Steps
         /\ pc[c] \in {"start", "install"} => step[c] \in 1..StepsOf[plan[c]]
         /\ pc[c] = "install" => taken[c] \in Inputs
<1>1. worktree[c] \in Worktrees
  BY DEF StInv, TypeOK, LockIsValid
<1>2. pc[c] \in Planned => plan[c] \in Definitions
  BY DEF StInv, PlanIsValid
<1> QED
  BY <1>1, <1>2, BootstrapAssumption DEF StInv, SeenIsValid

\* The installers of a record are numbered.
LEMMA StepsOfRecords ==
  ASSUME StInv
  PROVE  \A w \in Worktrees :
           record[w] # None =>
             \A k \in 1..StepsOf[record[w].plan] : k \in Steps
<1>1. \A w \in Worktrees : record[w] # None => StepsOf[record[w].plan] \in Steps
  BY BootstrapAssumption DEF StInv, TypeOK, Fingerprints
<1> QED
  BY <1>1, BootstrapAssumption DEF Steps

\* Two calls that install are in different worktrees.
LEMMA Elsewhere ==
  ASSUME StInv, NEW c \in Calls, NEW x \in Calls, c # x,
         pc[c] \in Installing, pc[x] \in Installing
  PROVE  worktree[c] # worktree[x]
BY DEF StInv, LockIsValid

\* A call of a prepared worktree had one, unless it has just begun.
LEMMA Settled ==
  ASSUME Witness, NEW x \in settled'
  PROVE  /\ x \in Calls /\ worktree'[x] # None /\ Prepared(worktree[x])'
         /\ x \in settled \/ worktree[x] = None
BY DEF Witness

\* The invariant holds at first.
LEMMA BootstrapInitInv == Init => StInv
<1> SUFFICES ASSUME Init PROVE StInv
  OBVIOUS
<1> USE BootstrapAssumption DEF Init
<1>1. TypeOK
  <2>1. pc \in [Calls -> Stages]
    BY DEF Stages
  <2>2. /\ definition \in [Worktrees -> Definitions] /\ inputs \in [Worktrees -> Inputs]
        /\ record \in [Worktrees -> Fingerprints \cup {None}]
        /\ env \in [Worktrees -> [Steps -> Results \cup {Absent, Partial}]]
        /\ lock \in [Worktrees -> Calls \cup {None}]
        /\ worktree \in [Calls -> Worktrees \cup {None}]
    OBVIOUS
  <2>3. /\ plan \in [Calls -> Definitions \cup {None}]
        /\ seen \in [Calls -> Fingerprints \cup {None}]
        /\ step \in [Calls -> Steps \cup {0}]
        /\ taken \in [Calls -> Inputs \cup {None}]
        /\ verdict \in [Calls -> Digests \cup {None}]
        /\ consented \in [Calls -> SUBSET Digests]
    OBVIOUS
  <2>4. events \in 0..MaxEvents /\ approval \in Digests \cup {None}
    OBVIOUS
  <2>5. /\ orphans \in SUBSET Installers
        /\ forced \in SUBSET Calls /\ hit \in SUBSET Calls
        /\ moved \in SUBSET Calls /\ edited \in SUBSET Calls /\ settled \in SUBSET Calls
        /\ reverted \in SUBSET Worktrees /\ disturbed \in SUBSET Worktrees
    BY Zenon
  <2> QED
    BY <2>1, <2>2, <2>3, <2>4, <2>5 DEF TypeOK
<1>2. LockIsValid /\ PlanIsValid /\ SeenIsValid
  BY
  DEF LockIsValid, PlanIsValid, SeenIsValid, Planned, Approving, Fingerprinted,
      Installing
<1>3. WorkIsMade /\ RecordIsEarned /\ HitIsValid
  BY DEF WorkIsMade, RecordIsEarned, HitIsValid, Current, Building
<1> QED
  BY <1>1, <1>2, <1>3 DEF StInv

\* A call that ends, with or without a record, keeps the invariant.
LEMMA EndInv ==
  ASSUME StInv, Witness, NEW c \in Calls, End(c),
         UNCHANGED <<definition, inputs, approval, env, reverted, disturbed>>,
         orphans' \in SUBSET Installers, events' \in 0..MaxEvents,
         \/ record' = record
         \/ pc[c] = "write" /\ record' = [record EXCEPT ![worktree[c]] = seen[c]]
  PROVE  StInv'
<1> USE DEF StInv, Goto, Holds, userVars, sharedVars, callVars, historyVars
<1>1. TypeOK'
  <2>1. SharedType'
    BY BootstrapAssumption, TypesOfParts
    DEF End, Forget, Unlock, SharedType, CallType
  <2>2. CallType'
    BY BootstrapAssumption, TypesOfParts
    DEF End, Forget, Unlock, SharedType, CallType
  <2>3. StageType'
    BY BootstrapAssumption, TypesOfParts DEF End, Forget, Unlock, StageType, Stages
  <2>4. SetType'
    BY BootstrapAssumption, TypesOfParts
    DEF End, Forget, Unlock, SetType, SharedType
  <2> QED
    BY <2>1, <2>2, <2>3, <2>4, TypesOfParts
<1>2. LockIsValid'
  BY BootstrapAssumption DEF End, Forget, Unlock, TypeOK, LockIsValid, Installing
<1>3. PlanIsValid'
  BY BootstrapAssumption
  DEF End, Forget, Unlock, TypeOK, LockIsValid, PlanIsValid, Planned, Approving,
      Installing
<1>4. SeenIsValid'
  BY BootstrapAssumption
  DEF End, Forget, Unlock, TypeOK, LockIsValid, PlanIsValid, SeenIsValid, Planned,
      Fingerprinted, Installing
<1>5. WorkIsMade'
  <2> SUFFICES ASSUME NEW x \in Calls, pc'[x] \in Building PROVE Progress(x)'
    BY DEF WorkIsMade
  <2>1. x # c /\ pc[x] \in Building /\ Progress(x)
    BY DEF End, Forget, Building, WorkIsMade, TypeOK
  <2>2. record'[worktree[x]] = None
    <3>1. record[worktree[x]] = None
      BY <2>1 DEF Progress
    <3>2. CASE record' = record
      BY <3>1, <3>2
    <3>3. CASE pc[c] = "write" /\ record' = [record EXCEPT ![worktree[c]] = seen[c]]
      <4>1. worktree[c] # worktree[x]
        BY <2>1, <3>3, Elsewhere DEF Building, Installing
      <4>2. worktree' = [worktree EXCEPT ![c] = None]
        BY DEF End, Forget
      <4> QED
        BY <2>1, <3>1, <3>3, <4>1, <4>2 DEF TypeOK
    <3> QED
      BY <3>2, <3>3
  <2> QED
    BY <2>1, <2>2 DEF End, Forget, Progress, Made, TypeOK
<1>6. RecordIsEarned'
  <2>1. CASE record' = record
    BY <2>1 DEF RecordIsEarned
  <2>2. CASE pc[c] = "write" /\ record' = [record EXCEPT ![worktree[c]] = seen[c]]
    <3>1. /\ worktree[c] \in Worktrees /\ Progress(c) /\ seen[c] \in Fingerprints
          /\ seen[c].plan = plan[c]
      BY <2>2, Bearings
      DEF WorkIsMade, Building, SeenIsValid, Fingerprinted, Installing
    <3>2. \A w \in Worktrees :
            \/ record'[w] = record[w]
            \/ w = worktree[c] /\ record'[w] = seen[c]
      BY <2>2, <3>1 DEF TypeOK
    <3> QED
      BY <2>2, <3>1, <3>2 DEF RecordIsEarned, Progress, Made
  <2> QED
    BY <2>1, <2>2
<1>7. HitIsValid'
  BY BootstrapAssumption
  DEF End, Forget, Unlock, TypeOK, LockIsValid, HitIsValid, Current, Witness,
      Prepared, Installing, Fingerprint
<1> QED
  BY <1>1, <1>2, <1>3, <1>4, <1>5, <1>6, <1>7

\* Who is killed while it installs may leave an installer behind.
LEMMA WorkIsAnInstaller ==
  ASSUME StInv, NEW c \in Calls, pc[c] = "install" PROVE Work(c) \in Installers
<1>1. worktree[c] \in Worktrees
  BY DEF StInv, TypeOK, LockIsValid
<1>2. plan[c] \in Definitions /\ taken[c] \in Inputs
  BY DEF StInv, PlanIsValid, SeenIsValid, Planned, Installing
<1>3. step[c] \in Steps
  BY <1>2, BootstrapAssumption DEF StInv, SeenIsValid, Steps
<1> QED
  BY <1>1, <1>2, <1>3 DEF Work, Installers, Results

\* So does one that is killed.
LEMMA KillInv ==
  ASSUME StInv, Witness, NEW c \in Calls, Kill(c) PROVE StInv'
<1> USE DEF Kill, MayOrphan, StInv
<1>1. orphans' \in SUBSET Installers
  BY WorkIsAnInstaller DEF TypeOK
<1>2. events' \in 0..MaxEvents
  BY BootstrapAssumption DEF TypeOK, Happens
<1> QED
  BY <1>1, <1>2, EndInv DEF sharedVars

\* So do the steps of the status.
LEMMA StatusInv ==
  ASSUME StInv, Witness, NEW c \in Calls, Status(c) PROVE StInv'
<1> USE DEF StInv, Goto, Holds, userVars, sharedVars, callVars, historyVars
<1>1. CASE Plan(c)
  <2>1. CASE Stop(c)
    BY <2>1, EndInv DEF Stop, TypeOK
  <2>2. CASE ~Stop(c)
    <3>0. /\ pc[c] = "plan" /\ pc' = [pc EXCEPT ![c] = "approve"]
          /\ plan' = [plan EXCEPT ![c] = definition[worktree[c]]]
          /\ consented' = [consented EXCEPT ![c] = {approval} \ {None}]
          /\ UNCHANGED <<definition, inputs, approval, lock, worktree, seen, hit, moved>>
      BY <1>1, <2>2 DEF Plan
    <3>1. TypeOK'
      <4>1. SharedType'
        BY BootstrapAssumption, <1>1, <2>2, TypesOfParts
        DEF Plan, SharedType, CallType
      <4>2. CallType'
        BY BootstrapAssumption, <1>1, <2>2, TypesOfParts, Bearings
        DEF Plan, SharedType, CallType, Planned, Installing, Steps, Results
      <4>3. StageType'
        BY BootstrapAssumption, <1>1, <2>2, TypesOfParts DEF Plan, StageType, Stages
      <4>4. SetType'
        BY BootstrapAssumption, <1>1, <2>2, TypesOfParts
        DEF Plan, SetType, SharedType
      <4> QED
        BY <4>1, <4>2, <4>3, <4>4, TypesOfParts
    <3>2. LockIsValid'
      BY BootstrapAssumption, <1>1, <2>2 DEF Plan, TypeOK, LockIsValid, Installing
    <3>3. PlanIsValid'
      <4>1. worktree[c] \in Worktrees
        BY <3>0, Bearings
      <4>2. plan'[c] \in Definitions /\ plan'[c] = definition[worktree[c]]
        BY <3>0, <4>1 DEF TypeOK
      <4>3. consented'[c] = {approval} \ {None}
        BY <3>0 DEF TypeOK
      <4> QED
        BY <3>0, <4>2, <4>3 DEF PlanIsValid, Planned, Approving, Installing, TypeOK
    <3>4. SeenIsValid'
      BY BootstrapAssumption, <1>1, <2>2
      DEF Plan, TypeOK, LockIsValid, PlanIsValid, SeenIsValid, Planned,
          Fingerprinted, Installing
    <3>5. WorkIsMade'
      BY BootstrapAssumption, <1>1, <2>2
      DEF Plan, TypeOK, LockIsValid, SeenIsValid, WorkIsMade, Progress, Made,
          Building, Fingerprinted, Installing
    <3>6. RecordIsEarned'
      BY BootstrapAssumption, <1>1, <2>2
      DEF Plan, TypeOK, LockIsValid, SeenIsValid, WorkIsMade, Progress, Made,
          RecordIsEarned, Building, Fingerprinted, Installing
    <3>7. HitIsValid'
      <4> SUFFICES ASSUME NEW x \in settled', x \notin forced' PROVE Current(x)'
        BY Settled DEF HitIsValid
      <4>1. x \in Calls /\ x \in settled /\ x \notin forced
        BY Settled, <1>1, <2>2 DEF Plan
      <4>2. Current(x) /\ Prepared(worktree[x]) /\ worktree[x] # None
        BY <4>1 DEF HitIsValid
      <4> QED
        BY <3>0, <4>1, <4>2 DEF Current, Fingerprint, TypeOK
    <3> QED
      BY <3>1, <3>2, <3>3, <3>4, <3>5, <3>6, <3>7
  <2> QED
    BY <2>1, <2>2
<1>2. CASE CheckApproval(c)
  <2>1. CASE Stop(c)
    BY <2>1, EndInv DEF Stop, TypeOK
  <2>2. CASE ~Stop(c)
    <3>0. /\ pc[c] = "approve" /\ pc' = [pc EXCEPT ![c] = "fingerprint"]
          /\ plan[c] \in Custom => Approved(worktree[c])
          /\ UNCHANGED <<definition, inputs, approval, lock, worktree, plan, seen,
                         hit, moved, consented>>
      BY <1>2, <2>2 DEF CheckApproval
    <3>1. TypeOK'
      <4>1. SharedType'
        BY BootstrapAssumption, <1>2, <2>2, TypesOfParts
        DEF CheckApproval, Approved, InForce, Digest, SharedType, CallType
      <4>2. CallType'
        BY BootstrapAssumption, <1>2, <2>2, TypesOfParts
        DEF CheckApproval, Approved, InForce, Digest, SharedType, CallType
      <4>3. StageType'
        BY BootstrapAssumption, <1>2, <2>2, TypesOfParts
        DEF CheckApproval, Approved, InForce, Digest, StageType, Stages
      <4>4. SetType'
        BY BootstrapAssumption, <1>2, <2>2, TypesOfParts
        DEF CheckApproval, Approved, InForce, Digest, SetType, SharedType
      <4> QED
        BY <4>1, <4>2, <4>3, <4>4, TypesOfParts
    <3>2. LockIsValid'
      BY BootstrapAssumption, <1>2, <2>2
      DEF CheckApproval, Approved, InForce, Digest, TypeOK, LockIsValid, Installing
    <3>3. PlanIsValid'
      <4>1. ASSUME c \notin moved, plan[c] \in Custom
            PROVE  Digest(worktree[c], plan[c]) \in consented[c]
        <5>1. worktree[c] \in Worktrees /\ plan[c] = definition[worktree[c]]
          BY <3>0, <4>1, Bearings DEF PlanIsValid
        <5>2. approval \in consented[c] \cup {None}
          BY <3>0, <4>1 DEF PlanIsValid
        <5>3. approval = Digest(worktree[c], plan[c])
          BY <3>0, <4>1, <5>1 DEF Approved, InForce
        <5>4. approval # None
          BY <4>1, <5>1, <5>3, BootstrapAssumption DEF Digest, Digests
        <5> QED
          BY <5>2, <5>3, <5>4
      <4> QED
        BY <3>0, <4>1 DEF PlanIsValid, Planned, Approving, Installing, TypeOK
    <3>4. SeenIsValid'
      BY BootstrapAssumption, <1>2, <2>2
      DEF CheckApproval, Approved, InForce, Digest, TypeOK, LockIsValid,
          PlanIsValid, SeenIsValid, Planned, Fingerprinted, Installing
    <3>5. WorkIsMade'
      BY BootstrapAssumption, <1>2, <2>2
      DEF CheckApproval, Approved, InForce, Digest, TypeOK, LockIsValid,
          SeenIsValid, WorkIsMade, Progress, Made, Building, Fingerprinted,
          Installing
    <3>6. RecordIsEarned'
      BY BootstrapAssumption, <1>2, <2>2
      DEF CheckApproval, Approved, InForce, Digest, TypeOK, LockIsValid,
          SeenIsValid, WorkIsMade, Progress, Made, RecordIsEarned, Building,
          Fingerprinted, Installing
    <3>7. HitIsValid'
      <4> SUFFICES ASSUME NEW x \in settled', x \notin forced' PROVE Current(x)'
        BY Settled DEF HitIsValid
      <4>1. x \in Calls /\ x \in settled /\ x \notin forced
        BY Settled, <1>2, <2>2 DEF CheckApproval
      <4>2. Current(x) /\ Prepared(worktree[x]) /\ worktree[x] # None
        BY <4>1 DEF HitIsValid
      <4> QED
        BY <3>0, <4>1, <4>2 DEF Current, Fingerprint, TypeOK
    <3> QED
      BY <3>1, <3>2, <3>3, <3>4, <3>5, <3>6, <3>7
  <2> QED
    BY <2>1, <2>2
<1>3. CASE TakeFingerprint(c)
  <2>1. TypeOK'
    <3>1. SharedType'
      BY BootstrapAssumption, <1>3, TypesOfParts
      DEF TakeFingerprint, Fingerprint, Fingerprints, SharedType, CallType
    <3>2. CallType'
      BY BootstrapAssumption, <1>3, TypesOfParts, Bearings
      DEF TakeFingerprint, Fingerprint, Fingerprints, SharedType, CallType,
          Planned, Installing, Steps, Results
    <3>3. StageType'
      BY BootstrapAssumption, <1>3, TypesOfParts
      DEF TakeFingerprint, Fingerprint, Fingerprints, StageType, Stages
    <3>4. SetType'
      BY BootstrapAssumption, <1>3, TypesOfParts
      DEF TakeFingerprint, Fingerprint, Fingerprints, SetType, SharedType
    <3> QED
      BY <3>1, <3>2, <3>3, <3>4, TypesOfParts
  <2>2. LockIsValid'
    BY BootstrapAssumption, <1>3
    DEF TakeFingerprint, Fingerprint, Fingerprints, TypeOK, LockIsValid, Installing
  <2>3. PlanIsValid'
    BY BootstrapAssumption, <1>3
    DEF TakeFingerprint, Fingerprint, Fingerprints, TypeOK, LockIsValid,
        PlanIsValid, Planned, Approving, Installing
  <2>4. SeenIsValid'
    BY BootstrapAssumption, <1>3
    DEF TakeFingerprint, Fingerprint, Fingerprints, TypeOK, LockIsValid,
        PlanIsValid, SeenIsValid, Planned, Fingerprinted, Installing
  <2>5. WorkIsMade'
    BY BootstrapAssumption, <1>3
    DEF TakeFingerprint, Fingerprint, Fingerprints, TypeOK, LockIsValid,
        SeenIsValid, WorkIsMade, Progress, Made, Building, Fingerprinted,
        Installing
  <2>6. RecordIsEarned'
    BY BootstrapAssumption, <1>3
    DEF TakeFingerprint, Fingerprint, Fingerprints, TypeOK, LockIsValid,
        SeenIsValid, WorkIsMade, Progress, Made, RecordIsEarned, Building,
        Fingerprinted, Installing
  <2>7. HitIsValid'
    BY BootstrapAssumption, <1>3
    DEF TakeFingerprint, Fingerprint, Fingerprints, TypeOK, LockIsValid,
        HitIsValid, Current, Witness, Prepared, Installing
  <2> QED
    BY <2>1, <2>2, <2>3, <2>4, <2>5, <2>6, <2>7
<1>4. CASE ReadRecord(c)
  <2>1. TypeOK'
    <3>1. SharedType'
      BY BootstrapAssumption, <1>4, TypesOfParts
      DEF ReadRecord, SharedType, CallType
    <3>2. CallType'
      BY BootstrapAssumption, <1>4, TypesOfParts
      DEF ReadRecord, SharedType, CallType
    <3>3. StageType'
      BY BootstrapAssumption, <1>4, TypesOfParts DEF ReadRecord, StageType, Stages
    <3>4. SetType'
      BY BootstrapAssumption, <1>4, TypesOfParts DEF ReadRecord, SetType, SharedType
    <3> QED
      BY <3>1, <3>2, <3>3, <3>4, TypesOfParts
  <2>2. LockIsValid'
    <3>1. /\ UNCHANGED <<worktree, lock>> /\ pc[c] = "record"
          /\ pc' = [pc EXCEPT ![c] = "judge"]
      BY <1>4 DEF ReadRecord
    <3> QED
      BY <3>1 DEF TypeOK, LockIsValid, Installing
  <2>3. PlanIsValid'
    BY BootstrapAssumption, <1>4
    DEF ReadRecord, TypeOK, LockIsValid, PlanIsValid, Planned, Approving,
        Installing
  <2>4. SeenIsValid'
    BY BootstrapAssumption, <1>4
    DEF ReadRecord, TypeOK, LockIsValid, PlanIsValid, SeenIsValid, Planned,
        Fingerprinted, Installing
  <2>5. WorkIsMade'
    BY BootstrapAssumption, <1>4
    DEF ReadRecord, TypeOK, LockIsValid, SeenIsValid, WorkIsMade, Progress, Made,
        Building, Fingerprinted, Installing
  <2>6. RecordIsEarned'
    BY BootstrapAssumption, <1>4
    DEF ReadRecord, TypeOK, LockIsValid, SeenIsValid, WorkIsMade, Progress, Made,
        RecordIsEarned, Building, Fingerprinted, Installing
  <2>7. HitIsValid'
    BY BootstrapAssumption, <1>4
    DEF ReadRecord, TypeOK, LockIsValid, HitIsValid, Current, Witness, Prepared,
        Installing, Fingerprint
  <2> QED
    BY <2>1, <2>2, <2>3, <2>4, <2>5, <2>6, <2>7
<1>5. CASE Judge(c)
  <2>1. CASE Stop(c)
    BY <2>1, EndInv DEF Stop, TypeOK
  <2>2. CASE ~Stop(c)
    <3>1. TypeOK'
      <4>1. SharedType'
        BY BootstrapAssumption, <1>5, <2>2, TypesOfParts
        DEF Judge, Ready, HasMarkers, Retry, SharedType, CallType
      <4>2. CallType'
        BY BootstrapAssumption, <1>5, <2>2, TypesOfParts
        DEF Judge, Ready, HasMarkers, Retry, SharedType, CallType
      <4>3. StageType'
        BY BootstrapAssumption, <1>5, <2>2, TypesOfParts
        DEF Judge, Ready, HasMarkers, Retry, StageType, Stages
      <4>4. SetType'
        BY BootstrapAssumption, <1>5, <2>2, TypesOfParts
        DEF Judge, Ready, HasMarkers, Retry, SetType, SharedType
      <4> QED
        BY <4>1, <4>2, <4>3, <4>4, TypesOfParts
    <3>2. LockIsValid'
      BY BootstrapAssumption, <1>5, <2>2
      DEF Judge, Ready, HasMarkers, Retry, TypeOK, LockIsValid, Installing
    <3>3. PlanIsValid'
      BY BootstrapAssumption, <1>5, <2>2
      DEF Judge, Ready, HasMarkers, Retry, TypeOK, LockIsValid, PlanIsValid,
          Planned, Approving, Installing
    <3>4. SeenIsValid'
      BY BootstrapAssumption, <1>5, <2>2
      DEF Judge, Ready, HasMarkers, Retry, TypeOK, LockIsValid, PlanIsValid,
          SeenIsValid, Planned, Fingerprinted, Installing
    <3>5. WorkIsMade'
      BY BootstrapAssumption, <1>5, <2>2
      DEF Judge, Ready, HasMarkers, Retry, TypeOK, LockIsValid, SeenIsValid,
          WorkIsMade, Progress, Made, Building, Fingerprinted, Installing
    <3>6. RecordIsEarned'
      BY BootstrapAssumption, <1>5, <2>2
      DEF Judge, Ready, HasMarkers, Retry, TypeOK, LockIsValid, SeenIsValid,
          WorkIsMade, Progress, Made, RecordIsEarned, Building, Fingerprinted,
          Installing
    <3>7. HitIsValid'
      <4> SUFFICES ASSUME NEW x \in settled', x \notin forced' PROVE Current(x)'
        BY Settled DEF HitIsValid
      <4>1. x \in Calls /\ x \in settled /\ x \notin forced
        BY Settled, <1>5, <2>2 DEF Judge
      <4>2. Current(x) /\ Prepared(worktree[x]) /\ worktree[x] # None
        BY <4>1 DEF HitIsValid
      <4> QED
        BY <4>1, <4>2, <1>5, <2>2
        DEF Judge, Current, LockIsValid, TypeOK, Prepared, Ready, HasMarkers,
            Fingerprint, Retry
    <3> QED
      BY <3>1, <3>2, <3>3, <3>4, <3>5, <3>6, <3>7
  <2> QED
    BY <2>1, <2>2
<1> QED
  BY <1>1, <1>2, <1>3, <1>4, <1>5 DEF Status

\* So do those of the installation.
LEMMA InstallInv ==
  ASSUME StInv, Witness, NEW c \in Calls, Install(c) PROVE StInv'
<1> USE DEF StInv, Goto, Holds, userVars, sharedVars, callVars, historyVars
<1>1. CASE Lock(c)
  <2>1. TypeOK'
    <3>1. SharedType'
      BY BootstrapAssumption, <1>1, TypesOfParts
      DEF Lock, Lockable, SharedType, CallType
    <3>2. CallType'
      BY BootstrapAssumption, <1>1, TypesOfParts
      DEF Lock, Lockable, SharedType, CallType
    <3>3. StageType'
      BY BootstrapAssumption, <1>1, TypesOfParts
      DEF Lock, Lockable, StageType, Stages
    <3>4. SetType'
      BY BootstrapAssumption, <1>1, TypesOfParts
      DEF Lock, Lockable, SetType, SharedType
    <3> QED
      BY <3>1, <3>2, <3>3, <3>4, TypesOfParts
  <2>2. LockIsValid'
    BY BootstrapAssumption, <1>1 DEF Lock, Lockable, TypeOK, LockIsValid, Installing
  <2>3. PlanIsValid'
    BY BootstrapAssumption, <1>1
    DEF Lock, Lockable, TypeOK, LockIsValid, PlanIsValid, Planned, Approving,
        Installing
  <2>4. SeenIsValid'
    BY BootstrapAssumption, <1>1
    DEF Lock, Lockable, TypeOK, LockIsValid, PlanIsValid, SeenIsValid, Planned,
        Fingerprinted, Installing
  <2>5. WorkIsMade'
    BY BootstrapAssumption, <1>1
    DEF Lock, Lockable, TypeOK, LockIsValid, SeenIsValid, WorkIsMade, Progress,
        Made, Building, Fingerprinted, Installing
  <2>6. RecordIsEarned'
    BY BootstrapAssumption, <1>1
    DEF Lock, Lockable, TypeOK, LockIsValid, SeenIsValid, WorkIsMade, Progress,
        Made, RecordIsEarned, Building, Fingerprinted, Installing
  <2>7. HitIsValid'
    BY BootstrapAssumption, <1>1
    DEF Lock, Lockable, TypeOK, LockIsValid, HitIsValid, Current, Witness,
        Prepared, Installing, Fingerprint
  <2> QED
    BY <2>1, <2>2, <2>3, <2>4, <2>5, <2>6, <2>7
<1>2. CASE Invalidate(c)
  <2>1. CASE Stop(c)
    BY <2>1, EndInv DEF Stop, TypeOK
  <2>2. CASE ~Stop(c)
    <3>0. /\ pc[c] = "invalidate" /\ pc' = [pc EXCEPT ![c] = "start"]
          /\ step' = [step EXCEPT ![c] = 1]
          /\ UNCHANGED <<definition, inputs, lock, worktree, plan, seen, hit, taken,
                         verdict>>
      BY <1>2, <2>2 DEF Invalidate
    <3>1. TypeOK'
      <4>1. SharedType'
        BY BootstrapAssumption, <1>2, <2>2, TypesOfParts
        DEF Invalidate, Invalidated, SharedType, CallType
      <4>2. CallType'
        <5>1. 1 \in Steps
          BY <3>0, Bearings, BootstrapAssumption DEF Planned, Installing, Steps
        <5> QED
          BY <3>0, <5>1, TypesOfParts DEF CallType
      <4>3. StageType'
        BY BootstrapAssumption, <1>2, <2>2, TypesOfParts
        DEF Invalidate, Invalidated, StageType, Stages
      <4>4. SetType'
        BY BootstrapAssumption, <1>2, <2>2, TypesOfParts
        DEF Invalidate, Invalidated, SetType, SharedType
      <4> QED
        BY <4>1, <4>2, <4>3, <4>4, TypesOfParts
    <3>2. LockIsValid'
      BY BootstrapAssumption, <1>2, <2>2
      DEF Invalidate, Invalidated, TypeOK, LockIsValid, Installing
    <3>3. PlanIsValid'
      BY BootstrapAssumption, <1>2, <2>2
      DEF Invalidate, Invalidated, TypeOK, LockIsValid, PlanIsValid, Planned,
          Approving, Installing
    <3>4. SeenIsValid'
      <4>1. \/ pc'[c] = "start" /\ step'[c] = 1
            \/ UNCHANGED vars
        BY <1>2, <2>2 DEF Invalidate, TypeOK
      <4>2. 1 \in 1..StepsOf[plan[c]]
        BY <1>2, Bearings DEF Invalidate, Planned, Installing, Steps
      <4> QED
        BY <1>2, <2>2, <4>1, <4>2
        DEF Invalidate, SeenIsValid, Fingerprinted, Installing, TypeOK
    <3>5. WorkIsMade'
      <4> SUFFICES ASSUME NEW x \in Calls, pc'[x] \in Building PROVE Progress(x)'
        BY DEF WorkIsMade
      <4>1. CASE x # c
        <5>1. pc[x] \in Building /\ Progress(x)
          BY <1>2, <2>2, <4>1 DEF Invalidate, WorkIsMade, TypeOK
        <5>2. worktree[x] # worktree[c]
          BY <1>2, <2>2, <4>1, <5>1, Elsewhere DEF Invalidate, Installing, Building
        <5> QED
          BY <1>2, <2>2, <4>1, <5>1, <5>2, Bearings
          DEF Invalidate, Progress, Made, Building, TypeOK, Invalidated
      <4>2. CASE x = c
        BY <1>2, <2>2, <4>2, Bearings
        DEF Invalidate, Invalidated, Progress, TypeOK, Steps
      <4> QED
        BY <4>1, <4>2
    <3>6. RecordIsEarned'
      BY BootstrapAssumption, <1>2, <2>2
      DEF Invalidate, Invalidated, TypeOK, LockIsValid, SeenIsValid, WorkIsMade,
          Progress, Made, RecordIsEarned, Building, Fingerprinted, Installing
    <3>7. HitIsValid'
      <4> SUFFICES ASSUME NEW x \in settled', x \notin forced' PROVE Current(x)'
        BY Settled DEF HitIsValid
      <4>1. x \in Calls /\ x \in settled /\ x \notin forced
        BY Settled, <1>2, <2>2 DEF Invalidate
      <4>2. Current(x) /\ Prepared(worktree[x]) /\ worktree[x] # None
        BY <4>1 DEF HitIsValid
      <4> QED
        BY <3>0, <4>1, <4>2 DEF Current, Fingerprint, TypeOK
    <3> QED
      BY <3>1, <3>2, <3>3, <3>4, <3>5, <3>6, <3>7
  <2> QED
    BY <2>1, <2>2
<1>3. CASE Start(c)
  <2>1. CASE Stop(c)
    BY <2>1, EndInv DEF Stop, TypeOK
  <2>2. CASE ~Stop(c)
    <3>0. /\ pc[c] = "start" /\ pc' = [pc EXCEPT ![c] = "install"]
          /\ env' = [env EXCEPT ![worktree[c]][step[c]] = Partial]
          /\ taken' = [taken EXCEPT ![c] = inputs[worktree[c]]]
          /\ UNCHANGED <<definition, inputs, events, approval, record, lock, worktree,
                         plan, seen, hit, step, verdict, edited, reverted, disturbed>>
      BY <1>3, <2>2 DEF Start
    <3>. DEFINE w == worktree[c]
    <3>a. /\ w \in Worktrees /\ step[c] \in 1..StepsOf[plan[c]]
          /\ StepsOf[plan[c]] \in Steps
      BY <3>0, Bearings DEF Planned, Installing
    <3>b. step[c] \in Steps
      BY <3>a, BootstrapAssumption DEF Steps
    <3>c. \A v \in Worktrees, k \in Steps :
            env'[v][k] = IF v = w /\ k = step[c] THEN Partial ELSE env[v][k]
      BY <3>0, <3>a, <3>b DEF TypeOK
    <3> HIDE DEF w
    <3>1. TypeOK'
      <4>1. SharedType'
        BY <3>0, <3>a, <3>b, TypesOfParts DEF SharedType
      <4>2. CallType'
        <5>1. inputs[worktree[c]] \in Inputs
          BY <3>a DEF TypeOK, w
        <5> QED
          BY <3>0, <5>1, TypesOfParts DEF CallType
      <4>3. StageType'
        BY BootstrapAssumption, <1>3, <2>2, TypesOfParts
        DEF Start, StageType, Stages
      <4>4. SetType'
        BY BootstrapAssumption, <1>3, <2>2, TypesOfParts
        DEF Start, SetType, SharedType
      <4> QED
        BY <4>1, <4>2, <4>3, <4>4, TypesOfParts
    <3>2. LockIsValid'
      BY BootstrapAssumption, <1>3, <2>2 DEF Start, TypeOK, LockIsValid, Installing
    <3>3. PlanIsValid'
      BY BootstrapAssumption, <1>3, <2>2
      DEF Start, TypeOK, LockIsValid, PlanIsValid, Planned, Approving, Installing
    <3>4. SeenIsValid'
      BY BootstrapAssumption, <1>3, <2>2
      DEF Start, TypeOK, LockIsValid, PlanIsValid, SeenIsValid, Planned,
          Fingerprinted, Installing
    <3>5. WorkIsMade'
      <4> SUFFICES ASSUME NEW x \in Calls, pc'[x] \in Building PROVE Progress(x)'
        BY DEF WorkIsMade
      <4>1. CASE x # c
        <5>1. pc[x] \in Building /\ Progress(x)
          BY <1>3, <2>2, <4>1 DEF Start, WorkIsMade, TypeOK
        <5>2. worktree[x] # worktree[c]
          BY <1>3, <2>2, <4>1, <5>1, Elsewhere DEF Start, Installing, Building
        <5> QED
          <6>1. worktree[x] \in Worktrees /\ StepsOf[plan[x]] \in Steps
            BY <5>1, Bearings DEF Building, Planned, Installing
          <6>2. \A k \in Steps : env'[worktree[x]][k] = env[worktree[x]][k]
            BY <3>c, <5>2, <6>1 DEF w
          <6>3. pc'[x] = pc[x] /\ step'[x] = step[x]
            BY <3>0, <4>1 DEF TypeOK
          <6> QED
            BY <3>0, <5>1, <6>1, <6>2, <6>3, BootstrapAssumption
            DEF Progress, Made, Steps
      <4>2. CASE x = c
        <5>1. Progress(c)
          BY <3>0 DEF WorkIsMade, Building
        <5>2. \A k \in Steps : k < step[c] => env'[w][k] = env[w][k]
          BY <3>a, <3>b, <3>c, BootstrapAssumption DEF Steps
        <5> QED
          BY <3>0, <4>2, <5>1, <5>2 DEF Progress, Made, TypeOK, w
      <4> QED
        BY <4>1, <4>2
    <3>6. RecordIsEarned'
      <4>1. worktree[c] \in Worktrees /\ record[worktree[c]] = None
        BY <1>3, Bearings DEF Start, WorkIsMade, Progress, Building
      <4> QED
        <5>1. \A v \in Worktrees, k \in Steps :
                record[v] # None => env'[v][k] = env[v][k]
          BY <3>c, <4>1 DEF w
        <5>2. UNCHANGED <<record, reverted, disturbed>>
          BY <3>0
        <5> QED
          BY <5>1, <5>2, StepsOfRecords DEF RecordIsEarned
    <3>7. HitIsValid'
      <4> SUFFICES ASSUME NEW x \in settled', x \notin forced' PROVE Current(x)'
        BY Settled DEF HitIsValid
      <4>1. x \in Calls /\ x \in settled /\ x \notin forced
        BY Settled, <1>3, <2>2 DEF Start
      <4>2. Current(x) /\ Prepared(worktree[x]) /\ worktree[x] # None
        BY <4>1 DEF HitIsValid
      <4> QED
        BY <3>0, <4>1, <4>2 DEF Current, Fingerprint, TypeOK
    <3> QED
      BY <3>1, <3>2, <3>3, <3>4, <3>5, <3>6, <3>7
  <2> QED
    BY <2>1, <2>2
<1>4. CASE Finish(c)
  <2>1. CASE End(c)
    <3>1. MayOrphan(c) /\ pc[c] = "install"
      BY <1>4, <2>1 DEF Finish, End, Forget, TypeOK
    <3>2. orphans' \in SUBSET Installers
      BY <3>1, WorkIsAnInstaller DEF MayOrphan, TypeOK
    <3>3. events' \in 0..MaxEvents
      BY <3>1, BootstrapAssumption DEF MayOrphan, Happens, TypeOK
    <3> QED
      <4>1. UNCHANGED <<definition, inputs, approval, env, reverted, disturbed, record>>
        BY <1>4, <2>1 DEF Finish, End, Forget, TypeOK
      <4> QED
        BY <2>1, <3>2, <3>3, <4>1, EndInv
  <2>2. CASE ~End(c)
    <3>0. /\ pc[c] = "install" /\ Installs(Work(c))
          /\ taken' = [taken EXCEPT ![c] = None]
          /\ \/ /\ step[c] # StepsOf[plan[c]] /\ step' = [step EXCEPT ![c] = step[c] + 1]
                /\ pc' = [pc EXCEPT ![c] = "start"]
             \/ /\ step[c] = StepsOf[plan[c]] /\ step' = step
                /\ pc' = [pc EXCEPT ![c] = "verify"]
          /\ UNCHANGED <<definition, inputs, events, approval, record, lock, worktree,
                         plan, seen, hit, verdict, edited, reverted, disturbed>>
      BY <1>4, <2>2 DEF Finish, IsLast
    <3>. DEFINE w == worktree[c]
                result == [plan |-> plan[c], inputs |-> taken[c]]
    <3>a. /\ w \in Worktrees /\ step[c] \in 1..StepsOf[plan[c]]
          /\ StepsOf[plan[c]] \in Steps /\ result \in Results
      BY <3>0, Bearings DEF Planned, Installing, Results
    <3>b. step[c] \in Steps
      BY <3>a, BootstrapAssumption DEF Steps
    <3>c. /\ env' = [env EXCEPT ![w][step[c]] = result]
          /\ \A v \in Worktrees, k \in Steps :
               env'[v][k] = IF v = w /\ k = step[c] THEN result ELSE env[v][k]
      BY <3>0, <3>a, <3>b DEF TypeOK, Installs, Work
    <3> HIDE DEF w, result
    <3>1. TypeOK'
      <4>1. SharedType'
        BY <3>0, <3>a, <3>b, <3>c, TypesOfParts DEF SharedType
      <4>2. CallType'
        <5>1. step' \in [Calls -> Steps \cup {0}]
          <6>1. CASE step' = step
            BY <6>1, TypesOfParts DEF CallType
          <6>2. CASE /\ step[c] # StepsOf[plan[c]]
                     /\ step' = [step EXCEPT ![c] = step[c] + 1]
            <7>1. step[c] + 1 \in Steps
              BY <3>a, <6>2, BootstrapAssumption DEF Steps
            <7> QED
              BY <6>2, <7>1, TypesOfParts DEF CallType
          <6> QED
            BY <3>0, <6>1, <6>2
        <5> QED
          BY <3>0, <5>1, TypesOfParts DEF CallType
      <4>3. StageType'
        BY BootstrapAssumption, <1>4, <2>2, TypesOfParts
        DEF Finish, IsLast, Installs, Work, StageType, Stages
      <4>4. SetType'
        BY BootstrapAssumption, <1>4, <2>2, TypesOfParts
        DEF Finish, IsLast, Installs, Work, SetType, SharedType
      <4> QED
        BY <4>1, <4>2, <4>3, <4>4, TypesOfParts
    <3>2. LockIsValid'
      BY BootstrapAssumption, <1>4, <2>2
      DEF Finish, IsLast, Installs, Work, TypeOK, LockIsValid, Installing
    <3>3. PlanIsValid'
      BY BootstrapAssumption, <1>4, <2>2
      DEF Finish, IsLast, Installs, Work, TypeOK, LockIsValid, PlanIsValid,
          Planned, Approving, Installing
    <3>4. SeenIsValid'
      <4>1. /\ step[c] \in 1..StepsOf[plan[c]] /\ StepsOf[plan[c]] \in Nat
            /\ pc[c] = "install"
        BY <3>0, <3>a DEF Steps
      <4>2. pc'[c] = "start" => step'[c] \in 1..StepsOf[plan[c]]
        <5>1. CASE step[c] # StepsOf[plan[c]] /\ step' = [step EXCEPT ![c] = step[c] + 1]
          <6>1. step'[c] = step[c] + 1
            BY <5>1 DEF TypeOK
          <6>2. step[c] \in Nat /\ StepsOf[plan[c]] \in Nat /\ step[c] >= 1
                /\ step[c] <= StepsOf[plan[c]]
            BY <4>1
          <6> QED
            BY <5>1, <6>1, <6>2
        <5>2. CASE pc' = [pc EXCEPT ![c] = "verify"]
          BY <5>2 DEF TypeOK
        <5> QED
          BY <3>0, <5>1, <5>2
      <4> QED
        BY <1>4, <2>2, <4>1, <4>2
        DEF Finish, SeenIsValid, Fingerprinted, Installing, TypeOK
    <3>5. WorkIsMade'
      <4> SUFFICES ASSUME NEW x \in Calls, pc'[x] \in Building PROVE Progress(x)'
        BY DEF WorkIsMade
      <4>1. CASE x # c
        <5>1. pc[x] \in Building /\ Progress(x)
          BY <1>4, <2>2, <4>1 DEF Finish, WorkIsMade, TypeOK
        <5>2. worktree[x] # worktree[c]
          BY <1>4, <2>2, <4>1, <5>1, Elsewhere DEF Finish, Installing, Building
        <5> QED
          <6>1. worktree[x] \in Worktrees /\ StepsOf[plan[x]] \in Steps
            BY <5>1, Bearings DEF Building, Planned, Installing
          <6>2. \A k \in Steps : env'[worktree[x]][k] = env[worktree[x]][k]
            BY <3>c, <5>2, <6>1 DEF w
          <6>3. pc'[x] = pc[x] /\ step'[x] = step[x]
            BY <3>0, <4>1 DEF TypeOK
          <6> QED
            BY <3>0, <5>1, <6>1, <6>2, <6>3, BootstrapAssumption
            DEF Progress, Made, Steps
      <4>2. CASE x = c
        <5>1. record[w] = None
          BY <3>0 DEF WorkIsMade, Progress, Building, w
        <5>2. ASSUME w \notin disturbed, c \notin edited
              PROVE  \A k \in Steps : k <= step[c] => Made(c, k)'
          <6>1. \A k \in Steps : k < step[c] => Made(c, k)
            BY <3>0, <5>2 DEF WorkIsMade, Progress, Building, w
          <6>2. result = [plan |-> seen[c].plan, inputs |-> seen[c].inputs]
            BY <3>0, <5>2 DEF SeenIsValid, Fingerprinted, Installing, result
          <6>3. TAKE k \in Steps
          <6>4. CASE k = step[c]
            BY <3>0, <3>a, <3>c, <6>2, <6>4 DEF Made, w
          <6>5. CASE k # step[c]
            BY <3>0, <3>a, <3>c, <6>1, <6>5, BootstrapAssumption DEF Made, w, Steps
          <6> QED
            BY <6>4, <6>5
        <5>3. CASE pc'[c] = "start" /\ step'[c] = step[c] + 1
          BY <3>0, <3>a, <4>2, <5>1, <5>2, <5>3, BootstrapAssumption
          DEF Progress, w, Steps
        <5>4. CASE pc'[c] = "verify" /\ step[c] = StepsOf[plan[c]]
          BY <3>0, <3>a, <4>2, <5>1, <5>2, <5>4, BootstrapAssumption
          DEF Progress, w, Steps
        <5> QED
          BY <3>0, <5>3, <5>4 DEF TypeOK
      <4> QED
        BY <4>1, <4>2
    <3>6. RecordIsEarned'
      <4>1. worktree[c] \in Worktrees /\ record[worktree[c]] = None
        BY <1>4, Bearings DEF Finish, WorkIsMade, Progress, Building
      <4> QED
        BY <3>0, <3>c, <4>1, StepsOfRecords DEF RecordIsEarned, w
    <3>7. HitIsValid'
      BY BootstrapAssumption, <1>4, <2>2
      DEF Finish, IsLast, Installs, Work, TypeOK, LockIsValid, HitIsValid, Current,
          Witness, Prepared, Installing, Fingerprint
    <3> QED
      BY <3>1, <3>2, <3>3, <3>4, <3>5, <3>6, <3>7
  <2> QED
    BY <2>1, <2>2
<1>5. CASE Verify(c)
  <2>1. CASE Stop(c)
    BY <2>1, EndInv DEF Stop, TypeOK
  <2>2. CASE ~Stop(c)
    <3>0. /\ pc[c] = "verify" /\ pc' = [pc EXCEPT ![c] = "write"]
          /\ UNCHANGED <<definition, inputs, lock, worktree, plan, seen, hit>>
      BY <1>5, <2>2 DEF Verify
    <3>1. TypeOK'
      <4>1. SharedType'
        BY BootstrapAssumption, <1>5, <2>2, TypesOfParts
        DEF Verify, Unchanged, Undone, Fingerprint, SharedType, CallType
      <4>2. CallType'
        BY BootstrapAssumption, <1>5, <2>2, TypesOfParts
        DEF Verify, Unchanged, Undone, Fingerprint, SharedType, CallType
      <4>3. StageType'
        BY BootstrapAssumption, <1>5, <2>2, TypesOfParts
        DEF Verify, Unchanged, Undone, Fingerprint, StageType, Stages
      <4>4. SetType'
        <5>1. worktree[c] \in Worktrees
          BY <1>5, Bearings DEF Verify
        <5> QED
          BY <1>5, <2>2, <5>1, TypesOfParts DEF Verify, SetType
      <4> QED
        BY <4>1, <4>2, <4>3, <4>4, TypesOfParts
    <3>2. LockIsValid'
      BY BootstrapAssumption, <1>5, <2>2
      DEF Verify, Unchanged, Undone, Fingerprint, TypeOK, LockIsValid, Installing
    <3>3. PlanIsValid'
      BY BootstrapAssumption, <1>5, <2>2
      DEF Verify, Unchanged, Undone, Fingerprint, TypeOK, LockIsValid, PlanIsValid,
          Planned, Approving, Installing
    <3>4. SeenIsValid'
      BY BootstrapAssumption, <1>5, <2>2
      DEF Verify, Unchanged, Undone, Fingerprint, TypeOK, LockIsValid, PlanIsValid,
          SeenIsValid, Planned, Fingerprinted, Installing
    <3>5. WorkIsMade'
      BY BootstrapAssumption, <1>5, <2>2
      DEF Verify, Unchanged, Undone, Fingerprint, TypeOK, LockIsValid, SeenIsValid,
          WorkIsMade, Progress, Made, Building, Fingerprinted, Installing
    <3>6. RecordIsEarned'
      <4>1. worktree[c] \in Worktrees /\ record[worktree[c]] = None
        BY <1>5, Bearings DEF Verify, WorkIsMade, Progress, Building
      <4> QED
        BY <1>5, <2>2, <4>1 DEF Verify, Results, RecordIsEarned, TypeOK
    <3>7. HitIsValid'
      <4> SUFFICES ASSUME NEW x \in settled', x \notin forced' PROVE Current(x)'
        BY Settled DEF HitIsValid
      <4>1. x \in Calls /\ x \in settled /\ x \notin forced
        BY Settled, <1>5, <2>2 DEF Verify
      <4>2. Current(x) /\ Prepared(worktree[x]) /\ worktree[x] # None
        BY <4>1 DEF HitIsValid
      <4> QED
        BY <3>0, <4>1, <4>2 DEF Current, Fingerprint, TypeOK
    <3> QED
      BY <3>1, <3>2, <3>3, <3>4, <3>5, <3>6, <3>7
  <2> QED
    BY <2>1, <2>2
<1>6. CASE WriteRecord(c)
  BY <1>6, EndInv DEF WriteRecord, TypeOK
<1> QED
  BY <1>1, <1>2, <1>3, <1>4, <1>5, <1>6 DEF Install

\* So do the start of a call and decisions.
LEMMA DecideInv ==
  ASSUME StInv, Witness, NEW c \in Calls,
         WriteDecision(c) \/ \E w \in Worktrees : Call(c, w) \/ Decide(c, w)
  PROVE  StInv'
<1> USE DEF StInv, Goto, Holds, userVars, sharedVars, callVars, historyVars
<1>1. CASE WriteDecision(c)
  <2>1. TypeOK'
    <3>1. SharedType'
      BY BootstrapAssumption, <1>1, TypesOfParts
      DEF WriteDecision, Digest, InForce, SharedType, CallType
    <3>2. CallType'
      BY BootstrapAssumption, <1>1, TypesOfParts
      DEF WriteDecision, Digest, InForce, SharedType, CallType
    <3>3. StageType'
      BY BootstrapAssumption, <1>1, TypesOfParts
      DEF WriteDecision, Digest, InForce, StageType, Stages
    <3>4. SetType'
      <4>1. verdict[c] \in Digests \cup {None}
        BY DEF TypeOK
      <4>2. consented' \in [Calls -> SUBSET Digests]
        BY <1>1, <4>1, TypesOfParts DEF WriteDecision, SetType
      <4> QED
        BY <1>1, <4>2, TypesOfParts DEF WriteDecision, SetType
    <3> QED
      BY <3>1, <3>2, <3>3, <3>4, TypesOfParts
  <2>2. LockIsValid'
    BY BootstrapAssumption, <1>1
    DEF WriteDecision, Digest, InForce, TypeOK, LockIsValid, Installing
  <2>3. PlanIsValid'
    BY BootstrapAssumption, <1>1
    DEF WriteDecision, Digest, InForce, TypeOK, LockIsValid, PlanIsValid, Planned,
        Approving, Installing
  <2>4. SeenIsValid'
    BY BootstrapAssumption, <1>1
    DEF WriteDecision, Digest, InForce, TypeOK, LockIsValid, PlanIsValid,
        SeenIsValid, Planned, Fingerprinted, Installing
  <2>5. WorkIsMade'
    BY BootstrapAssumption, <1>1
    DEF WriteDecision, Digest, InForce, TypeOK, LockIsValid, SeenIsValid,
        WorkIsMade, Progress, Made, Building, Fingerprinted, Installing
  <2>6. RecordIsEarned'
    BY BootstrapAssumption, <1>1
    DEF WriteDecision, Digest, InForce, TypeOK, LockIsValid, SeenIsValid,
        WorkIsMade, Progress, Made, RecordIsEarned, Building, Fingerprinted,
        Installing
  <2>7. HitIsValid'
    BY BootstrapAssumption, <1>1
    DEF WriteDecision, Digest, InForce, TypeOK, LockIsValid, HitIsValid, Current,
        Witness, Prepared, Installing, Fingerprint
  <2> QED
    BY <2>1, <2>2, <2>3, <2>4, <2>5, <2>6, <2>7
<1>2. ASSUME NEW w \in Worktrees, Call(c, w) PROVE StInv'
  <2>1. TypeOK'
    <3>1. SharedType'
      BY BootstrapAssumption, <1>2, TypesOfParts DEF Call, SharedType, CallType
    <3>2. CallType'
      BY BootstrapAssumption, <1>2, TypesOfParts DEF Call, SharedType, CallType
    <3>3. StageType'
      BY BootstrapAssumption, <1>2, TypesOfParts DEF Call, StageType, Stages
    <3>4. SetType'
      BY BootstrapAssumption, <1>2, TypesOfParts DEF Call, SetType, SharedType
    <3> QED
      BY <3>1, <3>2, <3>3, <3>4, TypesOfParts
  <2>2. LockIsValid'
    BY BootstrapAssumption, <1>2 DEF Call, TypeOK, LockIsValid, Installing
  <2>3. PlanIsValid'
    BY BootstrapAssumption, <1>2
    DEF Call, TypeOK, LockIsValid, PlanIsValid, Planned, Approving, Installing
  <2>4. SeenIsValid'
    BY BootstrapAssumption, <1>2
    DEF Call, TypeOK, LockIsValid, PlanIsValid, SeenIsValid, Planned,
        Fingerprinted, Installing
  <2>5. WorkIsMade'
    BY BootstrapAssumption, <1>2
    DEF Call, TypeOK, LockIsValid, SeenIsValid, WorkIsMade, Progress, Made,
        Building, Fingerprinted, Installing
  <2>6. RecordIsEarned'
    BY BootstrapAssumption, <1>2
    DEF Call, TypeOK, LockIsValid, SeenIsValid, WorkIsMade, Progress, Made,
        RecordIsEarned, Building, Fingerprinted, Installing
  <2>7. HitIsValid'
    BY BootstrapAssumption, <1>2
    DEF Call, TypeOK, LockIsValid, HitIsValid, Current, Witness, Prepared,
        Installing, Fingerprint
  <2> QED
    BY <2>1, <2>2, <2>3, <2>4, <2>5, <2>6, <2>7
<1>3. ASSUME NEW w \in Worktrees, Decide(c, w) PROVE StInv'
  <2>1. TypeOK'
    <3>1. SharedType'
      BY BootstrapAssumption, <1>3, TypesOfParts
      DEF Decide, Digest, Digests, SharedType, CallType
    <3>2. CallType'
      <4>1. Digest(w, definition[w]) \in Digests
        BY <1>3 DEF Decide, Digest, Digests
      <4> QED
        BY <1>3, <4>1, TypesOfParts DEF Decide, CallType
    <3>3. StageType'
      BY BootstrapAssumption, <1>3, TypesOfParts
      DEF Decide, Digest, Digests, StageType, Stages
    <3>4. SetType'
      BY BootstrapAssumption, <1>3, TypesOfParts
      DEF Decide, Digest, Digests, SetType, SharedType
    <3> QED
      BY <3>1, <3>2, <3>3, <3>4, TypesOfParts
  <2>2. LockIsValid'
    BY BootstrapAssumption, <1>3
    DEF Decide, Digest, Digests, TypeOK, LockIsValid, Installing
  <2>3. PlanIsValid'
    BY BootstrapAssumption, <1>3
    DEF Decide, Digest, Digests, TypeOK, LockIsValid, PlanIsValid, Planned,
        Approving, Installing
  <2>4. SeenIsValid'
    BY BootstrapAssumption, <1>3
    DEF Decide, Digest, Digests, TypeOK, LockIsValid, PlanIsValid, SeenIsValid,
        Planned, Fingerprinted, Installing
  <2>5. WorkIsMade'
    BY BootstrapAssumption, <1>3
    DEF Decide, Digest, Digests, TypeOK, LockIsValid, SeenIsValid, WorkIsMade,
        Progress, Made, Building, Fingerprinted, Installing
  <2>6. RecordIsEarned'
    BY BootstrapAssumption, <1>3
    DEF Decide, Digest, Digests, TypeOK, LockIsValid, SeenIsValid, WorkIsMade,
        Progress, Made, RecordIsEarned, Building, Fingerprinted, Installing
  <2>7. HitIsValid'
    BY BootstrapAssumption, <1>3
    DEF Decide, Digest, Digests, TypeOK, LockIsValid, HitIsValid, Current, Witness,
        Prepared, Installing, Fingerprint
  <2> QED
    BY <2>1, <2>2, <2>3, <2>4, <2>5, <2>6, <2>7
<1> QED
  BY <1>1, <1>2, <1>3

\* So does what users and orphans do.
LEMMA UsersInv ==
  ASSUME StInv, Witness, Users PROVE StInv'
<1> USE DEF StInv, Goto, Holds, userVars, sharedVars, callVars, historyVars
<1>1. ASSUME NEW w \in Worktrees, Edit(w) PROVE StInv'
  <2>1. TypeOK'
    <3>1. SharedType'
      BY BootstrapAssumption, <1>1, TypesOfParts
      DEF Edit, Happens, Affected, CallsOn, SharedType, CallType
    <3>2. CallType'
      BY BootstrapAssumption, <1>1, TypesOfParts
      DEF Edit, Happens, Affected, CallsOn, SharedType, CallType
    <3>3. StageType'
      BY BootstrapAssumption, <1>1, TypesOfParts
      DEF Edit, Happens, Affected, CallsOn, StageType, Stages
    <3>4. SetType'
      BY BootstrapAssumption, <1>1, TypesOfParts
      DEF Edit, Happens, Affected, CallsOn, SetType, SharedType
    <3> QED
      BY <3>1, <3>2, <3>3, <3>4, TypesOfParts
  <2>2. LockIsValid'
    BY BootstrapAssumption, <1>1
    DEF Edit, Happens, Affected, CallsOn, TypeOK, LockIsValid, Installing
  <2>3. PlanIsValid'
    BY BootstrapAssumption, <1>1
    DEF Edit, Happens, Affected, CallsOn, TypeOK, LockIsValid, PlanIsValid,
        Planned, Approving, Installing
  <2>4. SeenIsValid'
    BY BootstrapAssumption, <1>1
    DEF Edit, Happens, Affected, CallsOn, TypeOK, LockIsValid, PlanIsValid,
        SeenIsValid, Planned, Fingerprinted, Installing
  <2>5. WorkIsMade'
    BY BootstrapAssumption, <1>1
    DEF Edit, Happens, Affected, CallsOn, TypeOK, LockIsValid, SeenIsValid,
        WorkIsMade, Progress, Made, Building, Fingerprinted, Installing
  <2>6. RecordIsEarned'
    BY BootstrapAssumption, <1>1
    DEF Edit, Happens, Affected, CallsOn, TypeOK, LockIsValid, SeenIsValid,
        WorkIsMade, Progress, Made, RecordIsEarned, Building, Fingerprinted,
        Installing
  <2>7. HitIsValid'
    <3> SUFFICES ASSUME NEW x \in settled', x \notin forced' PROVE Current(x)'
      BY Settled DEF HitIsValid
    <3>1. x \in Calls /\ x \in settled /\ x \notin forced
      BY Settled, <1>1 DEF Edit
    <3>2. Current(x) /\ Prepared(worktree[x]) /\ worktree[x] # None
      BY <3>1 DEF HitIsValid
    <3>3. worktree[x] # w
      <4>1. /\ record[worktree[x]] = Fingerprint(definition[worktree[x]], worktree[x])
            /\ record'[worktree'[x]] =
                 Fingerprint(definition[worktree[x]], worktree[x])'
        BY <3>2, Settled DEF Prepared
      <4>2. UNCHANGED <<record, worktree>>
        BY <1>1 DEF Edit
      <4>3. <<definition[w], inputs[w]>>' # <<definition[w], inputs[w]>>
        BY <1>1 DEF Edit, TypeOK
      <4> QED
        BY <4>1, <4>2, <4>3 DEF Fingerprint
    <3> QED
      BY <3>1, <3>2, <1>1, <3>3 DEF Edit, Current, Fingerprint
  <2> QED
    BY <2>1, <2>2, <2>3, <2>4, <2>5, <2>6, <2>7
<1>2. ASSUME NEW w \in Worktrees, Configure(w) PROVE StInv'
  <2>1. TypeOK'
    <3>1. SharedType'
      BY BootstrapAssumption, <1>2, TypesOfParts
      DEF Configure, Happens, Affected, CallsOn, Digest, SharedType, CallType
    <3>2. CallType'
      BY BootstrapAssumption, <1>2, TypesOfParts
      DEF Configure, Happens, Affected, CallsOn, Digest, SharedType, CallType
    <3>3. StageType'
      BY BootstrapAssumption, <1>2, TypesOfParts
      DEF Configure, Happens, Affected, CallsOn, Digest, StageType, Stages
    <3>4. SetType'
      BY BootstrapAssumption, <1>2, TypesOfParts
      DEF Configure, Happens, Affected, CallsOn, Digest, SetType, SharedType
    <3> QED
      BY <3>1, <3>2, <3>3, <3>4, TypesOfParts
  <2>2. LockIsValid'
    BY BootstrapAssumption, <1>2
    DEF Configure, Happens, Affected, CallsOn, Digest, TypeOK, LockIsValid,
        Installing
  <2>3. PlanIsValid'
    <3>1. /\ moved' = moved \cup {c \in Calls : worktree[c] = w /\ pc[c] = "approve"}
          /\ UNCHANGED <<pc, worktree, plan, approval, consented>>
      BY <1>2 DEF Configure, CallsOn
    <3>2. \A v \in Worktrees : v # w => definition'[v] = definition[v]
      BY <1>2 DEF Configure, TypeOK
    <3>3. \A c \in Calls : pc[c] = "approve" => worktree[c] \in Worktrees
      BY Bearings
    <3> QED
      BY <3>1, <3>2, <3>3 DEF PlanIsValid
  <2>4. SeenIsValid'
    BY BootstrapAssumption, <1>2
    DEF Configure, Happens, Affected, CallsOn, Digest, TypeOK, LockIsValid,
        PlanIsValid, SeenIsValid, Planned, Fingerprinted, Installing
  <2>5. WorkIsMade'
    BY BootstrapAssumption, <1>2
    DEF Configure, Happens, Affected, CallsOn, Digest, TypeOK, LockIsValid,
        SeenIsValid, WorkIsMade, Progress, Made, Building, Fingerprinted,
        Installing
  <2>6. RecordIsEarned'
    BY BootstrapAssumption, <1>2
    DEF Configure, Happens, Affected, CallsOn, Digest, TypeOK, LockIsValid,
        SeenIsValid, WorkIsMade, Progress, Made, RecordIsEarned, Building,
        Fingerprinted, Installing
  <2>7. HitIsValid'
    <3> SUFFICES ASSUME NEW x \in settled', x \notin forced' PROVE Current(x)'
      BY Settled DEF HitIsValid
    <3>1. x \in Calls /\ x \in settled /\ x \notin forced
      BY Settled, <1>2 DEF Configure
    <3>2. Current(x) /\ Prepared(worktree[x]) /\ worktree[x] # None
      BY <3>1 DEF HitIsValid
    <3>3. worktree[x] # w
      <4>1. /\ record[worktree[x]] = Fingerprint(definition[worktree[x]], worktree[x])
            /\ record'[worktree'[x]] =
                 Fingerprint(definition[worktree[x]], worktree[x])'
        BY <3>2, Settled DEF Prepared
      <4>2. UNCHANGED <<record, worktree>>
        BY <1>2 DEF Configure
      <4>3. <<definition[w], inputs[w]>>' # <<definition[w], inputs[w]>>
        BY <1>2 DEF Configure, TypeOK
      <4> QED
        BY <4>1, <4>2, <4>3 DEF Fingerprint
    <3> QED
      BY <3>1, <3>2, <1>2, <3>3 DEF Configure, Current, Fingerprint
  <2> QED
    BY <2>1, <2>2, <2>3, <2>4, <2>5, <2>6, <2>7
<1>3. ASSUME NEW w \in Worktrees, DeleteEnvironment(w) PROVE StInv'
  <2>1. TypeOK'
    <3>1. SharedType'
      BY BootstrapAssumption, <1>3, TypesOfParts
      DEF DeleteEnvironment, Happens, SharedType, CallType
    <3>2. CallType'
      BY BootstrapAssumption, <1>3, TypesOfParts
      DEF DeleteEnvironment, Happens, SharedType, CallType
    <3>3. StageType'
      BY BootstrapAssumption, <1>3, TypesOfParts
      DEF DeleteEnvironment, Happens, StageType, Stages
    <3>4. SetType'
      BY BootstrapAssumption, <1>3, TypesOfParts
      DEF DeleteEnvironment, Happens, SetType, SharedType
    <3> QED
      BY <3>1, <3>2, <3>3, <3>4, TypesOfParts
  <2>2. LockIsValid'
    BY BootstrapAssumption, <1>3
    DEF DeleteEnvironment, Happens, TypeOK, LockIsValid, Installing
  <2>3. PlanIsValid'
    BY BootstrapAssumption, <1>3
    DEF DeleteEnvironment, Happens, TypeOK, LockIsValid, PlanIsValid, Planned,
        Approving, Installing
  <2>4. SeenIsValid'
    BY BootstrapAssumption, <1>3
    DEF DeleteEnvironment, Happens, TypeOK, LockIsValid, PlanIsValid, SeenIsValid,
        Planned, Fingerprinted, Installing
  <2>5. WorkIsMade'
    <3> SUFFICES ASSUME NEW x \in Calls, pc[x] \in Building PROVE Progress(x)'
      BY <1>3 DEF DeleteEnvironment, WorkIsMade
    <3>1. Progress(x) /\ worktree[x] \in Worktrees
      BY Bearings DEF WorkIsMade, Building
    <3>2. \A k \in Steps : env'[worktree[x]][k] \in {env[worktree[x]][k], Absent}
      BY <1>3, <3>1 DEF DeleteEnvironment, TypeOK
    <3>3. StepsOf[plan[x]] \in Steps
      BY Bearings DEF Building, Planned, Installing
    <3> QED
      BY <1>3, <3>1, <3>2, <3>3, BootstrapAssumption
      DEF DeleteEnvironment, Progress, Made, Steps
  <2>6. RecordIsEarned'
    <3>1. \A v \in Worktrees, k \in Steps : env'[v][k] \in {env[v][k], Absent}
      BY <1>3 DEF DeleteEnvironment, TypeOK
    <3> QED
      BY <1>3, <3>1, StepsOfRecords DEF DeleteEnvironment, RecordIsEarned
  <2>7. HitIsValid'
    BY BootstrapAssumption, <1>3
    DEF DeleteEnvironment, Happens, TypeOK, LockIsValid, HitIsValid, Current,
        Witness, Prepared, Installing, Fingerprint
  <2> QED
    BY <2>1, <2>2, <2>3, <2>4, <2>5, <2>6, <2>7
<1>4. ASSUME NEW o \in orphans, OrphanEnds(o) PROVE StInv'
  <2>0. o.worktree \in Worktrees /\ o.step \in Steps /\ o.result \in Results
    BY DEF TypeOK, Installers
  <2>1. TypeOK'
    <3>1. SharedType'
      <4>1. PICK v \in Results \cup {Absent, Partial} :
              env' = [env EXCEPT ![o.worktree][o.step] = v]
        BY <1>4, <2>0 DEF OrphanEnds, Installs
      <4>2. env' \in [Worktrees -> [Steps -> Results \cup {Absent, Partial}]]
        BY <2>0, <4>1, TypesOfParts DEF SharedType
      <4> QED
        BY <1>4, <4>2, TypesOfParts DEF OrphanEnds, SharedType
    <3>2. CallType'
      BY BootstrapAssumption, <1>4, <2>0, TypesOfParts
      DEF OrphanEnds, Installs, SharedType, CallType
    <3>3. StageType'
      BY BootstrapAssumption, <1>4, <2>0, TypesOfParts
      DEF OrphanEnds, Installs, StageType, Stages
    <3>4. SetType'
      BY BootstrapAssumption, <1>4, <2>0, TypesOfParts
      DEF OrphanEnds, Installs, SetType, SharedType
    <3> QED
      BY <3>1, <3>2, <3>3, <3>4, TypesOfParts
  <2>2. LockIsValid'
    BY BootstrapAssumption, <1>4, <2>0
    DEF OrphanEnds, Installs, TypeOK, LockIsValid, Installing
  <2>3. PlanIsValid'
    BY BootstrapAssumption, <1>4, <2>0
    DEF OrphanEnds, Installs, TypeOK, LockIsValid, PlanIsValid, Planned, Approving,
        Installing
  <2>4. SeenIsValid'
    BY BootstrapAssumption, <1>4, <2>0
    DEF OrphanEnds, Installs, TypeOK, LockIsValid, PlanIsValid, SeenIsValid,
        Planned, Fingerprinted, Installing
  <2>5. WorkIsMade'
    BY BootstrapAssumption, <1>4, <2>0
    DEF OrphanEnds, Installs, TypeOK, LockIsValid, SeenIsValid, WorkIsMade,
        Progress, Made, Building, Fingerprinted, Installing
  <2>6. RecordIsEarned'
    BY BootstrapAssumption, <1>4, <2>0
    DEF OrphanEnds, Installs, TypeOK, LockIsValid, SeenIsValid, WorkIsMade,
        Progress, Made, RecordIsEarned, Building, Fingerprinted, Installing
  <2>7. HitIsValid'
    BY BootstrapAssumption, <1>4, <2>0
    DEF OrphanEnds, Installs, TypeOK, LockIsValid, HitIsValid, Current, Witness,
        Prepared, Installing, Fingerprint
  <2> QED
    BY <2>1, <2>2, <2>3, <2>4, <2>5, <2>6, <2>7
<1> QED
  BY <1>1, <1>2, <1>3, <1>4 DEF Users

\* So does every step.
LEMMA BootstrapStepInv == StInv /\ [Next]_vars => StInv'
<1> SUFFICES ASSUME StInv, [Next]_vars PROVE StInv'
  OBVIOUS
<1>1. CASE UNCHANGED vars
  BY <1>1
  DEF vars, userVars, sharedVars, callVars, historyVars, StInv, TypeOK,
      LockIsValid, PlanIsValid, SeenIsValid, WorkIsMade, Progress, Made,
      RecordIsEarned, HitIsValid, Current, Prepared, Fingerprint, Digest, InForce
<1>2. CASE Witness /\ \E c \in Calls : Kill(c)
  BY <1>2, KillInv
<1>3. CASE Witness /\ Step /\ ~\E c \in Calls : Kill(c)
  BY <1>3, StatusInv, InstallInv, DecideInv, UsersInv DEF Step
<1> QED
  BY <1>1, <1>2, <1>3 DEF Next

\* The invariant holds of every behaviour, for all values of the constants.
THEOREM BootstrapInvariance == Spec => []StInv
  BY BootstrapInitInv, BootstrapStepInv, PTL DEF Spec

-----------------------------------------------------------------------------
(* What it says about a worktree.                                          *)

\* Every variable has its type.
THEOREM BootstrapTypeCorrect == Spec => []TypeOK
<1>1. StInv => TypeOK
  BY DEF StInv
<1> QED
  BY <1>1, BootstrapInvariance, PTL

\* A record says what is installed, however calls, kills and edits interleave.
THEOREM RecordsAreEarned == Spec => []RecordIsEarned
<1>1. StInv => RecordIsEarned
  BY DEF StInv
<1> QED
  BY <1>1, BootstrapInvariance, PTL

\* No two calls install into one worktree at a time.
THEOREM InstallersAreExclusive == Spec => []OneInstaller
<1>1. StInv => OneInstaller
  BY DEF StInv, LockIsValid, Installing, OneInstaller
<1> QED
  BY <1>1, BootstrapInvariance, PTL

\* A call that finds its worktree prepared from first to last only reads.
THEOREM HitsAreReadOnly == Spec => []CacheHitIsReadOnly
<1>1. StInv => CacheHitIsReadOnly
  BY DEF StInv, HitIsValid, Current, CacheHitIsReadOnly, Holds
<1> QED
  BY <1>1, BootstrapInvariance, PTL

\* A custom command is run only with an approval of it in its worktree.
THEOREM CommandsRunAsApproved == Spec => []CommandsAreApproved
<1>1. StInv => CommandsAreApproved
  BY DEF StInv, PlanIsValid, Approving, Installing, CommandsAreApproved
<1> QED
  BY <1>1, BootstrapInvariance, PTL
=============================================================================
