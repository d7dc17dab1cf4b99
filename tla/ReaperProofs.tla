---------------------------- MODULE ReaperProofs ----------------------------
(***************************************************************************)
(* Reaper for every set of processes and roots: registrations survive what *)
(* the reaper does concurrently, and cleanup respects the leases it could  *)
(* have seen.                                                              *)
(***************************************************************************)
EXTENDS Reaper, TLAPS

\* Times and windows that have been given out.
CountersAreValid ==
  \A r \in Roots :
    /\ registry[r] <= clock
    /\ window[r] <= opened[r] /\ owned[r] <= opened[r]
    /\ \A c \in Closers : records[c][r] <= clock

\* A quarantine follows damage.
DamageIsKnown ==
  /\ corrupt => damaged
  /\ \A c \in Closers : pc[c] = "quarantine" => damaged

\* A removal that would succeed is of a record without a window of its own; one
\* by unregister is of a root without a directory.
RemovalsAreDue ==
  /\ \A r \in Roots : unregister[r] = "checked" => r \in missing
  /\ \A c \in Closers :
       /\ pc[c] \notin {"idle", "load", "select", "next", "quarantine"} =>
            root[c] \in Roots
       /\ pc[c] \in {"idle", "load", "quarantine", "select"} \/ c \in Doctors =>
            selected[c] = {}
       /\ \A r \in selected[c] : records[c][r] # 0
       /\ pc[c] \in {"recheckWindow", "post", "posted", "poll", "remove"}
            /\ c \in Cleaners => records[c][root[c]] # 0
       /\ pc[c] = "remove" => c \in Cleaners
       /\ pc[c] = "remove" /\ registry[root[c]] = records[c][root[c]] =>
            ~(Open(root[c]) /\ owned[root[c]] = window[root[c]])

\* Whatever a cleanup is about to close was not leased when it looked, unless
\* the lease is marked late.  A request that is awaited has its sender wait.
LeasesAreKnown ==
  /\ \A c \in Cleaners :
       pc[c] \in Committed /\ root[c] \in leased => <<c, root[c]>> \in late
  /\ \A m \in queue :
       /\ m.by \in Cleaners /\ m.root \in leased => <<m.by, m.root>> \in late
       /\ m.awaited => pc[m.by] = "posted"
       /\ \A n \in queue : m.awaited /\ n.awaited /\ m.by = n.by => m = n

RInv ==
  /\ TypeOK
  /\ CountersAreValid
  /\ DamageIsKnown
  /\ RemovalsAreDue
  /\ LeasesAreKnown
  /\ RegistrationSurvives

LEMMA ReaperInitInv == Init => RInv
<1> SUFFICES ASSUME Init PROVE RInv
  OBVIOUS
<1>1. TypeOK
  BY ReaperAssumption DEF Init, TypeOK, Stages, Committed, Unread
<1>2. CountersAreValid
  BY DEF Init, CountersAreValid, Unread
<1>3. RemovalsAreDue
  BY DEF Init, RemovalsAreDue
<1>4. LeasesAreKnown
  BY DEF Init, LeasesAreKnown, Committed, Closers
<1>5. RegistrationSurvives
  BY DEF Init, RegistrationSurvives, Open
<1>6. DamageIsKnown
  BY DEF Init, DamageIsKnown
<1> QED
  BY <1>1, <1>2, <1>3, <1>4, <1>5, <1>6 DEF RInv

\* A process that only goes on, with nothing more to remove than before, leaves
\* removals due.
LEMMA RemovalsMove ==
  ASSUME RInv, NEW c \in Closers,
         UNCHANGED <<registry, window, owned, missing, unregister, records, selected>>,
         \A k \in Closers : k # c => pc'[k] = pc[k] /\ root'[k] = root[k],
         \/ /\ c \in Doctors
            /\ pc'[c] \in {"quarantine", "post", "idle"}
            /\ pc'[c] = "post" => root'[c] \in Roots
         \/ c \in Cleaners /\ pc'[c] = "next"
  PROVE  RemovalsAreDue'
<1>1. RemovalsAreDue /\ Cleaners \cap Doctors = {}
  BY ReaperAssumption DEF RInv
<1>2. \A r \in Roots : unregister'[r] = "checked" => r \in missing'
  BY <1>1 DEF RemovalsAreDue
<1> DEFINE Due(k) ==
      /\ pc[k] \notin {"idle", "load", "select", "next", "quarantine"} => root[k] \in Roots
      /\ pc[k] \in {"idle", "load", "quarantine", "select"} \/ k \in Doctors =>
           selected[k] = {}
      /\ \A r \in selected[k] : records[k][r] # 0
      /\ pc[k] \in {"recheckWindow", "post", "posted", "poll", "remove"}
           /\ k \in Cleaners => records[k][root[k]] # 0
      /\ pc[k] = "remove" => k \in Cleaners
      /\ pc[k] = "remove" /\ registry[root[k]] = records[k][root[k]] =>
           ~(Open(root[k]) /\ owned[root[k]] = window[root[k]])
<1>3. \A k \in Closers : Due(k)
  BY <1>1 DEF RemovalsAreDue
<1>4. Due(c)'
  BY <1>1, <1>3
<1>5. ASSUME NEW k \in Closers, k # c PROVE Due(k)'
  BY <1>3, <1>5 DEF Open
<1> QED
  BY <1>2, <1>4, <1>5 DEF RemovalsAreDue

\* The steps of a cleanup keep the invariant,
LEMMA CleanupInv ==
  ASSUME RInv, NEW c \in Cleaners, Cleanup(c) PROVE RInv'
<1> USE ReaperAssumption DEF RInv, Closers, Open, Goto, registryVars, windowVars,
     leaseVars, closerVars
<1>1. CASE TakeInventory(c)
  <2>1. TypeOK'
    BY <1>1 DEF TakeInventory,
       TypeOK, Stages, Committed, CloseRequests
  <2>2. CountersAreValid'
    BY <1>1 DEF TakeInventory,
       TypeOK, CountersAreValid, CloseRequests
  <2>3. RemovalsAreDue'
    BY <1>1 DEF TakeInventory,
       TypeOK, CountersAreValid, RemovalsAreDue, LeasesAreKnown, Stages,
       Committed, CloseRequests
  <2>4. LeasesAreKnown'
    BY <1>1 DEF TakeInventory,
       TypeOK, RemovalsAreDue, LeasesAreKnown, Committed, CloseRequests
  <2>5. RegistrationSurvives'
    BY <1>1 DEF TakeInventory,
       TypeOK, CountersAreValid, DamageIsKnown, RemovalsAreDue, RegistrationSurvives
  <2>6. DamageIsKnown'
    BY <1>1 DEF TakeInventory,
       TypeOK, DamageIsKnown
  <2> QED
    BY <2>1, <2>2, <2>3, <2>4, <2>5, <2>6
<1>2. CASE Load(c)
  <2>1. TypeOK'
    <3>1. pc' \in [Closers -> Stages]
      BY <1>2 DEF Load,
         TypeOK, Stages, Committed, CloseRequests
    <3>2. records' \in [Closers -> [Roots -> Nat]]
      BY <1>2 DEF Load,
         TypeOK, Stages, Committed, CloseRequests
    <3> QED
      BY <1>2, <3>1, <3>2 DEF Load,
         TypeOK, Stages, Committed, CloseRequests
  <2>2. CountersAreValid'
    BY <1>2 DEF Load,
       TypeOK, CountersAreValid, CloseRequests
  <2>3. RemovalsAreDue'
    <3>1. CASE corrupt
      BY <1>2, <3>1 DEF Load,
         TypeOK, CountersAreValid, RemovalsAreDue, LeasesAreKnown, Stages,
       Committed, CloseRequests
    <3>2. CASE ~corrupt
      BY <1>2, <3>2 DEF Load,
         TypeOK, CountersAreValid, RemovalsAreDue, LeasesAreKnown, Stages,
       Committed, CloseRequests
    <3> QED
      BY <3>1, <3>2
  <2>4. LeasesAreKnown'
    BY <1>2 DEF Load,
       TypeOK, RemovalsAreDue, LeasesAreKnown, Committed, CloseRequests
  <2>5. RegistrationSurvives'
    BY <1>2 DEF Load,
       TypeOK, CountersAreValid, DamageIsKnown, RemovalsAreDue, RegistrationSurvives
  <2>6. DamageIsKnown'
    BY <1>2 DEF Load,
       TypeOK, DamageIsKnown
  <2> QED
    BY <2>1, <2>2, <2>3, <2>4, <2>5, <2>6
<1>3. CASE Select(c)
  <2>1. TypeOK'
    BY <1>3 DEF Select, Eligible, Managed,
       TypeOK, Stages, Committed, CloseRequests
  <2>2. CountersAreValid'
    BY <1>3 DEF Select, Eligible, Managed,
       TypeOK, CountersAreValid, CloseRequests
  <2>3. RemovalsAreDue'
    BY <1>3 DEF Select, Eligible, Managed,
       TypeOK, CountersAreValid, RemovalsAreDue, LeasesAreKnown, Stages,
       Committed, CloseRequests
  <2>4. LeasesAreKnown'
    BY <1>3 DEF Select, Eligible, Managed,
       TypeOK, RemovalsAreDue, LeasesAreKnown, Committed, CloseRequests
  <2>5. RegistrationSurvives'
    BY <1>3 DEF Select, Eligible, Managed,
       TypeOK, CountersAreValid, DamageIsKnown, RemovalsAreDue, RegistrationSurvives
  <2>6. DamageIsKnown'
    BY <1>3 DEF Select, Eligible, Managed,
       TypeOK, DamageIsKnown
  <2> QED
    BY <2>1, <2>2, <2>3, <2>4, <2>5, <2>6
<1>4. CASE RecheckLeases(c)
  <2>1. TypeOK'
    <3>1. selected' \in [Closers -> SUBSET Roots]
      BY <1>4 DEF RecheckLeases, TypeOK
    <3>2. pc' \in [Closers -> Stages]
      BY <1>4 DEF RecheckLeases, TypeOK, Stages, Committed
    <3>3. root' \in [Closers -> Roots \cup {None}]
      BY <1>4 DEF RecheckLeases, TypeOK
    <3> QED
      BY <1>4, <3>1, <3>2, <3>3 DEF RecheckLeases, TypeOK
  <2>2. CountersAreValid'
    BY <1>4 DEF RecheckLeases, StillFree,
       TypeOK, CountersAreValid, CloseRequests
  <2>3. RemovalsAreDue'
    BY <1>4 DEF RecheckLeases, StillFree,
       TypeOK, CountersAreValid, RemovalsAreDue, LeasesAreKnown, Stages,
       Committed, CloseRequests
  <2>4. LeasesAreKnown'
    BY <1>4 DEF RecheckLeases, StillFree,
       TypeOK, RemovalsAreDue, LeasesAreKnown, Committed, CloseRequests
  <2>5. RegistrationSurvives'
    BY <1>4 DEF RecheckLeases, StillFree,
       TypeOK, CountersAreValid, DamageIsKnown, RemovalsAreDue, RegistrationSurvives
  <2>6. DamageIsKnown'
    BY <1>4 DEF RecheckLeases, StillFree,
       TypeOK, DamageIsKnown
  <2> QED
    BY <2>1, <2>2, <2>3, <2>4, <2>5, <2>6
<1>5. CASE RecheckWindow(c)
  <2>1. TypeOK'
    BY <1>5 DEF RecheckWindow,
       TypeOK, Stages, Committed, CloseRequests
  <2>2. CountersAreValid'
    BY <1>5 DEF RecheckWindow,
       TypeOK, CountersAreValid, CloseRequests
  <2>3. RemovalsAreDue'
    BY <1>5 DEF RecheckWindow,
       TypeOK, CountersAreValid, RemovalsAreDue, LeasesAreKnown, Stages,
       Committed, CloseRequests
  <2>4. LeasesAreKnown'
    BY <1>5 DEF RecheckWindow,
       TypeOK, RemovalsAreDue, LeasesAreKnown, Committed, CloseRequests
  <2>5. RegistrationSurvives'
    BY <1>5 DEF RecheckWindow,
       TypeOK, CountersAreValid, DamageIsKnown, RemovalsAreDue, RegistrationSurvives
  <2>6. DamageIsKnown'
    BY <1>5 DEF RecheckWindow,
       TypeOK, DamageIsKnown
  <2> QED
    BY <2>1, <2>2, <2>3, <2>4, <2>5, <2>6
<1>6. CASE RemoveRecord(c)
  <2>1. TypeOK'
    <3>1. registry' \in [Roots -> Nat]
      BY <1>6 DEF RemoveRecord, Remove, Quarantine, Unread,
         TypeOK, Stages, Committed, CloseRequests
    <3>4. corrupt' \in BOOLEAN
      BY <1>6, Zenon DEF RemoveRecord, Remove, Quarantine, Unread, TypeOK
    <3>2. pc' \in [Closers -> Stages]
      BY <1>6 DEF RemoveRecord,
         TypeOK, Stages, Committed, CloseRequests
    <3> QED
      BY <1>6, <3>1, <3>2, <3>4 DEF RemoveRecord,
         TypeOK, Stages, Committed, CloseRequests
  <2>2. CountersAreValid'
    BY <1>6 DEF RemoveRecord, Remove, Quarantine, Unread,
       TypeOK, CountersAreValid, CloseRequests
  <2>3. RemovalsAreDue'
    BY <1>6 DEF RemoveRecord, Remove, Quarantine, Unread,
       TypeOK, CountersAreValid, RemovalsAreDue, LeasesAreKnown, Stages,
       Committed, CloseRequests
  <2>4. LeasesAreKnown'
    BY <1>6 DEF RemoveRecord, Remove, Quarantine, Unread,
       TypeOK, RemovalsAreDue, LeasesAreKnown, Committed, CloseRequests
  <2>5. RegistrationSurvives'
    BY <1>6 DEF RemoveRecord, Remove, Quarantine, Unread,
       TypeOK, CountersAreValid, DamageIsKnown, RemovalsAreDue, RegistrationSurvives
  <2>6. DamageIsKnown'
    BY <1>6 DEF RemoveRecord, Remove, Quarantine, Unread,
       TypeOK, DamageIsKnown
  <2> QED
    BY <2>1, <2>2, <2>3, <2>4, <2>5, <2>6
<1>7. CASE EndOfPass(c)
  <2>1. TypeOK'
    BY <1>7 DEF EndOfPass, Unread,
       TypeOK, Stages, Committed, CloseRequests
  <2>2. CountersAreValid'
    BY <1>7 DEF EndOfPass, Unread,
       TypeOK, CountersAreValid, CloseRequests
  <2>3. RemovalsAreDue'
    BY <1>7 DEF EndOfPass, Unread,
       TypeOK, CountersAreValid, RemovalsAreDue, LeasesAreKnown, Stages,
       Committed, CloseRequests
  <2>4. LeasesAreKnown'
    BY <1>7 DEF EndOfPass, Unread,
       TypeOK, RemovalsAreDue, LeasesAreKnown, Committed, CloseRequests
  <2>5. RegistrationSurvives'
    BY <1>7 DEF EndOfPass, Unread,
       TypeOK, CountersAreValid, DamageIsKnown, RemovalsAreDue, RegistrationSurvives
  <2>6. DamageIsKnown'
    BY <1>7 DEF EndOfPass, Unread,
       TypeOK, DamageIsKnown
  <2> QED
    BY <2>1, <2>2, <2>3, <2>4, <2>5, <2>6
<1> QED
  BY <1>1, <1>2, <1>3, <1>4, <1>5, <1>6, <1>7 DEF Cleanup

\* those of a recycle,
LEMMA RecycleInv ==
  ASSUME RInv, NEW d \in Doctors, Recycle(d) PROVE RInv'
<1> USE ReaperAssumption DEF RInv, Closers, Open, Goto, registryVars, windowVars,
     leaseVars, closerVars
<1>1. CASE Inspect(d)
  <2>1. TypeOK'
    BY <1>1 DEF Inspect,
       TypeOK, Stages, Committed, CloseRequests
  <2>2. CountersAreValid'
    BY <1>1 DEF Inspect,
       TypeOK, CountersAreValid, CloseRequests
  <2>3. RemovalsAreDue'
    BY <1>1 DEF Inspect,
       TypeOK, CountersAreValid, RemovalsAreDue, LeasesAreKnown, Stages,
       Committed, CloseRequests
  <2>4. LeasesAreKnown'
    BY <1>1 DEF Inspect,
       TypeOK, RemovalsAreDue, LeasesAreKnown, Committed, CloseRequests
  <2>5. RegistrationSurvives'
    BY <1>1 DEF Inspect,
       TypeOK, CountersAreValid, DamageIsKnown, RemovalsAreDue, RegistrationSurvives
  <2>6. DamageIsKnown'
    BY <1>1 DEF Inspect,
       TypeOK, DamageIsKnown
  <2> QED
    BY <2>1, <2>2, <2>3, <2>4, <2>5, <2>6
<1>2. CASE CheckManaged(d)
  <2>1. TypeOK'
    BY <1>2 DEF CheckManaged,
       TypeOK, Stages, Committed, CloseRequests
  <2>2. CountersAreValid'
    BY <1>2 DEF CheckManaged,
       TypeOK, CountersAreValid, CloseRequests
  <2>3. RemovalsAreDue'
    <3>1. UNCHANGED <<registry, window, owned, missing, unregister, records, selected>>
      BY <1>2 DEF CheckManaged
    <3>2. \A c \in Closers : c # d => pc'[c] = pc[c] /\ root'[c] = root[c]
      BY <1>2 DEF CheckManaged, TypeOK
    <3>3. pc'[d] \in {"quarantine", "post", "idle"}
      BY <1>2 DEF CheckManaged, TypeOK
    <3>4. pc'[d] = "post" => root'[d] \in Roots
      BY <1>2 DEF CheckManaged, TypeOK, RemovalsAreDue
    <3> QED
      BY <3>1, <3>2, <3>3, <3>4, RemovalsMove
  <2>4. LeasesAreKnown'
    BY <1>2 DEF CheckManaged,
       TypeOK, RemovalsAreDue, LeasesAreKnown, Committed, CloseRequests
  <2>5. RegistrationSurvives'
    BY <1>2 DEF CheckManaged,
       TypeOK, CountersAreValid, DamageIsKnown, RemovalsAreDue, RegistrationSurvives
  <2>6. DamageIsKnown'
    BY <1>2 DEF CheckManaged,
       TypeOK, DamageIsKnown
  <2> QED
    BY <2>1, <2>2, <2>3, <2>4, <2>5, <2>6
<1> QED
  BY <1>1, <1>2 DEF Recycle

\* of a verified close,
LEMMA CloseInv ==
  ASSUME RInv, NEW c \in Closers, Close(c) PROVE RInv'
<1> USE ReaperAssumption DEF RInv, Closers, Open, Goto, registryVars, windowVars,
     leaseVars, closerVars
<1>1. CASE Post(c)
  <2>1. TypeOK'
    <3>1. root[c] \in Roots
      BY <1>1 DEF Post, RemovalsAreDue,
         TypeOK, Stages, Committed, CloseRequests
    <3>2. queue' \in SUBSET CloseRequests
      <4>1. [by |-> c, root |-> root[c], window |-> window[root[c]], awaited |-> TRUE]
              \in CloseRequests
        BY <3>1 DEF CloseRequests, TypeOK
      <4> QED
        BY <1>1, <4>1 DEF Post, TypeOK
    <3>3. pc' \in [Closers -> Stages]
      BY <1>1 DEF Post, GiveUp,
         TypeOK, Stages, Committed, CloseRequests
    <3>4. root' \in [Closers -> Roots \cup {None}]
      BY <1>1 DEF Post, GiveUp,
         TypeOK, Stages, Committed, CloseRequests
    <3> QED
      BY <1>1, <3>2, <3>3, <3>4 DEF Post,
         TypeOK, Stages, Committed, CloseRequests
  <2>2. CountersAreValid'
    BY <1>1 DEF Post, GiveUp,
       TypeOK, CountersAreValid, CloseRequests
  <2>3. RemovalsAreDue'
    <3>1. CASE /\ queue' = queue \cup {[by |-> c, root |-> root[c],
                                      window |-> window[root[c]], awaited |-> TRUE]}
               /\ Goto(c, "posted") /\ UNCHANGED root
      BY <1>1, <3>1 DEF Post,
         TypeOK, CountersAreValid, RemovalsAreDue, LeasesAreKnown, Stages,
         Committed, CloseRequests
    <3>2. CASE GiveUp(c) /\ UNCHANGED queue
      BY <1>1, <3>2 DEF Post, GiveUp, TypeOK, RemovalsAreDue
    <3>3. CASE Goto(c, "poll") /\ UNCHANGED <<queue, root>>
      BY <1>1, <3>3 DEF Post,
         TypeOK, CountersAreValid, RemovalsAreDue, LeasesAreKnown, Stages,
         Committed, CloseRequests
    <3> QED
      BY <1>1, <3>1, <3>2, <3>3 DEF Post
  <2>4. LeasesAreKnown'
    <3>1. CASE /\ queue' = queue \cup {[by |-> c, root |-> root[c],
                                      window |-> window[root[c]], awaited |-> TRUE]}
               /\ Goto(c, "posted") /\ UNCHANGED root
      <4>1. \A n \in queue' :
              n \in queue \/ (n.by = c /\ n.root = root[c] /\ n.awaited)
        BY <3>1
      <4>2. \A n \in queue : n.by = c => ~n.awaited
        BY <1>1 DEF Post, LeasesAreKnown
      <4>3. \A k, n \in queue' : k.awaited /\ n.awaited /\ k.by = n.by => k = n
        <5>0. PICK new : new.by = c /\ queue' = queue \cup {new}
          <6>1. [by |-> c, root |-> root[c], window |-> window[root[c]],
                 awaited |-> TRUE].by = c
            OBVIOUS
          <6> QED
            BY <3>1, <6>1, Zenon
        <5>1. \A k, n \in queue' \ queue : n.by = c /\ k = n
          BY <5>0
        <5>2. \A k, n \in queue : k.awaited /\ n.awaited /\ k.by = n.by => k = n
          BY DEF LeasesAreKnown
        <5>3. SUFFICES ASSUME NEW k \in queue', NEW n \in queue',
                              k.awaited, n.awaited, k.by = n.by
                       PROVE  k = n
          OBVIOUS
        <5>4. CASE k \in queue /\ n \in queue
          BY <5>2, <5>3, <5>4
        <5>5. CASE k \notin queue /\ n \notin queue
          BY <5>1, <5>5
        <5> QED
          BY <4>2, <5>1, <5>3, <5>4, <5>5
      <4>4. /\ \A k \in Closers : k # c => pc'[k] = pc[k]
            /\ pc[c] = "post" /\ pc'[c] = "posted" /\ root' = root
            /\ leased' = leased /\ late' = late
        BY <1>1, <3>1 DEF Post, TypeOK
      <4> QED
        BY <4>1, <4>2, <4>3, <4>4
           DEF TypeOK, LeasesAreKnown, Committed, CloseRequests
    <3>2. CASE GiveUp(c) /\ UNCHANGED queue
      BY <1>1, <3>2 DEF Post, GiveUp,
         TypeOK, RemovalsAreDue, LeasesAreKnown, Committed, CloseRequests
    <3>3. CASE Goto(c, "poll") /\ UNCHANGED <<queue, root>>
      BY <1>1, <3>3 DEF Post,
         TypeOK, RemovalsAreDue, LeasesAreKnown, Committed, CloseRequests
    <3> QED
      BY <1>1, <3>1, <3>2, <3>3 DEF Post
  <2>5. RegistrationSurvives'
    BY <1>1 DEF Post, GiveUp,
       TypeOK, CountersAreValid, DamageIsKnown, RemovalsAreDue, RegistrationSurvives
  <2>6. DamageIsKnown'
    BY <1>1 DEF Post, GiveUp,
       TypeOK, DamageIsKnown
  <2> QED
    BY <2>1, <2>2, <2>3, <2>4, <2>5, <2>6
<1>2. CASE TimeOut(c)
  <2>1. TypeOK'
    <3>2. queue' \in SUBSET CloseRequests
      <4>1. \A m \in queue : Abandoned(m) \in CloseRequests
        BY DEF Abandoned, CloseRequests, TypeOK
      <4> QED
        BY <1>2, <4>1 DEF TimeOut, TypeOK
    <3>3. pc' \in [Closers -> Stages]
      BY <1>2 DEF TimeOut, GiveUp,
         TypeOK, Stages, Committed, CloseRequests
    <3>4. root' \in [Closers -> Roots \cup {None}]
      BY <1>2 DEF TimeOut, GiveUp,
         TypeOK, Stages, Committed, CloseRequests
    <3> QED
      BY <1>2, <3>2, <3>3, <3>4 DEF TimeOut,
         TypeOK, Stages, Committed, CloseRequests
  <2>2. CountersAreValid'
    BY <1>2 DEF TimeOut, GiveUp, Abandoned,
       TypeOK, CountersAreValid, CloseRequests
  <2>3. RemovalsAreDue'
    <3>1. UNCHANGED <<registry, window, owned, missing, unregister, records, selected>>
      BY <1>2 DEF TimeOut
    <3>2. \A k \in Closers : k # c => pc'[k] = pc[k] /\ root'[k] = root[k]
      BY <1>2 DEF TimeOut, GiveUp, TypeOK
    <3>3. \/ c \in Doctors /\ pc'[c] = "idle"
          \/ c \in Cleaners /\ pc'[c] = "next"
      BY <1>2 DEF TimeOut, GiveUp, TypeOK
    <3> QED
      BY <3>1, <3>2, <3>3, RemovalsMove
  <2>4. LeasesAreKnown'
    <3>1. \A n \in queue' :
            \/ n \in queue /\ n.by # c
            \/ \E k \in queue : n.by = k.by /\ n.root = k.root /\ ~n.awaited
      BY <1>2 DEF TimeOut, Abandoned
    <3>2. \A k \in Closers : k # c => pc'[k] = pc[k] /\ root'[k] = root[k]
      BY <1>2 DEF TimeOut, GiveUp, TypeOK
    <3>3. pc'[c] \notin Committed
      BY <1>2 DEF TimeOut, GiveUp, TypeOK, Committed
    <3> QED
      BY <1>2, <3>1, <3>2, <3>3 DEF TimeOut, TypeOK, LeasesAreKnown, CloseRequests
  <2>5. RegistrationSurvives'
    BY <1>2 DEF TimeOut, GiveUp, Abandoned,
       TypeOK, CountersAreValid, DamageIsKnown, RemovalsAreDue, RegistrationSurvives
  <2>6. DamageIsKnown'
    BY <1>2 DEF TimeOut, GiveUp, Abandoned,
       TypeOK, DamageIsKnown
  <2> QED
    BY <2>1, <2>2, <2>3, <2>4, <2>5, <2>6
<1>3. CASE Poll(c)
  <2>1. TypeOK'
    BY <1>3 DEF Poll, GiveUp,
       TypeOK, Stages, Committed, CloseRequests
  <2>2. CountersAreValid'
    BY <1>3 DEF Poll, GiveUp,
       TypeOK, CountersAreValid, CloseRequests
  <2>3. RemovalsAreDue'
    <3>1. CASE ~Open(root[c]) /\ c \in Cleaners /\ Goto(c, "remove") /\ UNCHANGED root
      BY <1>3, <3>1 DEF Poll,
         TypeOK, CountersAreValid, RemovalsAreDue, LeasesAreKnown, Stages,
         Committed, CloseRequests
    <3>2. CASE GiveUp(c)
      BY <1>3, <3>2 DEF Poll, GiveUp,
         TypeOK, CountersAreValid, RemovalsAreDue, LeasesAreKnown, Stages,
         Committed, CloseRequests
    <3> QED
      BY <1>3, <3>1, <3>2 DEF Poll
  <2>4. LeasesAreKnown'
    BY <1>3 DEF Poll, GiveUp,
       TypeOK, RemovalsAreDue, LeasesAreKnown, Committed, CloseRequests
  <2>5. RegistrationSurvives'
    BY <1>3 DEF Poll, GiveUp,
       TypeOK, CountersAreValid, DamageIsKnown, RemovalsAreDue, RegistrationSurvives
  <2>6. DamageIsKnown'
    BY <1>3 DEF Poll, GiveUp,
       TypeOK, DamageIsKnown
  <2> QED
    BY <2>1, <2>2, <2>3, <2>4, <2>5, <2>6
<1>4. CASE MoveAway(c)
  <2>1. TypeOK'
    BY <1>4 DEF MoveAway, Quarantine, Unread,
       TypeOK, Stages, Committed, CloseRequests
  <2>2. CountersAreValid'
    BY <1>4 DEF MoveAway, Quarantine, Unread,
       TypeOK, CountersAreValid, CloseRequests
  <2>3. RemovalsAreDue'
    BY <1>4 DEF MoveAway, Quarantine, Unread,
       TypeOK, CountersAreValid, RemovalsAreDue, LeasesAreKnown, Stages,
       Committed, CloseRequests
  <2>4. LeasesAreKnown'
    BY <1>4 DEF MoveAway, Quarantine, Unread,
       TypeOK, RemovalsAreDue, LeasesAreKnown, Committed, CloseRequests
  <2>5. RegistrationSurvives'
    BY <1>4 DEF MoveAway, Quarantine, Unread,
       TypeOK, CountersAreValid, DamageIsKnown, RemovalsAreDue, RegistrationSurvives
  <2>6. DamageIsKnown'
    BY <1>4 DEF MoveAway, Quarantine, Unread,
       TypeOK, DamageIsKnown
  <2> QED
    BY <2>1, <2>2, <2>3, <2>4, <2>5, <2>6
<1> QED
  BY <1>1, <1>2, <1>3, <1>4 DEF Close

\* of the IDE that gets to a request,
LEMMA CarryInv ==
  ASSUME RInv, NEW m \in queue, Carry(m) PROVE RInv'
<1> USE ReaperAssumption DEF RInv, Closers, Open, Goto, registryVars, windowVars,
     leaseVars, closerVars
<1>0. m.by \in Closers /\ m.root \in Roots /\ m.window \in Nat
  BY DEF TypeOK, CloseRequests
<1>1. TypeOK'
  <2>1. pc' \in [Closers -> Stages]
    BY <1>0 DEF Carry, GiveUp,
       TypeOK, Stages, Committed, CloseRequests
  <2>2. root' \in [Closers -> Roots \cup {None}]
    BY <1>0 DEF Carry, GiveUp,
       TypeOK, Stages, Committed, CloseRequests
  <2>3. window' \in [Roots -> Nat]
    BY <1>0 DEF Carry,
       TypeOK, Stages, Committed, CloseRequests
  <2>4. queue' \in SUBSET CloseRequests
    BY DEF Carry, TypeOK
  <2> QED
    BY <2>1, <2>2, <2>3, <2>4 DEF Carry, TypeOK
<1>2. CountersAreValid'
  BY DEF Carry, GiveUp,
     TypeOK, CountersAreValid, CloseRequests
<1>3. RemovalsAreDue'
  <2>1. CASE /\ window' = [window EXCEPT ![m.root] = 0]
             /\ m.awaited /\ Goto(m.by, "poll") /\ UNCHANGED root
    BY <1>0, <2>1 DEF Carry,
       TypeOK, CountersAreValid, RemovalsAreDue, LeasesAreKnown, Stages,
       Committed, CloseRequests
  <2>2. CASE window' = [window EXCEPT ![m.root] = 0] /\ UNCHANGED <<pc, root>>
    BY <1>0, <2>2 DEF Carry,
       TypeOK, CountersAreValid, RemovalsAreDue, LeasesAreKnown, Stages,
       Committed, CloseRequests
  <2>3. CASE UNCHANGED window /\ m.awaited /\ GiveUp(m.by)
    BY <1>0, <2>3 DEF Carry, GiveUp,
       TypeOK, CountersAreValid, RemovalsAreDue, LeasesAreKnown, Stages,
       Committed, CloseRequests
  <2>4. CASE UNCHANGED <<window, pc, root>>
    BY <1>0, <2>4 DEF Carry,
       TypeOK, CountersAreValid, RemovalsAreDue, LeasesAreKnown, Stages,
       Committed, CloseRequests
  <2>5. CASE UNCHANGED window /\ m.awaited /\ Goto(m.by, "poll") /\ UNCHANGED root
    BY <1>0, <2>5 DEF Carry,
       TypeOK, CountersAreValid, RemovalsAreDue, LeasesAreKnown, Stages,
       Committed, CloseRequests
  <2> QED
    BY <2>1, <2>2, <2>3, <2>4, <2>5, Zenon DEF Carry
<1>4. LeasesAreKnown'
  BY DEF Carry, GiveUp,
     TypeOK, RemovalsAreDue, LeasesAreKnown, Committed, CloseRequests
<1>5. RegistrationSurvives'
  BY DEF Carry, GiveUp,
     TypeOK, CountersAreValid, DamageIsKnown, RemovalsAreDue, RegistrationSurvives
<1>6. DamageIsKnown'
  BY DEF Carry, GiveUp,
     TypeOK, DamageIsKnown
<1> QED
  BY <1>1, <1>2, <1>3, <1>4, <1>5, <1>6

\* of an opener,
LEMMA OpenerInv ==
  ASSUME RInv, NEW o \in Openers, Register(o) \/ Touch(o) \/ \E r \in Roots : Confirm(o, r) PROVE RInv'
<1> USE ReaperAssumption DEF RInv, Closers, Open, Goto, registryVars, windowVars,
     leaseVars, closerVars
<1>1. CASE Register(o)
  <2>1. TypeOK'
    <3>1. registry' \in [Roots -> Nat] /\ clock' \in Nat
      BY <1>1 DEF Register, Stamp, Quarantine, Unread,
         TypeOK, Stages, Committed, CloseRequests
    <3>4. corrupt' \in BOOLEAN
      BY <1>1, Zenon DEF Register, Stamp, Quarantine, Unread, TypeOK
    <3>2. owned' \in [Roots -> Nat]
      BY <1>1 DEF Register, Stamp,
         TypeOK, Stages, Committed, CloseRequests
    <3>3. confirmed' \in [Openers -> Roots \cup {None}]
      BY <1>1 DEF Register,
         TypeOK, Stages, Committed, CloseRequests
    <3> QED
      BY <1>1, <3>1, <3>2, <3>3, <3>4 DEF Register, Stamp, Quarantine,
         TypeOK, Stages, Committed, CloseRequests
  <2>2. CountersAreValid'
    BY <1>1 DEF Register, Stamp, Quarantine, Unread,
       TypeOK, CountersAreValid, CloseRequests
  <2>3. RemovalsAreDue'
    BY <1>1 DEF Register, Stamp, Quarantine, Unread,
       TypeOK, CountersAreValid, RemovalsAreDue, LeasesAreKnown, Stages,
       Committed, CloseRequests
  <2>4. LeasesAreKnown'
    BY <1>1 DEF Register, Stamp, Quarantine, Unread,
       TypeOK, RemovalsAreDue, LeasesAreKnown, Committed, CloseRequests
  <2>5. RegistrationSurvives'
    BY <1>1 DEF Register, Stamp, Quarantine, Unread,
       TypeOK, CountersAreValid, DamageIsKnown, RemovalsAreDue, RegistrationSurvives
  <2>6. DamageIsKnown'
    BY <1>1 DEF Register, Stamp, Quarantine, Unread,
       TypeOK, DamageIsKnown
  <2> QED
    BY <2>1, <2>2, <2>3, <2>4, <2>5, <2>6
<1>2. CASE Touch(o)
  <2>1. TypeOK'
    <3>1. registry' \in [Roots -> Nat] /\ clock' \in Nat
      BY <1>2 DEF Touch, Stamp, Quarantine, Unread,
         TypeOK, Stages, Committed, CloseRequests
    <3>4. corrupt' \in BOOLEAN
      BY <1>2, Zenon DEF Touch, Stamp, Quarantine, Unread, TypeOK
    <3>2. owned' \in [Roots -> Nat]
      BY <1>2 DEF Touch, Stamp,
         TypeOK, Stages, Committed, CloseRequests
    <3>3. confirmed' \in [Openers -> Roots \cup {None}]
      BY <1>2 DEF Touch,
         TypeOK, Stages, Committed, CloseRequests
    <3> QED
      BY <1>2, <3>1, <3>2, <3>3, <3>4 DEF Touch, Stamp, Quarantine,
         TypeOK, Stages, Committed, CloseRequests
  <2>2. CountersAreValid'
    BY <1>2 DEF Touch, Stamp, Quarantine, Unread,
       TypeOK, CountersAreValid, CloseRequests
  <2>3. RemovalsAreDue'
    BY <1>2 DEF Touch, Stamp, Quarantine, Unread,
       TypeOK, CountersAreValid, RemovalsAreDue, LeasesAreKnown, Stages,
       Committed, CloseRequests
  <2>4. LeasesAreKnown'
    BY <1>2 DEF Touch, Stamp, Quarantine, Unread,
       TypeOK, RemovalsAreDue, LeasesAreKnown, Committed, CloseRequests
  <2>5. RegistrationSurvives'
    <3>1. CASE corrupt /\ Quarantine /\ UNCHANGED damaged
      BY <1>2, <3>1 DEF Touch, Quarantine, DamageIsKnown, RegistrationSurvives
    <3>2. CASE Stamp(confirmed[o]) /\ confirmed[o] # None
      BY <1>2, <3>2 DEF Touch, Stamp,
         TypeOK, CountersAreValid, DamageIsKnown, RegistrationSurvives
    <3>3. CASE UNCHANGED <<registryVars, owned>>
      BY <1>2, <3>3 DEF Touch, RegistrationSurvives
    <3> QED
      BY <1>2, <3>1, <3>2, <3>3 DEF Touch
  <2>6. DamageIsKnown'
    BY <1>2 DEF Touch, Stamp, Quarantine, Unread,
       TypeOK, DamageIsKnown
  <2> QED
    BY <2>1, <2>2, <2>3, <2>4, <2>5, <2>6
<1>3. CASE \E r \in Roots : Confirm(o, r)
  <2>1. TypeOK'
    BY <1>3 DEF Confirm,
       TypeOK, Stages, Committed, CloseRequests
  <2>2. CountersAreValid'
    BY <1>3 DEF Confirm,
       TypeOK, CountersAreValid, CloseRequests
  <2>3. RemovalsAreDue'
    BY <1>3 DEF Confirm,
       TypeOK, CountersAreValid, RemovalsAreDue, LeasesAreKnown, Stages,
       Committed, CloseRequests
  <2>4. LeasesAreKnown'
    BY <1>3 DEF Confirm,
       TypeOK, RemovalsAreDue, LeasesAreKnown, Committed, CloseRequests
  <2>5. RegistrationSurvives'
    BY <1>3 DEF Confirm,
       TypeOK, CountersAreValid, DamageIsKnown, RemovalsAreDue, RegistrationSurvives
  <2>6. DamageIsKnown'
    BY <1>3 DEF Confirm,
       TypeOK, DamageIsKnown
  <2> QED
    BY <2>1, <2>2, <2>3, <2>4, <2>5, <2>6
<1> QED
  BY <1>1, <1>2, <1>3 DEF Confirm

\* and what happens around them.
LEMMA AroundInv ==
  ASSUME RInv, NEW r \in Roots, Around(r) PROVE RInv'
<1> USE ReaperAssumption DEF RInv, Closers, Open, Goto, registryVars, windowVars,
     leaseVars, closerVars
<1>1. CASE UnregisterLooks(r)
  <2>1. TypeOK'
    BY <1>1 DEF UnregisterLooks,
       TypeOK, Stages, Committed, CloseRequests
  <2>2. CountersAreValid'
    BY <1>1 DEF UnregisterLooks,
       TypeOK, CountersAreValid, CloseRequests
  <2>3. RemovalsAreDue'
    BY <1>1 DEF UnregisterLooks,
       TypeOK, CountersAreValid, RemovalsAreDue, LeasesAreKnown, Stages,
       Committed, CloseRequests
  <2>4. LeasesAreKnown'
    BY <1>1 DEF UnregisterLooks,
       TypeOK, RemovalsAreDue, LeasesAreKnown, Committed, CloseRequests
  <2>5. RegistrationSurvives'
    BY <1>1 DEF UnregisterLooks,
       TypeOK, CountersAreValid, DamageIsKnown, RemovalsAreDue, RegistrationSurvives
  <2>6. DamageIsKnown'
    BY <1>1 DEF UnregisterLooks,
       TypeOK, DamageIsKnown
  <2> QED
    BY <2>1, <2>2, <2>3, <2>4, <2>5, <2>6
<1>2. CASE UnregisterChecks(r)
  <2>1. TypeOK'
    BY <1>2 DEF UnregisterChecks, MayUnregister,
       TypeOK, Stages, Committed, CloseRequests
  <2>2. CountersAreValid'
    BY <1>2 DEF UnregisterChecks, MayUnregister,
       TypeOK, CountersAreValid, CloseRequests
  <2>3. RemovalsAreDue'
    BY <1>2 DEF UnregisterChecks, MayUnregister,
       TypeOK, CountersAreValid, RemovalsAreDue, LeasesAreKnown, Stages,
       Committed, CloseRequests
  <2>4. LeasesAreKnown'
    BY <1>2 DEF UnregisterChecks, MayUnregister,
       TypeOK, RemovalsAreDue, LeasesAreKnown, Committed, CloseRequests
  <2>5. RegistrationSurvives'
    BY <1>2 DEF UnregisterChecks, MayUnregister,
       TypeOK, CountersAreValid, DamageIsKnown, RemovalsAreDue, RegistrationSurvives
  <2>6. DamageIsKnown'
    BY <1>2 DEF UnregisterChecks, MayUnregister,
       TypeOK, DamageIsKnown
  <2> QED
    BY <2>1, <2>2, <2>3, <2>4, <2>5, <2>6
<1>3. CASE UnregisterRemoves(r)
  <2>1. TypeOK'
    <3>1. registry' \in [Roots -> Nat]
      BY <1>3 DEF UnregisterRemoves, Remove, Quarantine, Unread,
         TypeOK, Stages, Committed, CloseRequests
    <3>4. corrupt' \in BOOLEAN
      BY <1>3, Zenon DEF UnregisterRemoves, Remove, Quarantine, Unread, TypeOK
    <3>2. unregister' \in [Roots -> {"none", "looked", "checked"}]
      BY <1>3 DEF UnregisterRemoves,
         TypeOK, Stages, Committed, CloseRequests
    <3> QED
      BY <1>3, <3>1, <3>2, <3>4 DEF UnregisterRemoves,
         TypeOK, Stages, Committed, CloseRequests
  <2>2. CountersAreValid'
    BY <1>3 DEF UnregisterRemoves, Remove, Quarantine, Unread,
       TypeOK, CountersAreValid, CloseRequests
  <2>3. RemovalsAreDue'
    BY <1>3 DEF UnregisterRemoves, Remove, Quarantine, Unread,
       TypeOK, CountersAreValid, RemovalsAreDue, LeasesAreKnown, Stages,
       Committed, CloseRequests
  <2>4. LeasesAreKnown'
    BY <1>3 DEF UnregisterRemoves, Remove, Quarantine, Unread,
       TypeOK, RemovalsAreDue, LeasesAreKnown, Committed, CloseRequests
  <2>5. RegistrationSurvives'
    BY <1>3 DEF UnregisterRemoves, Remove, Quarantine, Unread,
       TypeOK, CountersAreValid, DamageIsKnown, RemovalsAreDue, RegistrationSurvives
  <2>6. DamageIsKnown'
    BY <1>3 DEF UnregisterRemoves, Remove, Quarantine, Unread,
       TypeOK, DamageIsKnown
  <2> QED
    BY <2>1, <2>2, <2>3, <2>4, <2>5, <2>6
<1>4. CASE WindowOpens(r)
  <2>1. TypeOK'
    BY <1>4 DEF WindowOpens,
       TypeOK, Stages, Committed, CloseRequests
  <2>2. CountersAreValid'
    BY <1>4 DEF WindowOpens,
       TypeOK, CountersAreValid, CloseRequests
  <2>3. RemovalsAreDue'
    BY <1>4 DEF WindowOpens,
       TypeOK, CountersAreValid, RemovalsAreDue, LeasesAreKnown, Stages,
       Committed, CloseRequests
  <2>4. LeasesAreKnown'
    BY <1>4 DEF WindowOpens,
       TypeOK, RemovalsAreDue, LeasesAreKnown, Committed, CloseRequests
  <2>5. RegistrationSurvives'
    BY <1>4 DEF WindowOpens,
       TypeOK, CountersAreValid, DamageIsKnown, RemovalsAreDue, RegistrationSurvives
  <2>6. DamageIsKnown'
    BY <1>4 DEF WindowOpens,
       TypeOK, DamageIsKnown
  <2> QED
    BY <2>1, <2>2, <2>3, <2>4, <2>5, <2>6
<1>5. CASE UserCloses(r)
  <2>1. TypeOK'
    BY <1>5 DEF UserCloses,
       TypeOK, Stages, Committed, CloseRequests
  <2>2. CountersAreValid'
    BY <1>5 DEF UserCloses,
       TypeOK, CountersAreValid, CloseRequests
  <2>3. RemovalsAreDue'
    BY <1>5 DEF UserCloses,
       TypeOK, CountersAreValid, RemovalsAreDue, LeasesAreKnown, Stages,
       Committed, CloseRequests
  <2>4. LeasesAreKnown'
    BY <1>5 DEF UserCloses,
       TypeOK, RemovalsAreDue, LeasesAreKnown, Committed, CloseRequests
  <2>5. RegistrationSurvives'
    BY <1>5 DEF UserCloses,
       TypeOK, CountersAreValid, DamageIsKnown, RemovalsAreDue, RegistrationSurvives
  <2>6. DamageIsKnown'
    BY <1>5 DEF UserCloses,
       TypeOK, DamageIsKnown
  <2> QED
    BY <2>1, <2>2, <2>3, <2>4, <2>5, <2>6
<1>6. CASE DirectoryGoes(r)
  <2>1. TypeOK'
    BY <1>6 DEF DirectoryGoes,
       TypeOK, Stages, Committed, CloseRequests
  <2>2. CountersAreValid'
    BY <1>6 DEF DirectoryGoes,
       TypeOK, CountersAreValid, CloseRequests
  <2>3. RemovalsAreDue'
    BY <1>6 DEF DirectoryGoes,
       TypeOK, CountersAreValid, RemovalsAreDue, LeasesAreKnown, Stages,
       Committed, CloseRequests
  <2>4. LeasesAreKnown'
    BY <1>6 DEF DirectoryGoes,
       TypeOK, RemovalsAreDue, LeasesAreKnown, Committed, CloseRequests
  <2>5. RegistrationSurvives'
    BY <1>6 DEF DirectoryGoes,
       TypeOK, CountersAreValid, DamageIsKnown, RemovalsAreDue, RegistrationSurvives
  <2>6. DamageIsKnown'
    BY <1>6 DEF DirectoryGoes,
       TypeOK, DamageIsKnown
  <2> QED
    BY <2>1, <2>2, <2>3, <2>4, <2>5, <2>6
<1>7. CASE LeaseTaken(r)
  <2>1. TypeOK'
    BY <1>7 DEF LeaseTaken, Overtaken,
       TypeOK, Stages, Committed, CloseRequests
  <2>2. CountersAreValid'
    BY <1>7 DEF LeaseTaken, Overtaken,
       TypeOK, CountersAreValid, CloseRequests
  <2>3. RemovalsAreDue'
    BY <1>7 DEF LeaseTaken, Overtaken,
       TypeOK, CountersAreValid, RemovalsAreDue, LeasesAreKnown, Stages,
       Committed, CloseRequests
  <2>4. LeasesAreKnown'
    BY <1>7 DEF LeaseTaken, Overtaken,
       TypeOK, RemovalsAreDue, LeasesAreKnown, Committed, CloseRequests
  <2>5. RegistrationSurvives'
    BY <1>7 DEF LeaseTaken, Overtaken,
       TypeOK, CountersAreValid, DamageIsKnown, RemovalsAreDue, RegistrationSurvives
  <2>6. DamageIsKnown'
    BY <1>7 DEF LeaseTaken, Overtaken,
       TypeOK, DamageIsKnown
  <2> QED
    BY <2>1, <2>2, <2>3, <2>4, <2>5, <2>6
<1>8. CASE LeaseEnds(r)
  <2>1. TypeOK'
    BY <1>8 DEF LeaseEnds,
       TypeOK, Stages, Committed, CloseRequests
  <2>2. CountersAreValid'
    BY <1>8 DEF LeaseEnds,
       TypeOK, CountersAreValid, CloseRequests
  <2>3. RemovalsAreDue'
    BY <1>8 DEF LeaseEnds,
       TypeOK, CountersAreValid, RemovalsAreDue, LeasesAreKnown, Stages,
       Committed, CloseRequests
  <2>4. LeasesAreKnown'
    BY <1>8 DEF LeaseEnds,
       TypeOK, RemovalsAreDue, LeasesAreKnown, Committed, CloseRequests
  <2>5. RegistrationSurvives'
    BY <1>8 DEF LeaseEnds,
       TypeOK, CountersAreValid, DamageIsKnown, RemovalsAreDue, RegistrationSurvives
  <2>6. DamageIsKnown'
    BY <1>8 DEF LeaseEnds,
       TypeOK, DamageIsKnown
  <2> QED
    BY <2>1, <2>2, <2>3, <2>4, <2>5, <2>6
<1> QED
  BY <1>1, <1>2, <1>3, <1>4, <1>5, <1>6, <1>7, <1>8 DEF Around

LEMMA ReaperStepInv == RInv /\ [Next]_vars => RInv'
<1> SUFFICES ASSUME RInv, [Next]_vars PROVE RInv'
  OBVIOUS
<1> USE ReaperAssumption DEF RInv, TypeOK, CountersAreValid, RemovalsAreDue,
     DamageIsKnown, LeasesAreKnown, RegistrationSurvives, Closers, Stages, Committed,
     CloseRequests, Open, Goto, registryVars, windowVars, leaseVars, closerVars
<1>1. CASE TimePasses
  BY <1>1 DEF TimePasses
<1>2. CASE Damage
  BY <1>2 DEF Damage
<1>3. CASE UNCHANGED vars
  BY <1>3 DEF vars
<1> QED
  BY <1>1, <1>2, <1>3, CleanupInv, RecycleInv, CloseInv, CarryInv, OpenerInv,
     AroundInv DEF Next

THEOREM ReaperInvariance == Spec => []RInv
  BY ReaperInitInv, ReaperStepInv, PTL DEF Spec

\* TypeOK is an invariant of the reaper.
THEOREM ReaperTypeCorrect == Spec => []TypeOK
<1>1. RInv => TypeOK
  BY DEF RInv
<1> QED
  BY <1>1, ReaperInvariance, PTL

\* No cleanup, recycle, unregister or late close unregisters an open window that
\* an opener has registered.
THEOREM WindowsStayManaged == Spec => []RegistrationSurvives
<1>1. RInv => RegistrationSurvives
  BY DEF RInv
<1> QED
  BY <1>1, ReaperInvariance, PTL

\* A close of cleanup under a lease is one the lease came after.
THEOREM CleanupRespectsLeases == Spec => LeasesSeenAreRespected
<1> DEFINE Respected ==
      \A c \in Cleaners, r \in leased : Closes(c, r) => <<c, r>> \in late
<1>1. RInv => [Respected]_vars
  BY DEF RInv, LeasesAreKnown, Closes
<1>2. Spec => [][Respected]_vars
  BY <1>1, ReaperInvariance, PTL DEF Spec
<1> QED
  BY <1>2 DEF LeasesSeenAreRespected
=============================================================================
