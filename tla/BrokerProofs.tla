---------------------------- MODULE BrokerProofs ----------------------------
(***************************************************************************)
(* Broker, for every set of clients, keys, roots and owners.  First the    *)
(* owners: the types, the exclusion of the long section, one owner per     *)
(* root, and no lease in the name of a stranger (BrokerInv).  Then the     *)
(* services: what a running session and its lease may rely on, and which   *)
(* of them are on record (ServiceInv, on top of BrokerInv).  At the end,   *)
(* the gateway that a connect with two backends runs.                      *)
(*                                                                         *)
(* What a step does to a file is described by a few relations between      *)
(* files: `Within(g, f)' says that g has no lease that f has not, and      *)
(* `Keeps(f, g)' that g keeps what f says about what runs on.  The lemmas  *)
(* show which of them each operator of the model keeps; the step then only *)
(* looks at which operator an action applies to which file.               *)
(***************************************************************************)
EXTENDS Broker, HybridRouting, TLAPS

Living == {c \in Clients : Alive(c)}

\* A lease is in a record.
Filed(f) ==
  /\ f \in Files
  /\ \A k \in Keys, c \in Clients : f.process[k] = None => f.leases[k][c] = None

\* g has no lease, and no record, that f has not.
Within(g, f) ==
  /\ Filed(g)
  /\ \A k \in Keys, c \in Clients : g.leases[k][c] \in {None, f.leases[k][c]}

\* The leases of the clients in A on one root name one owner, and each names the
\* owner or the host of its client.
Agreed(f, A) ==
  \A k1, k2 \in Keys, c1, c2 \in A :
    /\ RootOf[k1] = RootOf[k2]
    /\ f.leases[k1][c1] # None
    /\ f.leases[k2][c2] # None
    => f.leases[k1][c1] = f.leases[k2][c2]
Genuine(f) ==
  \A k \in Keys, c \in Clients : f.leases[k][c] \in {None, OwnerOf[c], HostOf[c]}
Good(f, A) == Filed(f) /\ Agreed(f, A) /\ Genuine(f)

\* The leases of the clients in A on the root of c are its owner's.
Mine(f, A, c) ==
  \A k \in Keys, d \in A :
    RootOf[k] = RootOf[Primary[c]] /\ f.leases[k][d] # None => f.leases[k][d] = OwnerOf[c]

Section ==
  /\ \A c \in Clients : pc[c] \in Locked <=> lock = c
  /\ lock # None =>
       /\ Mine(draft, Living, lock)
       /\ target \in Keys
       /\ RootOf[target] = RootOf[Primary[lock]]
       /\ pc[lock] \in {"identify", "await"} => child \in Processes
       /\ pc[lock] = "await" => draft.process[target] # None

BrokerInv == TypeOK /\ Good(disk, Living) /\ Good(draft, Living) /\ Section

-----------------------------------------------------------------------------
(* What the operators on files keep.                                       *)

\* Pruning and dropping only take leases away.
LEMMA PruneWithin ==
  ASSUME NEW f, Filed(f), NEW K PROVE Within(Prune(f, K), f)
BY DEF Prune, Filed, Within, Files

LEMMA DropWithin ==
  ASSUME NEW f, Filed(f), NEW K PROVE Within(Drop(f, K), f)
BY DEF Drop, Filed, Within, Files

LEMMA SweepWithin ==
  ASSUME NEW f, Filed(f) PROVE Within(Sweep(f), f)
<1>1. Within(Prune(f, Keys), f)
  BY PruneWithin
<1>2. Within(Sweep(f), Prune(f, Keys))
  BY <1>1, DropWithin DEF Sweep, Within
<1> QED
  BY <1>1, <1>2 DEF Within

LEMMA ReleasedWithin ==
  ASSUME NEW f, Filed(f), NEW c PROVE Within(Released(f, c), f)
BY DEF Released, Filed, Within, Files

LEMMA WithinTrans ==
  ASSUME NEW f, NEW g, NEW h, Within(h, g), Within(g, f) PROVE Within(h, f)
BY DEF Within

\* A file within a good one is good, for fewer living clients too.
LEMMA WithinGood ==
  ASSUME NEW f, NEW g, NEW A, NEW B \in SUBSET A, A \subseteq Clients,
         Good(f, A), Within(g, f)
  PROVE  Good(g, B)
<1>1. Agreed(g, B)
  BY DEF Good, Within, Agreed
<1>2. Genuine(g)
  BY DEF Good, Within, Genuine
<1> QED
  BY <1>1, <1>2 DEF Good, Within

LEMMA WithinMine ==
  ASSUME NEW f, NEW g, NEW A, NEW B \in SUBSET A, A \subseteq Clients, NEW c,
         Mine(f, A, c), Within(g, f)
  PROVE  Mine(g, B, c)
BY DEF Mine, Within

LEMMA EmptyGood ==
  ASSUME NEW A \in SUBSET Clients PROVE Good(Empty, A)
BY BrokerAssumption DEF Good, Filed, Agreed, Genuine, Files, Empty

\* A lease taken where every lease is the client's own, in a record that exists.
LEMMA LeaseGood ==
  ASSUME NEW f, NEW A \in SUBSET Clients, NEW c \in Clients, NEW k \in Keys,
         Good(f, A), Mine(f, A, c), RootOf[k] = RootOf[Primary[c]], f.process[k] # None
  PROVE  Good(Lease(f, k, c), A) /\ Mine(Lease(f, k, c), A, c)
<1> DEFINE g == Lease(f, k, c)
<1>1. /\ g \in Files
      /\ g.process = f.process
      /\ \A j \in Keys, d \in Clients :
           g.leases[j][d] = IF j = k /\ d = c THEN OwnerOf[c] ELSE f.leases[j][d]
  BY BrokerAssumption DEF Lease, Good, Filed, Files
<1>2. Filed(g)
  BY <1>1 DEF Good, Filed
<1>3. Mine(g, A, c)
  BY <1>1 DEF Mine
<1>4. Agreed(g, A)
  BY <1>1, <1>3 DEF Good, Agreed, Mine
<1>5. Genuine(g)
  BY <1>1 DEF Good, Genuine
<1> QED
  BY <1>2, <1>3, <1>4, <1>5 DEF Good

\* The record of a new process holds no lease.
LEMMA RecordWithin ==
  ASSUME NEW f, Filed(f), NEW k \in Keys, NEW n \in Processes
  PROVE  Within(Record(f, k, n), f) /\ Record(f, k, n).process[k] = n
BY DEF Record, Filed, Within, Files

\* Migration keeps the leases of the root in one name, a genuine one: all of the
\* foreign ones are adopted, or none is.
LEMMA MigrateGood ==
  ASSUME NEW f, NEW A \in SUBSET Clients, NEW c \in Clients, Good(f, A)
  PROVE  Good(Migrate(f, c), A)
<1> DEFINE g == Migrate(f, c)
<1>1. CASE ~Adopts(f, c)
  BY <1>1 DEF Migrate
<1>2. CASE Adopts(f, c)
  <2>1. /\ g \in Files
        /\ g.process = f.process
        /\ \A k \in Keys, d \in Clients :
             g.leases[k][d] = IF RootOf[k] = RootOf[Primary[c]] /\ f.leases[k][d] # None
                              THEN OwnerOf[c] ELSE f.leases[k][d]
    <3>1. [k \in Keys |-> [d \in Clients |->
             IF RootOf[k] = RootOf[Primary[c]] /\ f.leases[k][d] # None
             THEN OwnerOf[c] ELSE f.leases[k][d]]] \in [Keys -> [Clients -> Owners \cup {None}]]
      BY BrokerAssumption DEF Good, Filed, Files
    <3> QED
      BY <1>2, <3>1 DEF Migrate, Good, Filed, Files
  <2>2. Filed(g)
    BY <2>1 DEF Good, Filed
  <2>3. Agreed(g, A)
    BY <2>1 DEF Good, Agreed
  <2>4. ASSUME NEW k \in Keys, NEW d \in Clients
        PROVE  g.leases[k][d] \in {None, OwnerOf[d], HostOf[d]}
    <3>1. CASE RootOf[k] = RootOf[Primary[c]] /\ f.leases[k][d] # None
      <4>1. CASE f.leases[k][d] = OwnerOf[c]
        BY <4>1, <3>1, <2>1 DEF Good, Genuine
      <4>2. CASE f.leases[k][d] # OwnerOf[c]
        <5>1. k \in KeysOf(RootOf[Primary[c]]) /\ d \in Foreign(f, k, OwnerOf[c])
          BY <4>2, <3>1 DEF KeysOf, Foreign
        <5>2. HostOf[d] = OwnerOf[c]
          BY <5>1, <1>2 DEF Adopts, Adoptable
        <5> QED
          BY <5>2, <3>1, <2>1
      <4> QED
        BY <4>1, <4>2
    <3>2. CASE ~(RootOf[k] = RootOf[Primary[c]] /\ f.leases[k][d] # None)
      BY <3>2, <2>1 DEF Good, Genuine
    <3> QED
      BY <3>1, <3>2
  <2> QED
    BY <2>2, <2>3, <2>4 DEF Good, Genuine
<1> QED
  BY <1>1, <1>2

\* _assert_root_owner.
LEMMA EnterMine ==
  ASSUME NEW f, Filed(f), NEW c \in Clients, MayEnter(f, c)
  PROVE  Mine(f, Living, c)
BY DEF MayEnter, RootOwners, Mine, Living, LiveLeases, KeysOf, Filed, Files

-----------------------------------------------------------------------------
(* The invariant.                                                          *)

LEMMA BrokerInit == Init => BrokerInv
<1> SUFFICES ASSUME Init PROVE BrokerInv
  OBVIOUS
<1>1. Empty \in Files /\ Good(Empty, Living)
  <2>1. Good(Empty, Living)
    BY EmptyGood DEF Living
  <2> QED
    BY <2>1 DEF Good, Filed
<1>2. TypeOK
  BY <1>1 DEF Init, TypeOK, Stages, Locked
<1>3. Section
  BY BrokerAssumption DEF Init, Section, Locked
<1> QED
  BY <1>1, <1>2, <1>3 DEF Init, BrokerInv

\* The client of a step outside the section, if it has one, stays outside.
OutsideStep ==
  \A c \in Clients :
    /\ pc[c] \in Locked \/ pc'[c] \in Locked => pc'[c] = pc[c]
    /\ pc[c] = "done" => pc'[c] = "done"

\* A step outside the section that takes no more than leases from the file.
LEMMA Outside ==
  ASSUME BrokerInv, TypeOK', OutsideStep, UNCHANGED sectionVars, Within(disk', disk)
  PROVE  BrokerInv'
<1>1. Living' \in SUBSET Living /\ Living \subseteq Clients
  BY DEF OutsideStep, Living, Alive
<1>2. Within(draft', draft)
  BY DEF sectionVars, BrokerInv, Good, Filed, Within
<1>3. Good(disk, Living)' /\ Good(draft, Living)'
  BY <1>1, <1>2, WithinGood DEF BrokerInv
<1>4. Section'
  <2>1. \A c \in Clients : pc'[c] \in Locked <=> lock' = c
    BY DEF BrokerInv, Section, OutsideStep, sectionVars
  <2>2. ASSUME lock' # None
        PROVE  /\ Mine(draft', Living', lock')
               /\ target' \in Keys
               /\ RootOf[target'] = RootOf[Primary[lock']]
               /\ pc'[lock'] \in {"identify", "await"} => child' \in Processes
               /\ pc'[lock'] = "await" => draft'.process[target'] # None
    <3>1. lock \in Clients /\ lock # None /\ pc[lock] \in Locked /\ pc'[lock] = pc[lock]
      BY <2>2 DEF sectionVars, BrokerInv, TypeOK, Section, OutsideStep
    <3>2. Mine(draft', Living', lock')
      BY <3>1, <1>1, <1>2, WithinMine DEF BrokerInv, Section, sectionVars
    <3> QED
      BY <3>1, <3>2 DEF sectionVars, BrokerInv, Section
  <2> QED
    BY <2>1, <2>2 DEF Section
<1> QED
  BY <1>3, <1>4 DEF BrokerInv

\* A step by which c ends the section, or refuses to begin it.
LEMMA Leaving ==
  ASSUME BrokerInv, TypeOK', NEW c \in Clients, NEW f, Leave(f), Good(f, Living),
         lock \in {c, None}, pc[c] # "done", pc'[c] \notin Locked,
         \A d \in Clients \ {c} : pc'[d] = pc[d]
  PROVE  BrokerInv'
<1>1. Living' \in SUBSET Living /\ Living \subseteq Clients
  BY DEF Living, Alive
<1>2. Good(disk, Living)'
  <2>1. Within(f, f)
    BY DEF Good, Filed, Within
  <2> QED
    BY <2>1, <1>1, WithinGood DEF Leave
<1>3. Good(draft, Living)'
  BY EmptyGood DEF Leave, Living
<1>4. Section'
  BY BrokerAssumption DEF Leave, Section, BrokerInv, TypeOK
<1> QED
  BY <1>2, <1>3, <1>4 DEF BrokerInv

\* A step of c inside the section.
LEMMA Working ==
  ASSUME BrokerInv, TypeOK', NEW c \in Clients, NEW to \in Locked,
         lock \in {c, None}, lock' = c, disk' = disk,
         pc[c] # "done", pc' = [pc EXCEPT ![c] = to],
         Good(draft', Living), Mine(draft', Living, c),
         target' \in Keys, RootOf[target'] = RootOf[Primary[c]],
         to \in {"identify", "await"} => child' \in Processes,
         to = "await" => draft'.process[target'] # None
  PROVE  BrokerInv'
<1>1. Living' = Living
  BY DEF Living, Alive, BrokerInv, TypeOK, Locked
<1>2. pc'[c] = to /\ \A d \in Clients \ {c} : pc'[d] = pc[d]
  BY DEF BrokerInv, TypeOK
<1>3. Section'
  BY <1>1, <1>2, BrokerAssumption DEF Section, BrokerInv, TypeOK
<1> QED
  BY <1>1, <1>3 DEF BrokerInv

-----------------------------------------------------------------------------
(* The shared ends of the steps of _start_service.                         *)

\* The facts about the client in the section.
LEMMA InSection ==
  ASSUME BrokerInv, NEW c \in Clients, pc[c] \in Locked
  PROVE  /\ lock = c
         /\ c # None
         /\ pc[c] # "done"
         /\ Mine(draft, Living, c)
         /\ target \in Keys
         /\ RootOf[target] = RootOf[Primary[c]]
         /\ pc[c] \in {"identify", "await"} => child \in Processes
         /\ pc[c] = "await" => draft.process[target] # None
         /\ Filed(draft)
         /\ Living \in SUBSET Clients
BY BrokerAssumption DEF BrokerInv, Section, Locked, Living, Good

LEMMA FailStep ==
  ASSUME BrokerInv, NEW c \in Clients, NEW from \in Locked, NEW f,
         Fail(c, from, f), Within(f, draft),
         links' = links, serves' = serves, port' = port, orphans' = orphans,
         service' \in [Processes -> {"unborn", "starting", "listening", "hung", "dead"}]
  PROVE  BrokerInv'
<1>0. pc[c] = from /\ pc[c] \in Locked
  BY DEF Fail, Goto
<1>1. Good(f, Living) /\ Mine(f, Living, c) /\ f \in Files
  BY <1>0, InSection, WithinGood, WithinMine DEF BrokerInv, Within, Filed
<1>2. Empty \in Files
  BY EmptyGood DEF Good, Filed
<1>3. TypeOK'
  BY <1>1, <1>2 DEF Fail, Goto, Leave, TypeOK, BrokerInv, Stages, Locked
<1>4. CASE Goto(c, from, "done") /\ Leave(f)
  BY <1>0, <1>1, <1>3, <1>4, InSection, Leaving DEF Goto, BrokerInv, TypeOK, Locked
<1>5. CASE /\ Goto(c, from, "leased")
           /\ draft' = f
           /\ UNCHANGED <<lock, target, spawned, disk>>
  BY <1>0, <1>1, <1>3, <1>5, InSection, Working DEF Goto, Locked
<1> QED
  BY <1>4, <1>5 DEF Fail

LEMMA TakeLeaseStep ==
  ASSUME BrokerInv, NEW c \in Clients, NEW from \in Locked, NEW f,
         TakeLease(c, from, f), Within(f, draft), f.process[target] # None,
         links' = links, UNCHANGED processVars
  PROVE  BrokerInv'
<1>0. pc[c] = from /\ pc[c] \in Locked
  BY DEF TakeLease, Goto
<1>1. Good(f, Living) /\ Mine(f, Living, c)
  BY <1>0, InSection, WithinGood, WithinMine DEF BrokerInv
<1>2. Good(draft', Living) /\ Mine(draft', Living, c) /\ draft' \in Files
  BY <1>0, <1>1, InSection, LeaseGood DEF TakeLease, Good, Filed
<1>3. TypeOK'
  BY <1>2 DEF TakeLease, Goto, TypeOK, BrokerInv, Stages, Locked, processVars
<1> QED
  BY <1>0, <1>2, <1>3, InSection, Working DEF TakeLease, Goto, Locked

-----------------------------------------------------------------------------
(* connect.                                                                *)

LEMMA EnterStep ==
  ASSUME BrokerInv, NEW c \in Clients, Enter(c) PROVE BrokerInv'
<1> DEFINE f == Migrate(Sweep(disk), c)
<1>1. Good(f, Living)
  <2>1. Living \in SUBSET Clients /\ Good(disk, Living) /\ Filed(disk)
    BY DEF BrokerInv, Good, Living
  <2>2. Good(Sweep(disk), Living)
    BY <2>1, SweepWithin, WithinGood
  <2> QED
    BY <2>1, <2>2, MigrateGood
<1>2. f \in Files /\ Empty \in Files
  BY <1>1, EmptyGood DEF Good, Filed
<1>3. TypeOK'
  <2>1. Primary[c] \in Keys /\ c \in Clients \cup {None} /\ UNCHANGED <<links, processVars>>
    BY BrokerAssumption DEF Enter
  <2>2. pc' \in [Clients -> Stages]
    BY DEF Enter, Goto, TypeOK, BrokerInv, Stages, Locked
  <2>3. lock' \in Clients \cup {None} /\ draft' \in Files /\ disk' \in Files
    BY <1>2 DEF Enter, Leave, TypeOK, BrokerInv
  <2>4. target' \in Keys \cup {None} /\ child' \in Processes \cup {None}
        /\ spawned' \subseteq Processes
    BY <2>1 DEF Enter, Leave, TypeOK, BrokerInv
  <2> QED
    BY <2>1, <2>2, <2>3, <2>4 DEF TypeOK, BrokerInv, processVars
<1>4. CASE /\ MayEnter(f, c)
           /\ Goto(c, "wait", "start")
           /\ lock = None
           /\ lock' = c
           /\ draft' = f
           /\ target' = Primary[c]
           /\ UNCHANGED <<disk, spawned>>
  <2>1. Mine(f, Living, c)
    BY <1>1, <1>4, EnterMine DEF Good
  <2> QED
    BY <1>1, <1>3, <1>4, <2>1, Working, BrokerAssumption DEF Goto, Locked
<1>5. CASE Goto(c, "wait", "done") /\ lock = None /\ Leave(f)
  BY <1>1, <1>3, <1>5, Leaving DEF Goto, BrokerInv, TypeOK, Locked
<1> QED
  BY <1>4, <1>5 DEF Enter

LEMMA StartStep ==
  ASSUME BrokerInv, NEW c \in Clients, Start(c) PROVE BrokerInv'
<1> DEFINE f == Prune(draft, {target})
<1>0. pc[c] = "start" /\ pc[c] \in Locked
  BY DEF Start, Goto, Locked
<1>1. Within(f, draft) /\ Filed(f)
  BY <1>0, InSection, PruneWithin DEF Within
<1>2. CASE Healthy(f, target) /\ TakeLease(c, "start", f) /\ UNCHANGED <<links, processVars>>
  BY <1>1, <1>2, TakeLeaseStep DEF Healthy, Owned, Recorded, Locked
<1>3. CASE /\ Goto(c, "start", IF target \in NeedsWindow THEN "open" ELSE "spawn")
           /\ draft' = Drop(f, {target})
           /\ service' = IF Owned(f, target)
                         THEN [service EXCEPT ![f.process[target]] = "dead"] ELSE service
           /\ UNCHANGED <<links, lock, target, child, spawned, disk, serves, port, orphans>>
  <2>1. Within(draft', draft)
    BY <1>1, <1>3, DropWithin, WithinTrans
  <2>2. Good(draft', Living) /\ Mine(draft', Living, c) /\ draft' \in Files
    BY <1>0, <2>1, InSection, WithinGood, WithinMine DEF BrokerInv, Within, Filed
  <2>3. TypeOK'
    BY <1>3, <2>2 DEF Goto, TypeOK, BrokerInv, Stages, Locked
  <2> QED
    BY <1>0, <1>3, <2>2, <2>3, InSection, Working DEF Goto, Locked
<1> QED
  BY <1>2, <1>3 DEF Start

LEMMA OpenStep ==
  ASSUME BrokerInv, NEW c \in Clients, OpenIntellij(c) PROVE BrokerInv'
<1>0. pc[c] = "open" /\ pc[c] \in Locked
  BY DEF OpenIntellij, Fail, Goto, Locked
<1>1. Within(draft, draft)
  BY <1>0, InSection DEF Within
<1>2. CASE Goto(c, "open", "spawn") /\ UNCHANGED <<sectionVars, disk, links, processVars>>
  <2>1. TypeOK'
    BY <1>2 DEF Goto, TypeOK, BrokerInv, Stages, Locked, sectionVars, processVars
  <2> QED
    BY <1>0, <1>2, <2>1, InSection, Working DEF Goto, Locked, BrokerInv, sectionVars
<1>3. CASE Fail(c, "open", draft) /\ UNCHANGED <<links, processVars>>
  BY <1>1, <1>3, FailStep DEF processVars, BrokerInv, TypeOK, Locked
<1> QED
  BY <1>2, <1>3 DEF OpenIntellij

LEMMA SpawnStep ==
  ASSUME BrokerInv, NEW c \in Clients, Spawn(c) PROVE BrokerInv'
<1>0. pc[c] = "spawn" /\ pc[c] \in Locked
  BY DEF Spawn, Fail, Goto, Locked
<1>1. Within(draft, draft)
  BY <1>0, InSection DEF Within
<1>2. CASE Fail(c, "spawn", draft) /\ UNCHANGED <<links, processVars>>
  BY <1>1, <1>2, FailStep DEF processVars, BrokerInv, TypeOK, Locked
<1>3. ASSUME Goto(c, "spawn", "identify"),
             UNCHANGED <<links, lock, draft, target, disk, orphans>>,
             NEW n \in Processes, NEW p \in FreePorts, child' = n, spawned' = spawned \cup {n},
             service' = [service EXCEPT ![n] = "starting"],
             serves' = [serves EXCEPT ![n] = target],
             port' = [port EXCEPT ![n] = p]
      PROVE  BrokerInv'
  <2>1. TypeOK'
    BY <1>3 DEF Goto, TypeOK, BrokerInv, Stages, Locked, FreePorts
  <2> QED
    BY <1>0, <1>3, <2>1, InSection, Working DEF Goto, Locked, BrokerInv
<1> QED
  BY <1>2, <1>3 DEF Spawn

LEMMA IdentifyStep ==
  ASSUME BrokerInv, NEW c \in Clients, Identify(c) PROVE BrokerInv'
<1>0. pc[c] = "identify" /\ pc[c] \in Locked
  BY DEF Identify, Fail, Goto, Locked
<1>1. Within(draft, draft)
  BY <1>0, InSection DEF Within
<1>2. CASE /\ Goto(c, "identify", "await")
           /\ draft' = Record(draft, target, child)
           /\ UNCHANGED <<lock, target, child, spawned, disk, service, links, serves, port, orphans>>
  <2>1. Within(draft', draft) /\ draft'.process[target] \in Processes
    BY <1>0, <1>2, InSection, RecordWithin
  <2>2. Good(draft', Living) /\ Mine(draft', Living, c) /\ draft' \in Files
    BY <1>0, <2>1, InSection, WithinGood, WithinMine DEF BrokerInv, Within, Filed
  <2>3. TypeOK'
    BY <1>2, <2>2 DEF Goto, TypeOK, BrokerInv, Stages, Locked
  <2> QED
    BY <1>0, <1>2, <2>1, <2>2, <2>3, InSection, Working, BrokerAssumption DEF Goto, Locked
<1>3. CASE /\ Fail(c, "identify", draft)
           /\ service' = [service EXCEPT ![child] = "dead"]
           /\ UNCHANGED <<links, serves, port, orphans>>
  BY <1>1, <1>3, FailStep DEF BrokerInv, TypeOK, Locked
<1> QED
  BY <1>2, <1>3 DEF Identify

LEMMA AwaitStep ==
  ASSUME BrokerInv, NEW c \in Clients, Await(c) PROVE BrokerInv'
<1>0. pc[c] = "await" /\ pc[c] \in Locked
  BY DEF Await, Fail, TakeLease, Goto, Locked
<1>1. Within(draft, draft) /\ Within(Drop(draft, {target}), draft)
  BY <1>0, InSection, DropWithin DEF Within
<1>2. CASE TakeLease(c, "await", draft) /\ UNCHANGED <<links, processVars>>
  BY <1>0, <1>1, <1>2, InSection, TakeLeaseStep DEF Locked
<1>3. CASE /\ Fail(c, "await", Drop(draft, {target}))
           /\ service' = [service EXCEPT ![child] = "dead"]
           /\ UNCHANGED <<links, serves, port, orphans>>
  BY <1>1, <1>3, FailStep DEF BrokerInv, TypeOK, Locked
<1> QED
  BY <1>2, <1>3 DEF Await, processVars

LEMMA StartSecondaryStep ==
  ASSUME BrokerInv, NEW c \in Clients, StartSecondary(c) PROVE BrokerInv'
<1>0. pc[c] = "leased" /\ pc[c] \in Locked
  BY DEF StartSecondary, Goto, Locked
<1>1. target' \in Keys /\ RootOf[target'] = RootOf[Primary[c]]
  BY BrokerAssumption DEF StartSecondary
<1>2. TypeOK'
  BY <1>1 DEF StartSecondary, Goto, TypeOK, BrokerInv, Stages, Locked, processVars
<1> QED
  BY <1>0, <1>1, <1>2, InSection, Working DEF StartSecondary, Goto, Locked, BrokerInv

LEMMA CommitStep ==
  ASSUME BrokerInv, NEW c \in Clients, Commit(c) PROVE BrokerInv'
<1>0. pc[c] = "leased" /\ pc[c] \in Locked
  BY DEF Commit, Goto, Locked
<1>1. {draft.process[k] : k \in {k \in Keys : draft.leases[k][c] # None}} \subseteq Processes
  BY <1>0, InSection DEF Filed, Files
<1>2. Empty \in Files
  BY EmptyGood DEF Good, Filed
<1>3. TypeOK'
  BY <1>1, <1>2 DEF Commit, Goto, Leave, TypeOK, BrokerInv, Stages, Locked, processVars
<1> QED
  BY <1>0, <1>3, InSection, Leaving DEF Commit, Goto, BrokerInv, TypeOK, Locked

LEMMA ProxyExitsStep ==
  ASSUME BrokerInv, NEW c \in Clients, ProxyExits(c) PROVE BrokerInv'
<1>1. TypeOK' /\ OutsideStep
  BY DEF ProxyExits, Goto, OutsideStep, TypeOK, BrokerInv, Stages, Locked, sectionVars, processVars
<1>2. Within(disk', disk)
  BY DEF ProxyExits, BrokerInv, Good, Filed, Within
<1> QED
  BY <1>1, <1>2, Outside DEF ProxyExits

LEMMA PrepareStep ==
  ASSUME BrokerInv, NEW c \in Clients, Prepare(c) PROVE BrokerInv'
<1>1. Within(disk', disk)
  BY SweepWithin DEF Prepare, BrokerInv, Good, Filed, Within
<1>2. TypeOK' /\ OutsideStep
  BY <1>1 DEF Prepare, Goto, OutsideStep, Within, Filed,
     TypeOK, BrokerInv, Stages, Locked, sectionVars, processVars
<1> QED
  BY <1>1, <1>2, Outside DEF Prepare

LEMMA ReleaseStep ==
  ASSUME BrokerInv, NEW c \in Clients, Release(c) PROVE BrokerInv'
<1> DEFINE g == Released(disk, c)
<1>1. Within(g, disk)
  BY ReleasedWithin DEF BrokerInv, Good
<1>2. Within(disk', g)
  BY <1>1, PruneWithin DEF Release, Within
<1>3. Within(disk', disk)
  BY <1>1, <1>2, WithinTrans
<1>4. TypeOK' /\ OutsideStep
  BY <1>3 DEF Release, Goto, OutsideStep, Within, Filed,
     TypeOK, BrokerInv, Stages, Locked, sectionVars, processVars
<1> QED
  BY <1>3, <1>4, Outside DEF Release

\* A signal ends the section with its copy written (Interrupt) or lost (Kill).
LEMMA SignalStep ==
  ASSUME BrokerInv, NEW c \in Clients, Interrupt(c) \/ Kill(c) PROVE BrokerInv'
<1>0. orphans' \subseteq Processes
  <2>1. spawned \subseteq Processes /\ orphans \subseteq Processes
    BY DEF BrokerInv, TypeOK
  <2>2. pc[c] = "identify" => child \in Processes
    BY InSection DEF Locked
  <2> QED
    BY <2>1, <2>2 DEF Interrupt, Kill
<1>1. PICK f \in {draft, disk} :
        IF lock = c THEN Leave(f) ELSE UNCHANGED <<sectionVars, disk>>
  BY DEF Interrupt, Kill
<1>2. Good(f, Living) /\ f \in Files /\ Empty \in Files
  BY EmptyGood DEF BrokerInv, Good, Filed
<1>3. /\ pc[c] # "done"
      /\ pc' = [pc EXCEPT ![c] = IF pc[c] = "proxy" THEN "release" ELSE "done"]
         \/ pc' = [pc EXCEPT ![c] = "done"]
      /\ links' \in [Clients -> SUBSET Processes]
      /\ UNCHANGED <<service, serves, port>>
  BY DEF Interrupt, Kill, Alive, BrokerInv, TypeOK
<1>4. TypeOK'
  <2>1. pc' \in [Clients -> Stages]
    BY <1>3 DEF BrokerInv, TypeOK, Stages
  <2>2. CASE lock = c /\ Leave(f)
    BY <1>0, <1>2, <1>3, <2>1, <2>2 DEF Leave, TypeOK, BrokerInv
  <2>3. CASE UNCHANGED <<sectionVars, disk>>
    BY <1>0, <1>3, <2>1, <2>3 DEF TypeOK, BrokerInv, sectionVars
  <2> QED
    BY <1>1, <2>2, <2>3
<1>5. CASE lock = c
  BY <1>1, <1>2, <1>3, <1>4, <1>5, Leaving DEF BrokerInv, TypeOK, Locked
<1>6. CASE lock # c
  <2>1. OutsideStep
    BY <1>3, <1>6 DEF OutsideStep, BrokerInv, TypeOK, Section, Locked
  <2>2. Within(disk', disk)
    BY <1>1, <1>6 DEF BrokerInv, Good, Filed, Within
  <2> QED
    BY <1>1, <1>4, <1>6, <2>1, <2>2, Outside
<1> QED
  BY <1>5, <1>6

\* The other commands only take leases from the file; time and services do not
\* touch them.
LEMMA CommandStep ==
  ASSUME BrokerInv, Command PROVE BrokerInv'
<1> DEFINE States == {"unborn", "starting", "listening", "hung", "dead"}
<1>1. Filed(disk)
  BY DEF BrokerInv, Good
<1>2. Within(Sweep(disk), disk) /\ \A K : Within(Prune(disk, K), disk)
  BY <1>1, SweepWithin, PruneWithin
<1>3. Within(disk', disk) /\ service' \in [Processes -> States]
  <2>1. CASE Status \/ Leases
    BY <1>2, <2>1 DEF Status, Leases, processVars, BrokerInv, TypeOK
  <2>2. CASE Cleanup
    <3>1. \A K : Within(Drop(Sweep(disk), K), Sweep(disk))
      BY <1>2, DropWithin DEF Within
    <3>2. \A K : Within(Drop(Sweep(disk), K), disk)
      BY <1>2, <3>1, WithinTrans
    <3> QED
      BY <2>2, <3>2 DEF Cleanup, Stop, BrokerInv, TypeOK
  <2>3. ASSUME NEW r \in Roots, Repair(r)
        PROVE  Within(disk', disk) /\ service' \in [Processes -> States]
    <3>1. \A J, K : Within(Drop(Prune(disk, J), K), Prune(disk, J))
      BY <1>2, DropWithin DEF Within
    <3>2. \A J, K : Within(Drop(Prune(disk, J), K), disk)
      BY <1>2, <3>1, WithinTrans
    <3> QED
      BY <1>2, <2>3, <3>2 DEF Repair, Stop, BrokerInv, TypeOK
  <2> QED
    BY <2>1, <2>2, <2>3 DEF Command
<1>4. UNCHANGED <<clientVars, sectionVars, serves, port, orphans>>
  BY DEF Command, Status, Leases, Cleanup, Repair, processVars
<1>5. TypeOK' /\ OutsideStep
  BY <1>3, <1>4 DEF OutsideStep, Within, Filed, TypeOK, BrokerInv, clientVars, sectionVars
<1> QED
  BY <1>3, <1>4, <1>5, Outside

LEMMA AroundStep ==
  ASSUME BrokerInv,
         \/ \E c \in Clients : OrphanProxyEnds(c)
         \/ \E k \in Keys : IdleAges(k)
         \/ \E n \in Processes : Serve(n)
         \/ UNCHANGED vars
  PROVE  BrokerInv'
<1>0. Filed(disk)
  BY DEF BrokerInv, Good
<1>1. Within(disk', disk)
  <2>1. CASE disk' = disk
    BY <1>0, <2>1 DEF Within
  <2>2. ASSUME NEW k \in Keys, IdleAges(k) PROVE Within(disk', disk)
    BY <1>0, <2>2 DEF IdleAges, Filed, Files, Within
  <2> QED
    BY <2>1, <2>2 DEF OrphanProxyEnds, Serve, Binds, Dies, Stalls, Resumes, vars
<1>2. UNCHANGED <<pc, sectionVars>>
  BY DEF OrphanProxyEnds, IdleAges, Serve, Binds, Dies, Stalls, Resumes, clientVars, vars
<1>3. TypeOK'
  BY <1>1, <1>2
  DEF OrphanProxyEnds, IdleAges, Serve, Binds, Dies, Stalls, Resumes,
      Within, Filed, TypeOK, BrokerInv, clientVars, sectionVars, processVars, vars
<1> QED
  BY <1>1, <1>2, <1>3, Outside DEF OutsideStep

LEMMA BrokerStep == BrokerInv /\ [Next]_vars => BrokerInv'
<1> SUFFICES ASSUME BrokerInv, [Next]_vars PROVE BrokerInv'
  OBVIOUS
<1>1. ASSUME NEW c \in Clients, Connect(c) PROVE BrokerInv'
  BY <1>1, PrepareStep, EnterStep, StartStep, OpenStep, SpawnStep, IdentifyStep,
     AwaitStep, StartSecondaryStep, CommitStep, ProxyExitsStep, ReleaseStep
  DEF Connect
<1>2. ASSUME NEW c \in Clients, Disturb(c) PROVE BrokerInv'
  BY <1>2, SignalStep, AroundStep DEF Disturb
<1>3. CASE Command
  BY <1>3, CommandStep
<1>4. CASE \/ \E k \in Keys : IdleAges(k)
           \/ \E n \in Processes : Serve(n)
           \/ UNCHANGED vars
  BY <1>4, AroundStep
<1> QED
  BY <1>1, <1>2, <1>3, <1>4 DEF Next, Terminated

THEOREM BrokerInvariance == Spec => []BrokerInv
BY BrokerInit, BrokerStep, PTL DEF Spec

-----------------------------------------------------------------------------
(* The results.                                                            *)

\* Every state the broker can write or work on is well-formed.
THEOREM BrokerTypeCorrect == Spec => []TypeOK
<1>1. BrokerInv => TypeOK
  BY DEF BrokerInv
<1> QED
  BY <1>1, BrokerInvariance, PTL

\* The live leases on one root name one owner, in services.json and in the copy
\* of the connect that holds the flock, for any number of clients, services and
\* faults.
THEOREM WorktreeHasOneOwner == Spec => []OneOwnerPerRoot
<1>1. BrokerInv => OneOwnerPerRoot
  <2>1. ASSUME NEW f, NEW A, A = Living, Good(f, A) PROVE OneOwner(f)
    BY <2>1 DEF OneOwner, RootOwners, LiveLeases, KeysOf, Good, Filed, Files, Agreed, Living
  <2> QED
    BY <2>1 DEF BrokerInv, OneOwnerPerRoot
<1> QED
  BY <1>1, BrokerInvariance, PTL

\* Migration never puts a lease in the name of an owner its client does not
\* belong to.
THEOREM LeasesAreGenuine == Spec => []GenuineOwners
<1>1. BrokerInv => GenuineOwners
  BY DEF BrokerInv, Good, Genuine, GenuineOwners
<1> QED
  BY <1>1, BrokerInvariance, PTL

\* At most one connect works on the state at a time, whoever was killed in the
\* section before.
THEOREM SectionIsExclusive ==
  Spec => [](\A c, e \in Clients : pc[c] \in Locked /\ pc[e] \in Locked => c = e)
<1>1. BrokerInv => \A c, e \in Clients : pc[c] \in Locked /\ pc[e] \in Locked => c = e
  BY DEF BrokerInv, Section
<1> QED
  BY <1>1, BrokerInvariance, PTL

-----------------------------------------------------------------------------
(* Files and processes.  A record names a process that was spawned for its *)
(* key; a service that still runs under a connected session keeps its      *)
(* record and the lease; an idle clock runs only where nobody is left.     *)

Matched(f) ==
  \A k \in Keys : f.process[k] # None =>
    serves[f.process[k]] = k /\ service[f.process[k]] # "unborn"
Connected(f) ==
  \A c \in Clients : pc[c] = "proxy" => \A n \in links[c] : Running(n) =>
    f.process[serves[n]] = n /\ f.leases[serves[n]][c] # None
Clocked(f) ==
  \A k \in Keys : f.idle[k] # "busy" => \A c \in Living : f.leases[k][c] = None
Sound(f) == Matched(f) /\ Connected(f) /\ Clocked(f)

Born ==
  /\ \A n \in Processes : service[n] # "unborn" => serves[n] \in Keys
  /\ \A c \in Clients : \A n \in links[c] : service[n] # "unborn"

\* Where the section is: the record of its target has been dropped, a child has
\* been spawned for it, the child has been recorded.
Started ==
  /\ pc[lock] \in {"open", "spawn", "identify"} => draft.process[target] = None
  /\ pc[lock] \in {"identify", "await"} => service[child] # "unborn" /\ serves[child] = target
  /\ pc[lock] = "await" => draft.process[target] = child

\* What runs is in the file, or was left behind by a broker that died; in the
\* section it is in the copy, too, or is the child that is about to be.
AllRecorded(f) ==
  \A n \in Processes : Running(n) => f.process[serves[n]] = n \/ n \in orphans
RecordInv ==
  /\ NoUnrecordedService
  /\ lock = None => spawned = {}
  /\ lock # None => \A n \in Processes : Running(n) =>
       \/ draft.process[serves[n]] = n
       \/ pc[lock] = "identify" /\ n = child
       \/ n \in orphans
  /\ PortsAreExclusive

ServiceInv ==
  /\ Born
  /\ Sound(disk)
  /\ lock # None => Sound(draft) /\ Started
  /\ RecordInv

\* A step as the files see it: processes and sessions only end.
StillRuns(n) == service'[n] \in {"starting", "listening", "hung"}
StillRecorded(f) ==
  \A n \in Processes : StillRuns(n) => f.process[serves[n]] = n \/ n \in orphans'
Calm ==
  /\ \A n \in Processes : service[n] # "unborn" =>
       service'[n] # "unborn" /\ serves'[n] = serves[n] /\ (StillRuns(n) => Running(n))
  /\ \A c \in Clients : links'[c] \subseteq links[c]
  /\ \A c \in Clients : pc'[c] = "proxy" => pc[c] = "proxy"
  /\ Living' \subseteq Living
  /\ orphans \subseteq orphans'

\* g keeps what f says about the services that still run, and the leases in them.
Keeps(f, g) ==
  \A k \in Keys :
    /\ g.process[k] \in {None, f.process[k]}
    /\ f.process[k] # None /\ StillRuns(f.process[k]) =>
         /\ g.process[k] = f.process[k]
         /\ \A c \in Living' : f.leases[k][c] # None => g.leases[k][c] # None
    /\ g.idle[k] # "busy" => \A c \in Living' : g.leases[k][c] = None

LEMMA KeepsTrans ==
  ASSUME NEW f, NEW g, NEW h, Keeps(f, g), Keeps(g, h) PROVE Keeps(f, h)
BY DEF Keeps

LEMMA KeepsSelf ==
  ASSUME NEW f, Clocked(f), Calm PROVE Keeps(f, f)
BY DEF Keeps, Clocked, Calm

\* A file that keeps what a sound one says is sound when the step is over.
LEMMA KeepsSound ==
  ASSUME BrokerInv, Born, Calm, NEW f \in Files, Sound(f), NEW g, Keeps(f, g)
  PROVE  Sound(g)'
<1>1. Matched(g)'
  BY DEF Sound, Matched, Keeps, Calm, Files
<1>2. Connected(g)'
  <2> SUFFICES ASSUME NEW c \in Clients, pc'[c] = "proxy", NEW n \in links'[c], Running(n)'
               PROVE  g.process[serves'[n]] = n /\ g.leases[serves'[n]][c] # None
    BY DEF Connected
  <2>1. pc[c] = "proxy" /\ n \in links[c] /\ n \in Processes /\ StillRuns(n)
    BY DEF Calm, StillRuns, Running, BrokerInv, TypeOK
  <2>2. service[n] # "unborn" /\ serves'[n] = serves[n] /\ serves[n] \in Keys /\ Running(n)
    BY <2>1 DEF Born, Calm
  <2>3. f.process[serves[n]] = n /\ f.leases[serves[n]][c] # None
    BY <2>1, <2>2 DEF Sound, Connected
  <2>4. c \in Living' /\ n # None
    BY <2>1, BrokerAssumption DEF Living, Alive
  <2> QED
    BY <2>1, <2>2, <2>3, <2>4 DEF Keeps
<1>3. Clocked(g)'
  BY DEF Keeps, Clocked
<1> QED
  BY <1>1, <1>2, <1>3 DEF Sound

-----------------------------------------------------------------------------
(* What the operators on files keep, once more.                            *)

LEMMA PruneKeeps ==
  ASSUME NEW f \in Files, Clocked(f), Calm, NEW K PROVE Keeps(f, Prune(f, K))
<1> DEFINE g == Prune(f, K)
<1>1. /\ g.process = f.process
      /\ \A k \in Keys, c \in Clients :
           g.leases[k][c] = IF k \in K /\ ~Alive(c) THEN None ELSE f.leases[k][c]
  BY DEF Prune
<1>2. \A k \in Keys : g.idle[k] # "busy" => f.idle[k] # "busy" \/ LiveLeases(f, k) = {}
  BY DEF Prune
<1>3. \A c \in Living' : c \in Clients /\ Alive(c)
  BY DEF Calm, Living
<1>4. \A k \in Keys : g.idle[k] # "busy" => \A c \in Living' : f.leases[k][c] = None
  BY <1>2, <1>3 DEF LiveLeases, Clocked, Living
<1>5. g.process = f.process /\ \A k \in Keys, c \in Living' : g.leases[k][c] = f.leases[k][c]
  BY <1>1, <1>3
<1> QED
  BY <1>4, <1>5 DEF Keeps

LEMMA PruneClocked ==
  ASSUME NEW f \in Files, Clocked(f), NEW K PROVE Clocked(Prune(f, K))
BY DEF Prune, Clocked, LiveLeases, Living

\* Records may go when their processes do.
LEMMA DropKeeps ==
  ASSUME NEW f \in Files, Clocked(f), Calm, NEW K,
         \A k \in K \cap Keys : f.process[k] # None => ~StillRuns(f.process[k])
  PROVE  Keeps(f, Drop(f, K))
<1> DEFINE g == Drop(f, K)
<1>1. \A k \in Keys :
        /\ g.process[k] = IF k \in K THEN None ELSE f.process[k]
        /\ \A c \in Clients : g.leases[k][c] = IF k \in K THEN None ELSE f.leases[k][c]
        /\ g.idle[k] = IF k \in K THEN "busy" ELSE f.idle[k]
  BY DEF Drop
<1>2. \A c \in Living' : c \in Clients /\ c \in Living
  BY DEF Calm, Living
<1> QED
  BY <1>1, <1>2 DEF Keeps, Clocked

LEMMA SweepKeeps ==
  ASSUME NEW f \in Files, Sound(f), Calm PROVE Keeps(f, Sweep(f))
<1> DEFINE g == Prune(f, Keys)
<1>1. g \in Files /\ g.process = f.process
  BY DEF Prune, Files
<1>2. Clocked(g) /\ Keeps(f, g)
  BY PruneClocked, PruneKeeps DEF Sound
<1>3. \A k \in {k \in Keys : ~Owned(f, k)} \cap Keys :
        g.process[k] # None => ~StillRuns(g.process[k])
  BY <1>1 DEF Owned, Recorded, Sound, Matched, Calm, Files
<1>4. Keeps(g, Sweep(f))
  BY <1>1, <1>2, <1>3, DropKeeps DEF Sweep
<1> QED
  BY <1>2, <1>4, KeepsTrans

\* A lease is taken away from a client that is about to be gone.
LEMMA ReleasedKeeps ==
  ASSUME NEW f \in Files, Clocked(f), Calm, NEW c \in Clients \ Living'
  PROVE  Keeps(f, Released(f, c)) /\ Clocked(Released(f, c))
BY DEF Keeps, Released, Files, Clocked, Calm, Living

LEMMA MigrateKeeps ==
  ASSUME NEW f \in Files, Clocked(f), Calm, NEW c \in Clients
  PROVE  Keeps(f, Migrate(f, c)) /\ Clocked(Migrate(f, c))
<1>1. OwnerOf[c] # None
  BY BrokerAssumption
<1>2. CASE ~Adopts(f, c)
  BY <1>2, KeepsSelf DEF Migrate
<1>3. CASE Adopts(f, c)
  BY <1>1, <1>3 DEF Keeps, Migrate, Clocked, Calm, Living
<1> QED
  BY <1>2, <1>3

LEMMA LeaseKeeps ==
  ASSUME NEW f \in Files, Clocked(f), Calm, NEW c \in Clients, NEW k \in Keys
  PROVE  Keeps(f, Lease(f, k, c))
<1> DEFINE g == Lease(f, k, c)
<1>1. /\ g.process = f.process
      /\ \A j \in Keys, d \in Clients :
           g.leases[j][d] = IF j = k /\ d = c THEN OwnerOf[c] ELSE f.leases[j][d]
      /\ \A j \in Keys : g.idle[j] = IF j = k THEN "busy" ELSE f.idle[j]
  BY DEF Lease, Files
<1>2. OwnerOf[c] # None
  BY BrokerAssumption
<1>3. Living' \subseteq Living /\ Living \subseteq Clients
  BY DEF Calm, Living
<1> QED
  BY <1>1, <1>2, <1>3 DEF Keeps, Clocked

LEMMA SweepClocked ==
  ASSUME NEW f \in Files, Clocked(f) PROVE Clocked(Sweep(f)) /\ Sweep(f) \in Files
<1>1. Clocked(Prune(f, Keys)) /\ Prune(f, Keys) \in Files
  <2>1. Prune(f, Keys) \in Files
    BY DEF Prune, Files
  <2> QED
    BY <2>1, PruneClocked
<1>2. \A g \in Files : \A K : Clocked(g) => Clocked(Drop(g, K)) /\ Drop(g, K) \in Files
  BY DEF Drop, Files, Clocked, Living
<1> QED
  BY <1>1, <1>2 DEF Sweep

LEMMA RecordSound ==
  ASSUME BrokerInv, Born, NEW f \in Files, Sound(f), NEW k \in Keys, f.process[k] = None,
         NEW n \in Processes, service[n] # "unborn", serves[n] = k
  PROVE  Sound(Record(f, k, n)) /\ Record(f, k, n) \in Files
<1> DEFINE g == Record(f, k, n)
<1>1. /\ g \in Files
      /\ \A j \in Keys : g.process[j] = IF j = k THEN n ELSE f.process[j]
      /\ \A j \in Keys, d \in Clients :
           g.leases[j][d] = IF j = k THEN None ELSE f.leases[j][d]
      /\ \A j \in Keys : g.idle[j] = IF j = k THEN "busy" ELSE f.idle[j]
  BY DEF Record, Files
<1> HIDE DEF g
<1>2. Matched(g)
  BY <1>1 DEF Sound, Matched
<1>3. Clocked(g)
  BY <1>1 DEF Sound, Clocked, Living
<1>4. Connected(g)
  <2> SUFFICES ASSUME NEW c \in Clients, pc[c] = "proxy", NEW m \in links[c], Running(m)
               PROVE  g.process[serves[m]] = m /\ g.leases[serves[m]][c] # None
    BY DEF Connected
  <2>1. f.process[serves[m]] = m /\ f.leases[serves[m]][c] # None
    BY DEF Sound, Connected
  <2>2. m \in Processes /\ m # None /\ serves[m] \in Keys
    BY BrokerAssumption DEF BrokerInv, TypeOK, Born
  <2> QED
    BY <1>1, <2>1, <2>2 DEF BrokerInv, TypeOK
<1> QED
  BY <1>1, <1>2, <1>3, <1>4 DEF Sound, g

-----------------------------------------------------------------------------
(* Steps.                                                                  *)

NoBirth ==
  /\ port' = port
  /\ \A n \in Processes : service'[n] # "unborn" => service[n] # "unborn"

\* Some processes are stopped.
Halts ==
  /\ UNCHANGED <<serves, port>>
  /\ orphans \subseteq orphans'
  /\ \A n \in Processes :
       service'[n] = service[n] \/ (service[n] # "unborn" /\ service'[n] = "dead")

LEMMA MoveCalm ==
  ASSUME BrokerInv, Halts, \A c \in Clients : links'[c] \subseteq links[c],
         \/ pc' = pc
         \/ \E c \in Clients, to \in Stages \ {"proxy"} :
              pc' = [pc EXCEPT ![c] = to] /\ pc[c] # "done"
  PROVE  Calm /\ NoBirth
<1>1. \A n \in Processes : service[n] # "unborn" =>
        service'[n] # "unborn" /\ serves'[n] = serves[n] /\ (StillRuns(n) => Running(n))
  BY DEF Halts, StillRuns, Running
<1>2. /\ \A c \in Clients : pc'[c] = "proxy" => pc[c] = "proxy"
      /\ Living' \subseteq Living
  BY DEF BrokerInv, TypeOK, Living, Alive
<1>3. NoBirth /\ orphans \subseteq orphans'
  BY DEF Halts, NoBirth
<1> QED
  BY <1>1, <1>2, <1>3 DEF Calm

LEMMA CalmBorn ==
  ASSUME BrokerInv, Born, Calm, NoBirth PROVE Born'
BY DEF BrokerInv, TypeOK, Born, Calm, NoBirth

LEMMA CalmRecorded ==
  ASSUME Calm, NoBirth
  PROVE  /\ \A f : AllRecorded(f) => StillRecorded(f)
         /\ PortsAreExclusive => PortsAreExclusive'
<1>1. \A n \in Processes : StillRuns(n) => Running(n)
  BY DEF Calm, NoBirth, StillRuns
<1>2. \A n \in Processes : Running(n)' => Running(n)
  BY <1>1 DEF StillRuns, Running
<1> QED
  BY <1>1, <1>2 DEF AllRecorded, StillRecorded, PortsAreExclusive, NoBirth, Calm

\* What still runs is in a file that keeps one it is in.
LEMMA KeepsRecorded ==
  ASSUME BrokerInv, Born, Calm, NoBirth, NEW f, StillRecorded(f), NEW g, Keeps(f, g)
  PROVE  AllRecorded(g)'
<1> SUFFICES ASSUME NEW n \in Processes, Running(n)', n \notin orphans'
             PROVE  g.process[serves'[n]] = n
  BY DEF AllRecorded
<1>1. StillRuns(n) /\ service'[n] # "unborn"
  BY DEF StillRuns, Running
<1>2. service[n] # "unborn" /\ serves'[n] = serves[n] /\ serves[n] \in Keys
  BY <1>1 DEF Calm, NoBirth, Born
<1>3. f.process[serves[n]] = n /\ n # None
  BY <1>1, BrokerAssumption DEF StillRecorded
<1> QED
  BY <1>1, <1>2, <1>3 DEF Keeps

\* No service is lost by a step that keeps what the file says.
LEMMA KeepsFiled ==
  ASSUME BrokerInv, ServiceInv, Calm, NoBirth, Keeps(disk, disk'), spawned \subseteq spawned'
  PROVE  NoUnrecordedService'
<1> SUFFICES ASSUME NEW n \in Processes, Running(n)', n \notin spawned' \cup orphans'
             PROVE  disk'.process[serves'[n]] = n
  BY DEF NoUnrecordedService
<1>1. StillRuns(n) /\ service'[n] # "unborn"
  BY DEF StillRuns, Running
<1>2. service[n] # "unborn" /\ Running(n) /\ serves'[n] = serves[n] /\ serves[n] \in Keys
  BY <1>1 DEF Calm, NoBirth, Born, ServiceInv
<1>3. n \notin spawned \cup orphans /\ n # None
  BY BrokerAssumption DEF Calm
<1>4. disk.process[serves[n]] = n
  BY <1>2, <1>3 DEF ServiceInv, RecordInv, NoUnrecordedService
<1> QED
  BY <1>1, <1>2, <1>3, <1>4 DEF Keeps

\* A step outside the section.
LEMMA OutsideSound ==
  ASSUME BrokerInv, ServiceInv, Calm, NoBirth, OutsideStep, UNCHANGED sectionVars,
         Keeps(disk, disk')
  PROVE  ServiceInv'
<1>1. Born'
  BY CalmBorn DEF ServiceInv
<1>2. Sound(disk)'
  BY KeepsSound DEF ServiceInv, BrokerInv, TypeOK
<1>3. ASSUME lock' # None PROVE Sound(draft)' /\ Started'
  <2>1. lock \in Clients /\ lock # None /\ lock' = lock /\ draft' = draft /\ draft \in Files
    BY <1>3 DEF sectionVars, BrokerInv, TypeOK
  <2>2. Sound(draft) /\ Started
    BY <2>1 DEF ServiceInv
  <2>3. Keeps(draft, draft)
    BY <2>2, KeepsSelf DEF Sound
  <2>4. Sound(draft)'
    BY <2>1, <2>2, <2>3, KeepsSound DEF ServiceInv
  <2>5. pc'[lock] = pc[lock]
    BY <2>1 DEF OutsideStep, BrokerInv, Section
  <2>6. pc[lock] \in {"identify", "await"} => child \in Processes
    BY <2>1 DEF BrokerInv, Section
  <2>7. Started'
    BY <2>1, <2>2, <2>5, <2>6 DEF Started, Calm, sectionVars
  <2> QED
    BY <2>4, <2>7
<1>4. RecordInv'
  <2>1. NoUnrecordedService' /\ PortsAreExclusive'
    BY KeepsFiled, CalmRecorded DEF ServiceInv, RecordInv, sectionVars
  <2>2. CASE lock = None
    BY <2>1, <2>2 DEF ServiceInv, RecordInv, sectionVars
  <2>3. CASE lock # None
    <3>1. pc'[lock'] = pc[lock] /\ UNCHANGED <<lock, draft, target, child>>
      BY <2>3 DEF OutsideStep, BrokerInv, TypeOK, Section, sectionVars
    <3>2. \A n \in Processes : Running(n)' => Running(n) /\ serves'[n] = serves[n]
      BY DEF Calm, NoBirth, StillRuns, Running
    <3>3. orphans \subseteq orphans'
      BY DEF Calm
    <3> QED
      BY <2>1, <2>3, <3>1, <3>2, <3>3 DEF ServiceInv, RecordInv
  <2> QED
    BY <2>2, <2>3
<1> QED
  BY <1>1, <1>2, <1>3, <1>4 DEF ServiceInv

\* The section ends.
LEMMA LeavingSound ==
  ASSUME BrokerInv, ServiceInv, Calm, NoBirth,
         NEW f \in Files, Sound(f), NEW g, Keeps(f, g), Leave(g), StillRecorded(f)
  PROVE  ServiceInv'
<1>1. Born' /\ Sound(disk)'
  BY CalmBorn, KeepsSound DEF ServiceInv, Leave
<1>2. AllRecorded(disk)'
  BY KeepsRecorded DEF ServiceInv, Leave
<1>3. NoUnrecordedService'
  BY <1>2 DEF AllRecorded, NoUnrecordedService
<1>4. PortsAreExclusive'
  BY CalmRecorded DEF ServiceInv, RecordInv
<1> QED
  BY <1>1, <1>3, <1>4 DEF ServiceInv, RecordInv, Leave

\* The section goes on.
LEMMA WorkingSound ==
  ASSUME BrokerInv, ServiceInv, Calm, NoBirth, lock' # None, disk' = disk,
         NEW f \in Files, Sound(f), Keeps(f, draft'), Started', StillRecorded(f),
         spawned \subseteq spawned'
  PROVE  ServiceInv'
<1>1. Born' /\ Sound(draft)'
  BY CalmBorn, KeepsSound DEF ServiceInv
<1>2. Keeps(disk, disk')
  BY KeepsSelf DEF ServiceInv, Sound
<1>3. Sound(disk)'
  BY <1>2, KeepsSound DEF ServiceInv, BrokerInv, TypeOK
<1>4. NoUnrecordedService' /\ PortsAreExclusive'
  BY <1>2, KeepsFiled, CalmRecorded DEF ServiceInv, RecordInv
<1>5. AllRecorded(draft)'
  BY KeepsRecorded DEF ServiceInv
<1>6. RecordInv'
  BY <1>4, <1>5 DEF RecordInv, AllRecorded
<1> QED
  BY <1>1, <1>3, <1>6 DEF ServiceInv

\* The facts about the files of a client in the section.
LEMMA InSectionSound ==
  ASSUME BrokerInv, ServiceInv, NEW c \in Clients, pc[c] \in Locked
  PROVE  /\ Sound(draft) /\ Clocked(draft) /\ Matched(draft) /\ draft \in Files
         /\ pc[c] \in {"open", "spawn", "identify"} => draft.process[target] = None
         /\ pc[c] \in {"identify", "await"} => service[child] # "unborn" /\ serves[child] = target
         /\ pc[c] = "await" => draft.process[target] = child
         /\ pc[c] # "identify" => AllRecorded(draft)
<1>1. lock = c /\ lock # None
  BY InSection
<1>2. Sound(draft) /\ Started /\ RecordInv
  BY <1>1 DEF ServiceInv
<1>3. pc[c] # "identify" => AllRecorded(draft)
  BY <1>1, <1>2 DEF RecordInv, AllRecorded
<1> QED
  BY <1>1, <1>2, <1>3 DEF Started, BrokerInv, TypeOK, Sound

LEMMA FailSound ==
  ASSUME BrokerInv, ServiceInv, NEW c \in Clients, NEW from \in Locked, NEW g,
         Fail(c, from, g), Calm => Keeps(draft, g), links' = links, Halts,
         from = "identify" => StillRecorded(draft)
  PROVE  ServiceInv'
<1>1. pc[c] = from /\ pc[c] \in Locked /\ pc[c] # "done"
  BY DEF Fail, Goto, Locked
<1>2. Calm /\ NoBirth
  BY <1>1, MoveCalm DEF Fail, Goto, Stages, Locked
<1>3. /\ draft \in Files /\ Sound(draft) /\ lock = c /\ c # None
      /\ StillRecorded(draft)
  BY <1>1, <1>2, InSection, InSectionSound, CalmRecorded
<1>4. CASE Leave(g)
  BY <1>2, <1>3, <1>4, LeavingSound
<1>5. CASE Goto(c, from, "leased") /\ draft' = g /\ UNCHANGED <<lock, target, spawned, disk>>
  <2>1. pc'[lock'] = "leased"
    BY <1>3, <1>5 DEF Goto, BrokerInv, TypeOK
  <2>2. Started'
    BY <2>1 DEF Started
  <2> QED
    BY <1>2, <1>3, <1>5, <2>2, WorkingSound
<1> QED
  BY <1>4, <1>5 DEF Fail

LEMMA TakeLeaseSound ==
  ASSUME BrokerInv, ServiceInv, NEW c \in Clients, NEW from \in Locked, NEW f \in Files,
         from # "identify", TakeLease(c, from, f), Clocked(f), Calm => Keeps(draft, f),
         links' = links, UNCHANGED processVars
  PROVE  ServiceInv'
<1>1. pc[c] = from /\ pc[c] \in Locked /\ pc[c] # "done"
  BY DEF TakeLease, Goto, Locked
<1>2. Calm /\ NoBirth
  BY <1>1, MoveCalm DEF TakeLease, Goto, Stages, Locked, Halts, processVars
<1>3. /\ draft \in Files /\ Sound(draft) /\ lock = c /\ c # None /\ target \in Keys
      /\ StillRecorded(draft)
  BY <1>1, <1>2, InSection, InSectionSound, CalmRecorded
<1>4. Keeps(draft, draft')
  BY <1>2, <1>3, LeaseKeeps, KeepsTrans DEF TakeLease
<1>5. Started'
  <2>1. pc'[lock'] = "leased"
    BY <1>3 DEF TakeLease, Goto, BrokerInv, TypeOK
  <2> QED
    BY <2>1 DEF Started
<1> QED
  BY <1>2, <1>3, <1>4, <1>5, WorkingSound DEF TakeLease

LEMMA SoundEnter ==
  ASSUME BrokerInv, ServiceInv, NEW c \in Clients, Enter(c) PROVE ServiceInv'
<1> DEFINE f == Migrate(Sweep(disk), c)
<1>1. Calm /\ NoBirth
  BY MoveCalm DEF Enter, Goto, Stages, Locked, Halts, processVars
<1>2. disk \in Files /\ Sound(disk) /\ c # None /\ StillRecorded(disk)
  <2>1. AllRecorded(disk)
    BY DEF ServiceInv, RecordInv, NoUnrecordedService, AllRecorded, Enter
  <2> QED
    BY <1>1, <2>1, CalmRecorded, BrokerAssumption DEF BrokerInv, TypeOK, ServiceInv
<1>3. Keeps(disk, f)
  BY <1>1, <1>2, SweepKeeps, SweepClocked, MigrateKeeps, KeepsTrans DEF Sound
<1>4. CASE /\ Goto(c, "wait", "start")
           /\ lock' = c
           /\ draft' = f
           /\ target' = Primary[c]
           /\ UNCHANGED <<disk, spawned>>
  <2>1. Started'
    BY <1>4 DEF Started, Goto, BrokerInv, TypeOK
  <2> QED
    BY <1>1, <1>2, <1>3, <1>4, <2>1, WorkingSound
<1>5. CASE Leave(f)
  BY <1>1, <1>2, <1>3, <1>5, LeavingSound
<1> QED
  BY <1>4, <1>5 DEF Enter

LEMMA SoundStart ==
  ASSUME BrokerInv, ServiceInv, NEW c \in Clients, Start(c) PROVE ServiceInv'
<1> DEFINE f == Prune(draft, {target})
<1>0. pc[c] = "start" /\ pc[c] \in Locked /\ lock = c /\ target \in Keys
  BY InSection DEF Start, Goto, Locked, TakeLease
<1>1. /\ Sound(draft) /\ Clocked(draft) /\ Matched(draft) /\ draft \in Files /\ c # None
      /\ AllRecorded(draft)
  BY <1>0, InSectionSound, BrokerAssumption
<1>2. f \in Files /\ f.process = draft.process
  BY <1>1 DEF Prune, Files
<1>3. Clocked(f) /\ (Calm => Keeps(draft, f))
  BY <1>1, PruneKeeps, PruneClocked
<1>4. CASE TakeLease(c, "start", f) /\ UNCHANGED <<links, processVars>>
  BY <1>2, <1>3, <1>4, TakeLeaseSound DEF Locked
<1>5. CASE /\ Goto(c, "start", IF target \in NeedsWindow THEN "open" ELSE "spawn")
           /\ draft' = Drop(f, {target})
           /\ service' = IF Owned(f, target)
                         THEN [service EXCEPT ![f.process[target]] = "dead"] ELSE service
           /\ UNCHANGED <<links, lock, target, child, spawned, disk, serves, port, orphans>>
  <2>1. Halts
    BY <1>1, <1>5 DEF Halts, Owned, Running, BrokerInv, TypeOK
  <2>2. Calm /\ NoBirth
    BY <1>0, <1>5, <2>1, MoveCalm DEF Goto, Stages, Locked
  <2>3. \A k \in {target} \cap Keys : f.process[k] # None => ~StillRuns(f.process[k])
    <3>1. CASE f.process[target] = None
      BY <3>1
    <3>2. CASE f.process[target] \in Processes
      BY <1>0, <1>5, <3>2 DEF Owned, Recorded, StillRuns, Running, BrokerInv, TypeOK
    <3> QED
      BY <1>0, <1>2, <3>1, <3>2 DEF Files
  <2>4. Keeps(draft, draft')
    BY <1>2, <1>3, <1>5, <2>2, <2>3, DropKeeps, KeepsTrans
  <2>5. pc'[lock'] \in {"open", "spawn"} /\ draft'.process[target'] = None
    BY <1>0, <1>2, <1>5 DEF Goto, Drop, BrokerInv, TypeOK
  <2>6. Started'
    BY <2>5 DEF Started
  <2>7. StillRecorded(draft)
    BY <1>1, <2>2, CalmRecorded
  <2> QED
    BY <1>0, <1>1, <1>5, <2>2, <2>4, <2>6, <2>7, WorkingSound
<1> QED
  BY <1>4, <1>5 DEF Start

LEMMA SoundOpen ==
  ASSUME BrokerInv, ServiceInv, NEW c \in Clients, OpenIntellij(c) PROVE ServiceInv'
<1>0. pc[c] = "open" /\ pc[c] \in Locked /\ lock = c
  BY InSection DEF OpenIntellij, Fail, Goto, Locked
<1>1. /\ Sound(draft) /\ draft \in Files /\ draft.process[target] = None /\ c # None
      /\ Calm => Keeps(draft, draft)
      /\ AllRecorded(draft)
  BY <1>0, InSectionSound, KeepsSelf, BrokerAssumption
<1>2. Halts
  BY DEF OpenIntellij, Halts, processVars
<1>3. CASE Goto(c, "open", "spawn") /\ UNCHANGED <<sectionVars, disk, links>>
  <2>1. Calm /\ NoBirth
    BY <1>0, <1>2, <1>3, MoveCalm DEF Goto, Stages, Locked
  <2>2. pc'[lock'] = "spawn" /\ draft'.process[target'] = None
    BY <1>0, <1>1, <1>3 DEF Goto, BrokerInv, TypeOK, sectionVars
  <2>3. Started'
    BY <2>2 DEF Started
  <2>4. StillRecorded(draft)
    BY <1>1, <2>1, CalmRecorded
  <2> QED
    BY <1>0, <1>1, <1>3, <2>1, <2>3, <2>4, WorkingSound DEF sectionVars
<1>4. CASE Fail(c, "open", draft) /\ UNCHANGED links
  BY <1>1, <1>2, <1>4, FailSound DEF Locked
<1> QED
  BY <1>3, <1>4 DEF OpenIntellij

LEMMA SoundSpawn ==
  ASSUME BrokerInv, ServiceInv, NEW c \in Clients, Spawn(c) PROVE ServiceInv'
<1>0. pc[c] = "spawn" /\ pc[c] \in Locked /\ lock = c /\ target \in Keys /\ pc[c] # "done"
  BY InSection DEF Spawn, Fail, Goto, Locked
<1>1. /\ Sound(draft) /\ draft \in Files /\ draft.process[target] = None
      /\ Calm => Keeps(draft, draft)
      /\ AllRecorded(draft)
  BY <1>0, InSectionSound, KeepsSelf
<1>2. CASE Fail(c, "spawn", draft) /\ UNCHANGED <<links, processVars>>
  BY <1>1, <1>2, FailSound DEF Locked, Halts, processVars
<1>3. ASSUME Goto(c, "spawn", "identify"),
             UNCHANGED <<links, lock, draft, target, disk, orphans>>,
             NEW n \in Processes, service[n] = "unborn", child' = n,
             spawned' = spawned \cup {n},
             service' = [service EXCEPT ![n] = "starting"],
             serves' = [serves EXCEPT ![n] = target],
             NEW p \in FreePorts, port' = [port EXCEPT ![n] = p]
      PROVE  ServiceInv'
  <2>1. /\ service'[n] = "starting" /\ serves'[n] = target /\ port'[n] = p
        /\ \A m \in Processes \ {n} :
             service'[m] = service[m] /\ serves'[m] = serves[m] /\ port'[m] = port[m]
    BY <1>3 DEF BrokerInv, TypeOK
  <2>2. Calm
    <3>1. \A m \in Processes : service[m] # "unborn" =>
            service'[m] # "unborn" /\ serves'[m] = serves[m] /\ (StillRuns(m) => Running(m))
      BY <1>3, <2>1 DEF StillRuns, Running
    <3> QED
      BY <1>0, <1>3, <3>1 DEF Calm, Goto, Living, Alive, BrokerInv, TypeOK
  <2>3. Born'
    <3>1. \A m \in Processes : service'[m] # "unborn" => serves'[m] \in Keys
      BY <1>0, <2>1 DEF ServiceInv, Born
    <3>2. \A d \in Clients : \A m \in links'[d] : service'[m] # "unborn"
      BY <1>3, <2>1 DEF ServiceInv, Born, BrokerInv, TypeOK
    <3> QED
      BY <3>1, <3>2 DEF Born
  <2>4. Sound(draft)' /\ Sound(disk)'
    <3>1. disk \in Files /\ Sound(disk) /\ Born
      BY DEF ServiceInv, BrokerInv, TypeOK
    <3>2. Keeps(disk, disk) /\ Keeps(draft, draft)
      BY <1>1, <2>2, <3>1, KeepsSelf DEF Sound
    <3> QED
      BY <1>1, <1>3, <2>2, <3>1, <3>2, KeepsSound
  <2>5. /\ pc'[lock'] = "identify" /\ draft'.process[target'] = None
        /\ service'[child'] # "unborn" /\ serves'[child'] = target'
    BY <1>0, <1>1, <1>3, <2>1 DEF Goto, BrokerInv, TypeOK
  <2>6. Started'
    BY <2>5 DEF Started
  <2>7. RecordInv'
    <3>1. \A m \in Processes : Running(m)' =>
            \/ m = n
            \/ /\ Running(m) /\ serves[m] \in Keys
               /\ draft.process[serves[m]] = m \/ m \in orphans
      BY <1>1, <2>1 DEF Running, AllRecorded, ServiceInv, Born
    <3>2. \A m \in Processes : Running(m)' =>
            \/ draft'.process[serves'[m]] = m
            \/ pc'[lock'] = "identify" /\ m = child'
            \/ m \in orphans'
      BY <1>3, <2>1, <2>5, <3>1
    <3>3. \A m \in Processes \ {n} : Running(m)' /\ m \notin orphans => port'[m] # port'[n]
      BY <2>1, <3>1, BrokerAssumption DEF FreePorts, Recorded
    <3>4. PortsAreExclusive'
      <4> SUFFICES ASSUME NEW m1 \in Processes, NEW m2 \in Processes, m1 # m2,
                          Running(m1)', Running(m2)', m1 \notin orphans', m2 \notin orphans'
                   PROVE  port'[m1] # port'[m2]
        BY DEF PortsAreExclusive
      <4>1. CASE m1 = n \/ m2 = n
        BY <1>3, <3>3, <4>1
      <4>2. CASE m1 # n /\ m2 # n
        BY <1>3, <2>1, <3>1, <4>2 DEF ServiceInv, RecordInv, PortsAreExclusive
      <4> QED
        BY <4>1, <4>2
    <3>5. NoUnrecordedService'
      <4> SUFFICES ASSUME NEW m \in Processes, Running(m)'
                   PROVE  disk'.process[serves'[m]] = m \/ m \in spawned' \cup orphans'
        BY DEF NoUnrecordedService
      <4>1. CASE m = n
        BY <1>3, <4>1
      <4>2. CASE m # n
        BY <1>3, <2>1, <3>1, <4>2 DEF ServiceInv, RecordInv, NoUnrecordedService
      <4> QED
        BY <4>1, <4>2
    <3> QED
      BY <1>0, <1>3, <3>2, <3>4, <3>5, BrokerAssumption DEF RecordInv
  <2> QED
    BY <2>3, <2>4, <2>6, <2>7 DEF ServiceInv
<1> QED
  BY <1>2, <1>3 DEF Spawn

LEMMA SoundIdentify ==
  ASSUME BrokerInv, ServiceInv, NEW c \in Clients, Identify(c) PROVE ServiceInv'
<1>0. /\ pc[c] = "identify" /\ pc[c] \in Locked /\ lock = c /\ target \in Keys
      /\ child \in Processes /\ pc[c] # "done"
  BY InSection DEF Identify, Fail, Goto, Locked
<1>1. /\ Sound(draft) /\ draft \in Files /\ draft.process[target] = None
      /\ service[child] # "unborn" /\ serves[child] = target
      /\ Calm => Keeps(draft, draft)
      /\ \A n \in Processes : Running(n) =>
           draft.process[serves[n]] = n \/ n = child \/ n \in orphans
  BY <1>0, InSectionSound, KeepsSelf, BrokerAssumption DEF ServiceInv, RecordInv
<1>2. CASE /\ Goto(c, "identify", "await")
           /\ draft' = Record(draft, target, child)
           /\ UNCHANGED <<lock, target, child, spawned, disk, service, links, serves, port, orphans>>
  <2>1. Calm /\ NoBirth
    BY <1>0, <1>2, MoveCalm DEF Goto, Stages, Locked, Halts
  <2>2. Sound(draft') /\ draft' \in Files
    <3>1. Sound(Record(draft, target, child)) /\ Record(draft, target, child) \in Files
      BY <1>0, <1>1, RecordSound DEF ServiceInv
    <3> QED
      BY <1>2, <3>1
  <2>3. Keeps(draft', draft')
    BY <2>1, <2>2, KeepsSelf DEF Sound
  <2>4. /\ pc'[lock'] = "await" /\ draft'.process[target'] = child'
        /\ service'[child'] # "unborn" /\ serves'[child'] = target'
    BY <1>0, <1>1, <1>2 DEF Goto, Record, Files, BrokerInv, TypeOK
  <2>5. Started'
    BY <2>4 DEF Started
  <2>6. StillRecorded(draft')
    <3>1. \A k \in Keys : draft'.process[k] = IF k = target THEN child ELSE draft.process[k]
      BY <1>0, <1>1, <1>2 DEF Record, Files
    <3>2. \A n \in Processes : Running(n) => serves[n] \in Keys
      BY DEF ServiceInv, Born, Running
    <3>3. \A n \in Processes : StillRuns(n) => Running(n)
      BY <1>2 DEF StillRuns, Running
    <3>4. ASSUME NEW n \in Processes, Running(n), n \notin orphans
          PROVE  draft'.process[serves[n]] = n
      <4>1. CASE n = child
        BY <1>0, <1>1, <3>1, <4>1
      <4>2. CASE n # child
        BY <1>1, <3>1, <3>2, <3>4, <4>2, BrokerAssumption
      <4> QED
        BY <4>1, <4>2
    <3> QED
      BY <1>2, <3>3, <3>4 DEF StillRecorded
  <2> QED
    BY <1>0, <1>1, <1>2, <2>1, <2>2, <2>3, <2>5, <2>6, WorkingSound, BrokerAssumption
<1>3. CASE /\ Fail(c, "identify", draft)
           /\ service' = [service EXCEPT ![child] = "dead"]
           /\ UNCHANGED <<links, serves, port, orphans>>
  <2>1. Halts
    BY <1>0, <1>1, <1>3 DEF Halts, BrokerInv, TypeOK
  <2>2. StillRecorded(draft)
    <3>1. \A n \in Processes : StillRuns(n) => Running(n) /\ n # child
      BY <1>3, <2>1 DEF StillRuns, Running, Halts, BrokerInv, TypeOK
    <3> QED
      BY <1>1, <1>3, <3>1 DEF StillRecorded
  <2> QED
    BY <1>1, <1>3, <2>1, <2>2, FailSound DEF Locked
<1> QED
  BY <1>2, <1>3 DEF Identify

LEMMA SoundAwait ==
  ASSUME BrokerInv, ServiceInv, NEW c \in Clients, Await(c) PROVE ServiceInv'
<1>0. /\ pc[c] = "await" /\ pc[c] \in Locked /\ lock = c /\ target \in Keys
      /\ child \in Processes
  BY InSection DEF Await, TakeLease, Fail, Goto, Locked
<1>1. /\ Sound(draft) /\ Clocked(draft) /\ draft \in Files /\ draft.process[target] = child
      /\ service[child] # "unborn"
      /\ (Calm => Keeps(draft, draft))
  BY <1>0, InSectionSound, KeepsSelf
<1>2. CASE TakeLease(c, "await", draft) /\ UNCHANGED <<service, links, serves, port, orphans>>
  BY <1>1, <1>2, TakeLeaseSound DEF Locked, processVars
<1>3. CASE /\ Fail(c, "await", Drop(draft, {target}))
           /\ service' = [service EXCEPT ![child] = "dead"]
           /\ UNCHANGED <<links, serves, port, orphans>>
  <2>1. Halts /\ ~StillRuns(child)
    BY <1>0, <1>1, <1>3 DEF Halts, StillRuns, BrokerInv, TypeOK
  <2>2. Calm => Keeps(draft, Drop(draft, {target}))
    BY <1>1, <2>1, DropKeeps
  <2> QED
    BY <1>1, <1>3, <2>1, <2>2, FailSound DEF Locked
<1> QED
  BY <1>2, <1>3 DEF Await

LEMMA SoundSecondary ==
  ASSUME BrokerInv, ServiceInv, NEW c \in Clients, StartSecondary(c) PROVE ServiceInv'
<1>0. pc[c] = "leased" /\ pc[c] \in Locked /\ lock = c
  BY InSection DEF StartSecondary, Goto, Locked
<1>1. Calm /\ NoBirth
  BY <1>0, MoveCalm DEF StartSecondary, Goto, Stages, Locked, Halts, processVars
<1>2. /\ Sound(draft) /\ draft \in Files /\ Keeps(draft, draft) /\ c # None
      /\ StillRecorded(draft)
  BY <1>0, <1>1, InSectionSound, KeepsSelf, CalmRecorded, BrokerAssumption
<1>3. pc'[lock'] = "start"
  BY <1>0 DEF StartSecondary, Goto, BrokerInv, TypeOK
<1>4. Started'
  BY <1>3 DEF Started
<1> QED
  BY <1>0, <1>1, <1>2, <1>4, WorkingSound DEF StartSecondary

\* The proxy of c is given the processes of its leases, whose records are in the
\* file by then.
LEMMA SoundCommit ==
  ASSUME BrokerInv, ServiceInv, NEW c \in Clients, Commit(c) PROVE ServiceInv'
<1>0. pc[c] = "leased" /\ pc[c] \in Locked
  BY DEF Commit, Goto, Locked
<1>1. Sound(draft) /\ draft \in Files /\ Filed(draft)
  BY <1>0, InSection, InSectionSound
<1>2. /\ disk' = draft /\ lock' = None
      /\ UNCHANGED <<service, serves>>
      /\ pc' = [pc EXCEPT ![c] = "proxy"]
      /\ links' = [links EXCEPT ![c] =
                     {draft.process[k] : k \in {k \in Keys : draft.leases[k][c] # None}}]
  BY DEF Commit, Goto, Leave, processVars
<1>3. \A n \in links'[c] :
        /\ service[n] # "unborn" /\ serves[n] \in Keys
        /\ draft.process[serves[n]] = n
        /\ draft.leases[serves[n]][c] # None
  <2>1. links'[c] = {draft.process[k] : k \in {k \in Keys : draft.leases[k][c] # None}}
    BY <1>2 DEF BrokerInv, TypeOK
  <2> QED
    BY <1>1, <2>1 DEF Sound, Matched, Filed
<1>4. \A d \in Clients \ {c} : links'[d] = links[d] /\ pc'[d] = pc[d]
  BY <1>2 DEF BrokerInv, TypeOK
<1>5. Born'
  BY <1>2, <1>3, <1>4 DEF ServiceInv, Born
<1>6. Matched(disk)'
  BY <1>1, <1>2 DEF Sound, Matched
<1>7. Connected(disk)'
  BY <1>1, <1>2, <1>3, <1>4 DEF Sound, Connected, Running
<1>8. Clocked(disk)'
  BY <1>0, <1>1, <1>2 DEF Sound, Clocked, Living, Alive, BrokerInv, TypeOK
<1>9. RecordInv'
  <2>1. AllRecorded(draft) /\ PortsAreExclusive
    BY <1>0, InSectionSound DEF ServiceInv, RecordInv
  <2>2. NoUnrecordedService' /\ PortsAreExclusive'
    BY <1>2, <2>1
    DEF AllRecorded, NoUnrecordedService, PortsAreExclusive, Running, Commit, processVars
  <2> QED
    BY <1>2, <2>2 DEF RecordInv, Commit, Leave
<1> QED
  BY <1>2, <1>5, <1>6, <1>7, <1>8, <1>9 DEF ServiceInv, Sound

\* The steps of a connect outside the section.
LEMMA SoundOutside ==
  ASSUME BrokerInv, ServiceInv, NEW c \in Clients,
         Prepare(c) \/ ProxyExits(c) \/ Release(c)
  PROVE  ServiceInv'
<1>1. /\ OutsideStep /\ UNCHANGED sectionVars /\ Halts
      /\ \A d \in Clients : links'[d] \subseteq links[d]
  BY DEF Prepare, ProxyExits, Release, Goto, OutsideStep, Halts, processVars,
     BrokerInv, TypeOK, Stages, Locked
<1>2. Calm /\ NoBirth
  BY <1>1, MoveCalm DEF Prepare, ProxyExits, Release, Goto, Stages
<1>3. disk \in Files /\ Sound(disk) /\ Clocked(disk)
  BY DEF BrokerInv, TypeOK, ServiceInv, Sound
<1>4. Keeps(disk, disk')
  <2>1. CASE disk' = disk
    BY <1>2, <1>3, <2>1, KeepsSelf
  <2>2. CASE disk' = Sweep(disk)
    BY <1>2, <1>3, <2>2, SweepKeeps
  <2>3. CASE Release(c)
    <3>1. c \notin Living'
      BY <2>3 DEF Release, Goto, Living, Alive, BrokerInv, TypeOK
    <3>2. Released(disk, c) \in Files
      BY <1>3 DEF Released, Files
    <3> QED
      BY <1>2, <1>3, <2>3, <3>1, <3>2, ReleasedKeeps, PruneKeeps, KeepsTrans DEF Release
  <2> QED
    BY <2>1, <2>2, <2>3 DEF Prepare, ProxyExits
<1> QED
  BY <1>1, <1>2, <1>4, OutsideSound

LEMMA SoundSignal ==
  ASSUME BrokerInv, ServiceInv, NEW c \in Clients, Interrupt(c) \/ Kill(c) PROVE ServiceInv'
<1>1. PICK f \in {draft, disk} :
        /\ IF lock = c THEN Leave(f) ELSE UNCHANGED <<sectionVars, disk>>
        /\ \/ f = draft /\ (pc[c] = "identify" => child \in orphans')
           \/ f = disk /\ (lock = c => spawned \subseteq orphans')
  BY DEF Interrupt, Kill
<1>2. PICK to \in {"release", "done"} : pc' = [pc EXCEPT ![c] = to] /\ pc[c] # "done"
  BY DEF Interrupt, Kill, Alive
<1>3. \A d \in Clients : links'[d] \subseteq links[d]
  BY DEF Interrupt, Kill, BrokerInv, TypeOK
<1>4. Calm /\ NoBirth
  BY <1>2, <1>3, MoveCalm DEF Interrupt, Kill, Halts, Stages
<1>5. CASE lock = c
  <2>1. f \in Files /\ Sound(f)
    BY <1>5, BrokerAssumption DEF ServiceInv, BrokerInv, TypeOK
  <2>2. \A n \in Processes : Running(n) => f.process[serves[n]] = n \/ n \in orphans'
    <3>1. lock # None /\ RecordInv /\ orphans \subseteq orphans'
      BY <1>4, <1>5, BrokerAssumption DEF ServiceInv, Calm
    <3>2. CASE f = draft /\ (pc[c] = "identify" => child \in orphans')
      BY <1>5, <3>1, <3>2 DEF RecordInv
    <3>3. CASE f = disk /\ spawned \subseteq orphans'
      BY <3>1, <3>3 DEF RecordInv, NoUnrecordedService
    <3> QED
      BY <1>1, <1>5, <3>2, <3>3
  <2>3. StillRecorded(f)
    BY <1>4, <2>2 DEF StillRecorded, StillRuns, Calm, NoBirth
  <2> QED
    BY <1>1, <1>4, <1>5, <2>1, <2>3, KeepsSelf, LeavingSound DEF Sound
<1>6. CASE lock # c
  <2>1. OutsideStep
    BY <1>2, <1>6 DEF OutsideStep, BrokerInv, TypeOK, Section, Locked
  <2>2. Keeps(disk, disk)
    BY <1>4, KeepsSelf DEF ServiceInv, Sound
  <2> QED
    BY <1>1, <1>4, <1>6, <2>1, <2>2, OutsideSound
<1> QED
  BY <1>5, <1>6

\* What a command stops had a record, and what had a record was running once.
LEMMA StopHalts ==
  ASSUME BrokerInv, Matched(disk), NEW K \in SUBSET Keys, UNCHANGED <<serves, port, orphans>>,
         Stop({disk.process[k] : k \in K}), \A k \in K : disk.process[k] # None
  PROVE  Halts /\ \A k \in K : ~StillRuns(disk.process[k])
<1>1. \A k \in K : disk.process[k] \in Processes /\ service[disk.process[k]] # "unborn"
  BY DEF Matched, BrokerInv, TypeOK, Files
<1> QED
  BY <1>1 DEF Stop, Halts, StillRuns

LEMMA SoundCommand ==
  ASSUME BrokerInv, ServiceInv, Command PROVE ServiceInv'
<1>1. /\ UNCHANGED <<clientVars, sectionVars, serves, port, orphans>>
      /\ \A d \in Clients : links'[d] \subseteq links[d]
  BY DEF Command, Status, Leases, Cleanup, Repair, processVars, clientVars
<1>2. disk \in Files /\ Sound(disk) /\ Clocked(disk) /\ Matched(disk)
  BY DEF BrokerInv, TypeOK, ServiceInv, Sound
<1>3. Sweep(disk) \in Files /\ Clocked(Sweep(disk))
  BY <1>2, SweepClocked
<1>4. \A K : Prune(disk, K) \in Files /\ Prune(disk, K).process = disk.process
             /\ Clocked(Prune(disk, K))
  <2>1. \A K : Prune(disk, K) \in Files /\ Prune(disk, K).process = disk.process
    BY <1>2 DEF Prune, Files
  <2> QED
    BY <1>2, <2>1, PruneClocked
<1>5. Halts => Calm /\ NoBirth
  BY <1>1, MoveCalm DEF clientVars
<1>6. Halts /\ Keeps(disk, disk')
  <2>1. CASE Status \/ Leases
    <3>1. Halts
      BY <2>1 DEF Status, Leases, Halts, processVars
    <3> QED
      BY <1>2, <1>5, <2>1, <3>1, SweepKeeps, PruneKeeps DEF Status, Leases
  <2>2. CASE Cleanup
    <3> DEFINE f == Sweep(disk)
               idle == {k \in Recorded(f) : Reclaimable(f, k)}
    <3>1. \A k \in idle : k \in Keys /\ f.process[k] # None /\ f.process[k] = disk.process[k]
      BY DEF Recorded, Sweep, Drop, Prune
    <3>2. Stop({disk.process[k] : k \in idle})
      BY <2>2, <3>1 DEF Cleanup, Stop
    <3>3. Halts /\ \A k \in idle : ~StillRuns(disk.process[k])
      BY <1>1, <1>2, <3>1, <3>2, StopHalts
    <3>4. Keeps(f, Drop(f, idle))
      BY <1>3, <1>5, <3>1, <3>3, DropKeeps
    <3> QED
      BY <1>2, <1>5, <2>2, <3>3, <3>4, SweepKeeps, KeepsTrans DEF Cleanup
  <2>3. ASSUME NEW r \in Roots, Repair(r) PROVE Halts /\ Keeps(disk, disk')
    <3> DEFINE K == KeysOf(r) \cap Recorded(disk)
               sick == {k \in K : ~Healthy(disk, k)}
    <3>1. CASE UNCHANGED service /\ \E seen \in SUBSET K : disk' = Prune(disk, seen)
      <4>1. Halts
        BY <1>1, <3>1 DEF Halts
      <4> QED
        BY <1>2, <1>5, <3>1, <4>1, PruneKeeps
    <3>2. CASE disk' = Drop(Prune(disk, K), sick) /\ Stop({disk.process[k] : k \in sick})
      <4>1. sick \in SUBSET Keys /\ \A k \in sick : disk.process[k] # None
        BY DEF KeysOf, Recorded
      <4>2. Halts /\ \A k \in sick : ~StillRuns(disk.process[k])
        BY <1>1, <1>2, <3>2, <4>1, StopHalts
      <4>3. Keeps(Prune(disk, K), Drop(Prune(disk, K), sick))
        BY <1>4, <1>5, <4>2, DropKeeps
      <4> QED
        BY <1>2, <1>5, <3>2, <4>2, <4>3, PruneKeeps, KeepsTrans
    <3> QED
      BY <2>3, <3>1, <3>2 DEF Repair
  <2> QED
    BY <2>1, <2>2, <2>3 DEF Command
<1> QED
  BY <1>1, <1>5, <1>6, OutsideSound DEF OutsideStep, clientVars

LEMMA SoundAround ==
  ASSUME BrokerInv, ServiceInv,
         \/ \E c \in Clients : OrphanProxyEnds(c)
         \/ \E k \in Keys : IdleAges(k)
         \/ \E n \in Processes : Serve(n)
         \/ UNCHANGED vars
  PROVE  ServiceInv'
<1>1. /\ UNCHANGED <<pc, sectionVars, serves, port, orphans>>
      /\ \A d \in Clients : links'[d] \subseteq links[d]
  BY DEF OrphanProxyEnds, IdleAges, Serve, Binds, Dies, Stalls, Resumes, clientVars,
     processVars, vars, BrokerInv, TypeOK
<1>2. \A n \in Processes : service'[n] = service[n]
        \/ (service[n] \notin {"unborn", "dead"} /\ service'[n] # "unborn")
  <2>1. ASSUME NEW m \in Processes, Serve(m)
        PROVE  /\ \A n \in Processes \ {m} : service'[n] = service[n]
               /\ service[m] \notin {"unborn", "dead"} /\ service'[m] # "unborn"
    BY <2>1 DEF Serve, Binds, Dies, Stalls, Resumes, Running, BrokerInv, TypeOK
  <2>2. CASE UNCHANGED service
    BY <2>2
  <2> QED
    BY <2>1, <2>2 DEF OrphanProxyEnds, IdleAges, processVars, vars
<1>3. Calm /\ NoBirth
  <2>1. \A n \in Processes : service[n] # "unborn" =>
          service'[n] # "unborn" /\ serves'[n] = serves[n] /\ (StillRuns(n) => Running(n))
    BY <1>1, <1>2 DEF StillRuns, Running, BrokerInv, TypeOK
  <2> QED
    BY <1>1, <1>2, <2>1 DEF Calm, NoBirth, Living, Alive
<1>4. Keeps(disk, disk')
  <2>1. CASE disk' = disk
    BY <1>3, <2>1, KeepsSelf DEF ServiceInv, Sound
  <2>2. ASSUME NEW k \in Keys, IdleAges(k) PROVE Keeps(disk, disk')
    <3>1. /\ disk'.process = disk.process /\ disk'.leases = disk.leases
          /\ \A j \in Keys : disk'.idle[j] # "busy" => disk.idle[j] # "busy"
      BY <2>2 DEF IdleAges, BrokerInv, TypeOK, Files
    <3>2. Clocked(disk)
      BY DEF ServiceInv, Sound
    <3> QED
      BY <1>3, <3>1, <3>2 DEF Keeps, Clocked, Calm
  <2> QED
    BY <2>1, <2>2 DEF OrphanProxyEnds, Serve, Binds, Dies, Stalls, Resumes, vars
<1> QED
  BY <1>1, <1>3, <1>4, OutsideSound DEF OutsideStep

LEMMA ServiceStep == BrokerInv /\ ServiceInv /\ [Next]_vars => ServiceInv'
<1> SUFFICES ASSUME BrokerInv, ServiceInv, [Next]_vars PROVE ServiceInv'
  OBVIOUS
<1>1. ASSUME NEW c \in Clients, Connect(c) PROVE ServiceInv'
  BY <1>1, SoundEnter, SoundStart, SoundOpen, SoundSpawn, SoundIdentify, SoundAwait,
     SoundSecondary, SoundCommit, SoundOutside
  DEF Connect
<1>2. ASSUME NEW c \in Clients, Disturb(c) PROVE ServiceInv'
  BY <1>2, SoundSignal, SoundAround DEF Disturb
<1> QED
  BY <1>1, <1>2, SoundCommand, SoundAround DEF Next, Terminated

THEOREM ServiceInvariance == Spec => []ServiceInv
<1>1. Init => ServiceInv
  BY DEF Init, ServiceInv, Born, Sound, Matched, Connected, Clocked, Empty, RecordInv,
     NoUnrecordedService, PortsAreExclusive, Running
<1> QED
  BY <1>1, BrokerInvariance, ServiceStep, PTL DEF Spec

\* A connect whose service runs is in the file with its record and its lease, for
\* any number of connects and services, whatever is killed, interrupted, swept,
\* cleaned up or repaired around it.
THEOREM TheConnectedAreLeased == Spec => []ConnectedIsLeased
<1>1. ServiceInv => ConnectedIsLeased
  BY DEF ServiceInv, Sound, Connected, ConnectedIsLeased
<1> QED
  BY <1>1, ServiceInvariance, PTL

\* No service looks idle while somebody has a lease in it.
THEOREM TheLeasedAreBusy == Spec => []IdleMeansUnleased
<1>1. ServiceInv => IdleMeansUnleased
  BY DEF ServiceInv, Sound, Clocked, IdleMeansUnleased, LiveLeases, Living
<1> QED
  BY <1>1, ServiceInvariance, PTL

\* A service under a running connect has a live lease, so that no command stops it.
LEMMA CommandsSpare ==
  ASSUME BrokerInv, ServiceInv, Command, NEW c \in Clients, pc[c] = "proxy",
         NEW n \in links[c], Running(n)
  PROVE  service'[n] = service[n]
<1> DEFINE j == serves[n]
<1>1. n \in Processes /\ n # None /\ c # None
  BY BrokerAssumption DEF BrokerInv, TypeOK
<1>2. j \in Keys /\ disk.process[j] = n /\ disk.leases[j][c] # None
  BY <1>1 DEF ServiceInv, Born, Sound, Connected
<1>3. \A k \in Keys : disk.process[k] = n => k = j
  BY <1>1 DEF ServiceInv, Sound, Matched
<1>4. disk \in Files
  BY DEF BrokerInv, TypeOK
<1>5. CASE Status \/ Leases
  BY <1>5 DEF Status, Leases, processVars
<1>6. CASE Cleanup
  <2> DEFINE f == Sweep(disk)
             idle == {k \in Recorded(f) : Reclaimable(f, k)}
  <2>1. Alive(c) /\ Owned(disk, j)
    BY <1>1, <1>2 DEF Alive, Owned, Recorded
  <2>2. f.leases[j][c] = disk.leases[j][c]
    <3>1. Prune(disk, Keys).leases[j][c] = disk.leases[j][c]
      BY <1>2, <2>1 DEF Prune
    <3>2. \A g, M : j \notin M => Drop(g, M).leases[j][c] = g.leases[j][c]
      BY <1>2 DEF Drop
    <3>3. j \notin {k \in Keys : ~Owned(disk, k)}
      BY <2>1
    <3> QED
      BY <3>1, <3>2, <3>3 DEF Sweep
  <2>3. c \in LiveLeases(f, j)
    BY <1>2, <2>1, <2>2 DEF LiveLeases
  <2>4. \A k \in idle : f.process[k] # n
    <3>1. \A k \in idle : k \in Keys /\ k # j /\ f.process[k] = disk.process[k]
      BY <2>3 DEF Reclaimable, Recorded, Sweep, Drop, Prune
    <3> QED
      BY <1>3, <3>1
  <2>5. Stop({f.process[k] : k \in idle})
    BY <1>6 DEF Cleanup
  <2> HIDE DEF f, idle
  <2> QED
    BY <1>1, <2>4, <2>5 DEF Stop
<1>7. ASSUME NEW r \in Roots, Repair(r) PROVE service'[n] = service[n]
  <2> DEFINE K == KeysOf(r) \cap Recorded(disk)
             sick == {k \in K : ~Healthy(disk, k)}
  <2>1. CASE UNCHANGED service
    BY <2>1
  <2>2. CASE ~Protected(disk, K) /\ Stop({disk.process[k] : k \in sick})
    <3>1. c \in LiveLeases(disk, j)
      BY <1>2 DEF LiveLeases, Alive
    <3>2. j \notin K
      BY <2>2, <3>1 DEF Protected
    <3>3. \A k \in sick : disk.process[k] # n
      BY <1>3, <3>2 DEF KeysOf
    <3> QED
      BY <1>1, <2>2, <3>3 DEF Stop
  <2> QED
    BY <1>7, <2>1, <2>2 DEF Repair
<1> QED
  BY <1>5, <1>6, <1>7 DEF Command

\* Neither cleanup nor repair-root stops a service under a running connect.
THEOREM CommandsLeaveSessionsAlone == Spec => CommandsSpareTheConnected
<1>1. BrokerInv /\ ServiceInv /\ [Next]_vars =>
        [Command => \A c \in Clients : pc[c] = "proxy" =>
           \A n \in links[c] : Running(n) => service'[n] = service[n]]_vars
  BY CommandsSpare
<1> QED
  BY <1>1, BrokerInvariance, ServiceInvariance, PTL DEF Spec, CommandsSpareTheConnected

\* "It never leaves an unrecorded service", for any number of connects, services
\* and signals: what runs is on file, or was started by the connect in the section,
\* or by one that died there before it wrote its copy.
THEOREM NothingRunsUnrecorded == Spec => []NoUnrecordedService
<1>1. ServiceInv => NoUnrecordedService
  BY DEF ServiceInv, RecordInv
<1> QED
  BY <1>1, ServiceInvariance, PTL

\* "A second logical owner is rejected", as far as the code keeps the promise: while
\* the services of two sessions on one root run, their leases name one owner.  What
\* run broker_owner shows needs a service that has ended under its session.
THEOREM SecondOwnersAreRejected ==
  Spec => [](\A c, d \in Clients : pc[c] = "proxy" /\ pc[d] = "proxy" =>
             \A n \in links[c], m \in links[d] :
               /\ Running(n) /\ Running(m)
               /\ RootOf[serves[n]] = RootOf[serves[m]]
               => disk.leases[serves[n]][c] = disk.leases[serves[m]][d])
<1> DEFINE Rejected ==
      \A c, d \in Clients : pc[c] = "proxy" /\ pc[d] = "proxy" =>
        \A n \in links[c], m \in links[d] :
          /\ Running(n) /\ Running(m)
          /\ RootOf[serves[n]] = RootOf[serves[m]]
          => disk.leases[serves[n]][c] = disk.leases[serves[m]][d]
<1>1. BrokerInv /\ ServiceInv => Rejected
  <2> SUFFICES ASSUME BrokerInv, ServiceInv,
                      NEW c \in Clients, NEW d \in Clients, pc[c] = "proxy", pc[d] = "proxy",
                      NEW n \in links[c], NEW m \in links[d], Running(n), Running(m),
                      RootOf[serves[n]] = RootOf[serves[m]]
               PROVE  disk.leases[serves[n]][c] = disk.leases[serves[m]][d]
    OBVIOUS
  <2>1. c \in Living /\ d \in Living
    BY DEF Living, Alive
  <2>2. disk.leases[serves[n]][c] # None /\ disk.leases[serves[m]][d] # None
    BY DEF ServiceInv, Sound, Connected
  <2>3. n \in Processes /\ m \in Processes
    BY DEF BrokerInv, TypeOK
  <2>4. serves[n] \in Keys /\ serves[m] \in Keys
    BY <2>3 DEF ServiceInv, Born
  <2> QED
    BY <2>1, <2>2, <2>4 DEF BrokerInv, Good, Agreed
<1> QED
  BY <1>1, BrokerInvariance, ServiceInvariance, PTL

\* Two running services were told the same port only when the broker of one of them
\* died before it was on file, whatever else was killed, interrupted or stopped.
THEOREM NoPortIsSharedByTwo == Spec => []PortsAreExclusive
<1>1. ServiceInv => PortsAreExclusive
  BY DEF ServiceInv, RecordInv
<1> QED
  BY <1>1, ServiceInvariance, PTL

-----------------------------------------------------------------------------
(* The hybrid gateway, which a connect with two backends runs.             *)

\* The lines an accepted inspection of a native file is served for are the lines
\* it asks for, at both ends and where a bound is left out: a bound of 1 does not
\* turn into the -1 that means the end of the file.
THEOREM LinesAreKept ==
  ASSUME NEW args \in Arguments, NEW f \in Findings,
         ~Unsupported("jet_brains_run_inspections", args)
  PROVE  AskedLine(args, f) <=> ServedLine(MapInspectionArguments(args), f)
<1> DEFINE start == args.start_line
           end == args.end_line
<1>1. ValidLine(start) /\ ValidLine(end)
  BY DEF Unsupported
<1>2. /\ start \in Lines /\ end \in Lines
      /\ f.line \in Nat \ {0}
  BY DEF Arguments, Findings
<1>3. f.line - 1 >= MapLine(start, 0) <=> (start.kind = "integer" => f.line >= start.n)
  BY <1>1, <1>2 DEF ValidLine, MapLine, Lines
<1>4. /\ MapLine(end, -1) = -1 <=> end.kind = "absent"
      /\ end.kind = "integer" => MapLine(end, -1) = end.n - 1
  BY <1>1, <1>2 DEF ValidLine, MapLine, Lines
<1>5. (MapLine(end, -1) # -1 => f.line - 1 <= MapLine(end, -1))
        <=> (end.kind = "integer" => f.line <= end.n)
  BY <1>1, <1>2, <1>4 DEF ValidLine, Lines
<1>6. /\ MapInspectionArguments(args).start_line = MapLine(start, 0)
      /\ MapInspectionArguments(args).end_line = MapLine(end, -1)
  BY DEF MapInspectionArguments
<1> QED
  BY <1>3, <1>5, <1>6 DEF AskedLine, ServedLine

\* No finding an accepted inspection asks for is withheld by the severity clangd
\* is given.  (The converse does not hold: WEAK_WARNING and INFO become one.)
THEOREM NothingIsWithheld ==
  ASSUME NEW args \in Arguments, NEW f \in Findings,
         ~Unsupported("jet_brains_run_inspections", args),
         AskedSeverity(args, f)
  PROVE  ServedSeverity(MapInspectionArguments(args), f)
<1>1. /\ f.severity \in Severities
      /\ args.min_severity \in Severities \cup {"absent"}
  BY DEF Unsupported, Findings, Arguments
<1>2. MapInspectionArguments(args).min_severity = MapSeverity(args.min_severity)
  BY DEF MapInspectionArguments
<1>3. DIAGNOSTIC_SEVERITIES[f.severity] <= MapSeverity(args.min_severity)
  <2>1. CASE args.min_severity = "absent"
    BY <1>1, <2>1 DEF MapSeverity, DIAGNOSTIC_SEVERITIES, Severities
  <2>2. CASE args.min_severity \in Severities
    BY <1>1, <2>2 DEF MapSeverity, DIAGNOSTIC_SEVERITIES, Severities, AskedSeverity, Rank
  <2> QED
    BY <1>1, <2>1, <2>2
<1> QED
  BY <1>2, <1>3 DEF ServedSeverity

\* Whether clangd is there or not, the gateway never hands a native read to
\* JetBrains, and it never hands clangd a file that is not a native regular file
\* under the root.
THEOREM EachBackendItsFiles ==
  ASSUME NEW tool, NEW args \in Arguments, NEW clangd \in BOOLEAN
  PROVE  LET reply == CallTool(tool, args, clangd) IN
         /\ reply.backend = "primary" => ~Routed(tool, args) /\ reply.arguments = args
         /\ reply.backend = "secondary" => Target[args.relative_path] \in Regular \cap Native
<1>1. CASE ~Routed(tool, args)
  <2>1. CallTool(tool, args, clangd) = [backend |-> "primary", tool |-> tool, arguments |-> args]
    BY <1>1 DEF CallTool, RouteToolCall
  <2> QED
    BY <1>1, <2>1
<1>2. CASE Routed(tool, args)
  <2>1. RouteToolCall(tool, args).backend \in {"none", "secondary"}
    BY <1>2 DEF RouteToolCall
  <2>2. CallTool(tool, args, clangd).backend \in {"none", "secondary"}
    BY <2>1 DEF CallTool
  <2> QED
    BY <1>2, <2>2 DEF Routed, is_native_relative_file
<1> QED
  BY <1>1, <1>2
=============================================================================
