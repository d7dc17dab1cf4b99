------------------------------- MODULE Broker -------------------------------
(***************************************************************************)
(* serena-worktree-broker: every Codex task starts a `connect' process,    *)
(* which leases the Serena service of its worktree root (starting one if   *)
(* there is none) and then runs a stdio proxy to the port of that service. *)
(*                                                                         *)
(* services.json is read and written under one flock (_locked_state).  The *)
(* long section of `connect' works on a copy in memory, which reaches the  *)
(* file only when the section ends; what it does to processes is real at   *)
(* once.  So the copy is `draft', and a broker killed inside the section   *)
(* loses it.  The short sections (status, leases, cleanup, repair-root and *)
(* the release of a lease) are one step each: killed half-way they leave   *)
(* the file alone and at most a stopped service, which is `Dies'.          *)
(***************************************************************************)
EXTENDS Naturals, FiniteSets

CONSTANTS
  Clients,       \* connect processes
  Keys,          \* service keys: (root, backend, context, modes)
  Roots,         \* canonical worktree roots
  RootOf,        \* the root of each key
  NeedsWindow,   \* the keys of the jetbrains backend
  Primary,       \* the key each client asks for
  Secondary,     \* its LSP companion in a hybrid session, or None
  Owners,        \* logical owner ids
  OwnerOf,       \* the id each client resolves to
  ManualOf,      \* manual-pid-<pid>: what an older broker recorded for a client
  HostOf,        \* the codex-host id of its parent process, or None
  Ports,         \* PORT_FIRST..PORT_LAST
  Processes,     \* bound: the service processes that may be spawned
  KilledAt,      \* stages at which a broker may get SIGKILL or SIGTERM
  InterruptedAt, \* stages at which a broker may get SIGINT
  None

ASSUME BrokerAssumption ==
  /\ RootOf \in [Keys -> Roots]
  /\ NeedsWindow \subseteq Keys
  /\ Primary \in [Clients -> Keys]
  /\ Secondary \in [Clients -> Keys \cup {None}]
  /\ \A c \in Clients : Secondary[c] # None =>
       Secondary[c] # Primary[c] /\ RootOf[Secondary[c]] = RootOf[Primary[c]]
  /\ OwnerOf \in [Clients -> Owners]
  /\ ManualOf \in [Clients -> Owners]
  /\ HostOf \in [Clients -> Owners \cup {None}]
  /\ Ports \subseteq Nat
  /\ Processes \subseteq Nat
  /\ None \notin Owners \cup Clients \cup Keys \cup Processes

VARIABLES
  pc,       \* where each connect is
  links,    \* the services whose ports its proxy was given
  lock,     \* the connect inside the long section, or None
  draft,    \* its copy of the state
  target,   \* the key it is starting, or None
  child,    \* the process it has spawned and not recorded or not awaited yet
  spawned,  \* every process it has spawned since it took the lock
  disk,     \* services.json
  service,  \* each service process
  serves,   \* the key a process was spawned for
  port,     \* and the port it was told to listen on
  orphans   \* the processes whose broker died before it had recorded them

clientVars == <<pc, links>>
sectionVars == <<lock, draft, target, child, spawned>>
processVars == <<service, serves, port, orphans>>
vars == <<clientVars, sectionVars, disk, processVars>>

Locked == {"start", "open", "spawn", "identify", "await", "leased"}
Stages == Locked \cup {"prepare", "wait", "proxy", "release", "done"}

\* A state: for each key the process of its record (None: no record), the owner
\* id of each lease in it, and how long idle_since has been set.
Files == [process : [Keys -> Processes \cup {None}],
          leases : [Keys -> [Clients -> Owners \cup {None}]],
          idle : [Keys -> {"busy", "fresh", "old"}]]

Empty == [process |-> [k \in Keys |-> None],
          leases |-> [k \in Keys |-> [c \in Clients |-> None]],
          idle |-> [k \in Keys |-> "busy"]]

TypeOK ==
  /\ pc \in [Clients -> Stages]
  /\ links \in [Clients -> SUBSET Processes]
  /\ lock \in Clients \cup {None}
  /\ draft \in Files
  /\ target \in Keys \cup {None}
  /\ child \in Processes \cup {None}
  /\ spawned \subseteq Processes
  /\ disk \in Files
  /\ service \in [Processes -> {"unborn", "starting", "listening", "hung", "dead"}]
  /\ serves \in [Processes -> Keys \cup {None}]
  /\ port \in [Processes -> Ports \cup {None}]
  /\ orphans \subseteq Processes

Init ==
  /\ pc = [c \in Clients |-> "prepare"]
  /\ links = [c \in Clients |-> {}]
  /\ lock = None
  /\ draft = Empty
  /\ target = None
  /\ child = None
  /\ spawned = {}
  /\ disk = Empty
  /\ service = [n \in Processes |-> "unborn"]
  /\ serves = [n \in Processes |-> None]
  /\ port = [n \in Processes |-> None]
  /\ orphans = {}

-----------------------------------------------------------------------------
(* Processes and records.                                                  *)

Alive(c) == pc[c] # "done"
Running(n) == service[n] \in {"starting", "listening", "hung"}
Bound(p) == \E n \in Processes : port[n] = p /\ service[n] \in {"listening", "hung"}

\* _tcp_ready: somebody accepts connections on the port of n.
Answers(n) == \E m \in Processes : service[m] = "listening" /\ port[m] = port[n]

\* _process_is_owned, and the services of which it and _tcp_ready hold.
Recorded(f) == {k \in Keys : f.process[k] # None}
Owned(f, k) == k \in Recorded(f) /\ Running(f.process[k])
Healthy(f, k) == Owned(f, k) /\ Answers(f.process[k])
KeysOf(r) == {k \in Keys : RootOf[k] = r}

\* _prune_dead_leases on the records of K: the idle clock starts when no live
\* lease is left.
LiveLeases(f, k) == {c \in Clients : Alive(c) /\ f.leases[k][c] # None}
Prune(f, K) ==
  [process |-> f.process,
   leases |-> [k \in Keys |-> [c \in Clients |->
                 IF k \in K /\ ~Alive(c) THEN None ELSE f.leases[k][c]]],
   idle |-> [k \in Keys |->
               IF /\ k \in K \cap Recorded(f)
                  /\ LiveLeases(f, k) = {}
                  /\ f.idle[k] = "busy"
               THEN "fresh" ELSE f.idle[k]]]

\* services.pop of the keys K.
Drop(f, K) ==
  [process |-> [k \in Keys |-> IF k \in K THEN None ELSE f.process[k]],
   leases |-> [k \in Keys |-> [c \in Clients |->
                 IF k \in K THEN None ELSE f.leases[k][c]]],
   idle |-> [k \in Keys |-> IF k \in K THEN "busy" ELSE f.idle[k]]]

\* _cleanup_state(stop_idle=False): prune, and forget what no longer runs.
\* Mutation: what does not answer is forgotten too.
BugSweep(f) == Drop(Prune(f, Keys), {k \in Keys : ~Healthy(f, k)})
Sweep(f) == Drop(Prune(f, Keys), {k \in Keys : ~Owned(f, k)})

\* services[key] = record of the new process n; a lease in it.
Record(f, k, n) ==
  [process |-> [f.process EXCEPT ![k] = n],
   leases |-> [f.leases EXCEPT ![k] = [c \in Clients |-> None]],
   idle |-> [f.idle EXCEPT ![k] = "busy"]]
\* Mutation: the idle clock of a reused service is not reset.
BugLease(f, k, c) ==
  [process |-> f.process,
   leases |-> [f.leases EXCEPT ![k][c] = OwnerOf[c]],
   idle |-> f.idle]
Lease(f, k, c) ==
  [process |-> f.process,
   leases |-> [f.leases EXCEPT ![k][c] = OwnerOf[c]],
   idle |-> [f.idle EXCEPT ![k] = "busy"]]

\* _root_owners: the owner ids of the live leases on one root.
RootOwners(f, r) ==
  {o \in Owners : \E k \in KeysOf(r) : \E c \in LiveLeases(f, k) : f.leases[k][c] = o}

\* _migrate_legacy_host_leases: a client identified by its Codex host adopts the
\* manual-pid leases of its root when every foreign lease there is one and its
\* process has the same host.
Adoptable(f, k, d, h) == f.leases[k][d] = ManualOf[d] /\ HostOf[d] = h
Foreign(f, k, h) == {d \in Clients : f.leases[k][d] \notin {None, h}}
Adopts(f, c) ==
  /\ HostOf[c] = OwnerOf[c]
  /\ \A k \in KeysOf(RootOf[Primary[c]]) : \A d \in Foreign(f, k, OwnerOf[c]) :
       Adoptable(f, k, d, OwnerOf[c])
Migrate(f, c) ==
  IF Adopts(f, c)
  THEN [process |-> f.process,
        leases |-> [k \in Keys |-> [d \in Clients |->
          IF RootOf[k] = RootOf[Primary[c]] /\ f.leases[k][d] # None
          THEN OwnerOf[c] ELSE f.leases[k][d]]],
        idle |-> f.idle]
  ELSE f

-----------------------------------------------------------------------------
(* connect.                                                                *)

Goto(c, from, to) ==
  /\ pc[c] = from
  /\ pc' = [pc EXCEPT ![c] = to]

\* The section ends: the copy becomes the file and the flock is released.
Leave(f) ==
  /\ disk' = f
  /\ lock' = None
  /\ draft' = Empty
  /\ target' = None
  /\ child' = None
  /\ spawned' = {}

\* The doctor's `status' needs the flock within its timeout; it sweeps.
Prepare(c) ==
  /\ \/ lock = None /\ Goto(c, "prepare", "wait") /\ disk' = Sweep(disk)
     \/ Goto(c, "prepare", "done") /\ UNCHANGED disk
  /\ UNCHANGED <<links, sectionVars, processVars>>

\* The flock is taken: sweep, migrate, and _assert_root_owner.
\* Mutation: only the record of the requested key is looked at.
BugMayEnter(f, c) == \A d \in LiveLeases(f, Primary[c]) : f.leases[Primary[c]][d] = OwnerOf[c]
MayEnter(f, c) == RootOwners(f, RootOf[Primary[c]]) \subseteq {OwnerOf[c]}

Enter(c) ==
  LET f == Migrate(Sweep(disk), c) IN
  /\ lock = None
  /\ \/ /\ MayEnter(f, c)
        /\ Goto(c, "wait", "start")
        /\ lock' = c
        /\ draft' = f
        /\ target' = Primary[c]
        /\ UNCHANGED <<disk, child, spawned>>
     \/ /\ ~MayEnter(f, c)
        /\ Goto(c, "wait", "done")
        /\ Leave(f)
  /\ UNCHANGED <<links, processVars>>

\* An exception in _start_service: the primary's ends connect, the secondary's
\* is tolerated.
Fail(c, from, f) ==
  \/ /\ target = Primary[c]
     /\ Goto(c, from, "done")
     /\ Leave(f)
  \/ /\ target # Primary[c]
     /\ Goto(c, from, "leased")
     /\ draft' = f
     /\ child' = None
     /\ UNCHANGED <<lock, target, spawned, disk>>

\* A lease in the record of the target.
TakeLease(c, from, f) ==
  /\ Goto(c, from, "leased")
  /\ draft' = Lease(f, target, c)
  /\ child' = None
  /\ UNCHANGED <<lock, target, spawned, disk>>

\* _start_service: a healthy service is reused; an owned one that does not
\* answer is stopped, and any other record dropped with the leases in it.
Start(c) ==
  LET f == Prune(draft, {target}) IN
  \/ /\ pc[c] = "start"
     /\ Healthy(f, target)
     /\ TakeLease(c, "start", f)
     /\ UNCHANGED <<links, processVars>>
  \/ /\ Goto(c, "start", IF target \in NeedsWindow THEN "open" ELSE "spawn")
     /\ ~Healthy(f, target)
     /\ draft' = Drop(f, {target})
     /\ service' = IF Owned(f, target)
                   THEN [service EXCEPT ![f.process[target]] = "dead"] ELSE service
     /\ UNCHANGED <<links, lock, target, child, spawned, disk, serves, port, orphans>>

\* _open_intellij runs the opener, with the flock held.
OpenIntellij(c) ==
  /\ \/ Goto(c, "open", "spawn") /\ UNCHANGED <<sectionVars, disk>>
     \/ Fail(c, "open", draft)
  /\ UNCHANGED <<links, processVars>>

\* _free_port: the first port that no record names and that can be bound.
\* Mutation: the ports of the records are not excluded.
BugFreePorts == {p \in Ports : ~Bound(p)}
FreePorts ==
  {p \in Ports : ~Bound(p) /\ \A k \in Recorded(draft) : port[draft.process[k]] # p}

Spawn(c) ==
  /\ \/ /\ Goto(c, "spawn", "identify")
        /\ \E n \in Processes, p \in FreePorts :
             /\ service[n] = "unborn"
             /\ \A m \in Processes : m < n => service[m] # "unborn"
             /\ \A q \in FreePorts : p <= q
             /\ service' = [service EXCEPT ![n] = "starting"]
             /\ serves' = [serves EXCEPT ![n] = target]
             /\ port' = [port EXCEPT ![n] = p]
             /\ child' = n
             /\ spawned' = spawned \cup {n}
        /\ UNCHANGED <<lock, draft, target, disk, orphans>>
     \/ Fail(c, "spawn", draft) /\ UNCHANGED processVars
  /\ UNCHANGED links

\* The command line of the child is verified, or the child is terminated.
\* Mutation: the child is left alone.
BugIdentify(c) ==
  /\ \/ /\ Goto(c, "identify", "await")
        /\ Running(child)
        /\ draft' = Record(draft, target, child)
        /\ UNCHANGED <<lock, target, child, spawned, disk, service>>
     \/ Fail(c, "identify", draft) /\ UNCHANGED service
  /\ UNCHANGED <<links, serves, port, orphans>>

Identify(c) ==
  /\ \/ /\ Goto(c, "identify", "await")
        /\ Running(child)
        /\ draft' = Record(draft, target, child)
        /\ UNCHANGED <<lock, target, child, spawned, disk, service>>
     \/ /\ Fail(c, "identify", draft)
        /\ service' = [service EXCEPT ![child] = "dead"]
  /\ UNCHANGED <<links, serves, port, orphans>>

\* Until the port answers, the child exits, or START_TIMEOUT_SECONDS pass.
Await(c) ==
  /\ \/ /\ TakeLease(c, "await", draft)
        /\ Running(child)
        /\ Answers(child)
        /\ UNCHANGED service
     \/ /\ Fail(c, "await", Drop(draft, {target}))
        /\ service' = [service EXCEPT ![child] = "dead"]
  /\ UNCHANGED <<links, serves, port, orphans>>

\* The LSP service of a hybrid session.
StartSecondary(c) ==
  /\ target = Primary[c]
  /\ Secondary[c] # None
  /\ Goto(c, "leased", "start")
  /\ target' = Secondary[c]
  /\ UNCHANGED <<links, lock, draft, child, spawned, disk, processVars>>

\* The section ends well, and the proxy is given the ports of the leases.
Commit(c) ==
  /\ Goto(c, "leased", "proxy")
  /\ Leave(draft)
  /\ links' = [links EXCEPT ![c] =
                 {draft.process[k] : k \in {k \in Keys : draft.leases[k][c] # None}}]
  /\ UNCHANGED processVars

ProxyExits(c) ==
  /\ Goto(c, "proxy", "release")
  /\ UNCHANGED <<links, sectionVars, disk, processVars>>

\* The lease goes from the records that are there by now under its keys.
Released(f, c) ==
  [process |-> f.process,
   leases |-> [k \in Keys |-> [f.leases[k] EXCEPT ![c] = None]],
   idle |-> f.idle]

Release(c) ==
  /\ lock = None
  /\ Goto(c, "release", "done")
  /\ links' = [links EXCEPT ![c] = {}]
  /\ disk' = Prune(Released(disk, c), {serves[n] : n \in links[c]})
  /\ UNCHANGED <<sectionVars, processVars>>

-----------------------------------------------------------------------------
(* Signals to a broker.                                                    *)

\* KeyboardInterrupt unwinds: the section still writes its copy, in which a child
\* that was not identified yet is missing; the proxy is stopped and its lease
\* released.
Interrupt(c) ==
  /\ Alive(c)
  /\ pc[c] \in InterruptedAt
  /\ pc' = [pc EXCEPT ![c] = IF @ = "proxy" THEN "release" ELSE "done"]
  /\ links' = IF pc[c] = "release" THEN [links EXCEPT ![c] = {}] ELSE links
  /\ IF lock = c THEN Leave(draft) ELSE UNCHANGED <<sectionVars, disk>>
  /\ orphans' = IF pc[c] = "identify" THEN orphans \cup {child} ELSE orphans
  /\ UNCHANGED <<service, serves, port>>

\* SIGKILL or SIGTERM: the kernel releases the flock, nothing is written, the
\* children live on, the proxy and the services it had not put on file among them.
\* Mutation: the lock is a file that only its owner removes.
BugKill(c) ==
  /\ Alive(c)
  /\ pc[c] \in KilledAt
  /\ pc' = [pc EXCEPT ![c] = "done"]
  /\ links' = IF pc[c] = "release" THEN [links EXCEPT ![c] = {}] ELSE links
  /\ UNCHANGED <<sectionVars, disk, processVars>>

Kill(c) ==
  /\ Alive(c)
  /\ pc[c] \in KilledAt
  /\ pc' = [pc EXCEPT ![c] = "done"]
  /\ links' = IF pc[c] = "release" THEN [links EXCEPT ![c] = {}] ELSE links
  /\ IF lock = c THEN Leave(disk) ELSE UNCHANGED <<sectionVars, disk>>
  /\ orphans' = IF lock = c THEN orphans \cup spawned ELSE orphans
  /\ UNCHANGED <<service, serves, port>>

\* The proxy a killed broker left behind ends with its session.
OrphanProxyEnds(c) ==
  /\ ~Alive(c)
  /\ links[c] # {}
  /\ links' = [links EXCEPT ![c] = {}]
  /\ UNCHANGED <<pc, sectionVars, disk, processVars>>

-----------------------------------------------------------------------------
(* The other commands, and time.                                           *)

Status ==
  /\ lock = None
  /\ disk' = Sweep(disk)
  /\ UNCHANGED <<clientVars, sectionVars, processVars>>

Leases ==
  /\ lock = None
  /\ disk' = Prune(disk, Keys)
  /\ UNCHANGED <<clientVars, sectionVars, processVars>>

\* The services a command stops are down when it ends.
Stop(S) == service' = [n \in Processes |-> IF n \in S THEN "dead" ELSE service[n]]

\* cleanup: what has been idle for idle_seconds is stopped and forgotten.
Reclaimable(f, k) == f.idle[k] = "old" /\ LiveLeases(f, k) = {}

Cleanup ==
  LET f == Sweep(disk)
      idle == {k \in Recorded(f) : Reclaimable(f, k)}
  IN
  /\ lock = None
  /\ disk' = Drop(f, idle)
  /\ Stop({f.process[k] : k \in idle})
  /\ UNCHANGED <<clientVars, sectionVars, serves, port, orphans>>

\* repair-root: nothing to do, ambiguous (more than the jetbrains and LSP pair),
\* or protected by a live lease (the records before it are pruned by then);
\* otherwise what is not healthy is stopped and forgotten.
\* Mutation: a live lease does not protect.
BugProtected(f, K) == FALSE
Protected(f, K) == \E k \in K : LiveLeases(f, k) # {}
Ambiguous(K) ==
  Cardinality(K) > 1 /\ (Cardinality(K) # 2 \/ Cardinality(K \cap NeedsWindow) # 1)

Repair(r) ==
  LET K == KeysOf(r) \cap Recorded(disk)
      sick == {k \in K : ~Healthy(disk, k)}
  IN
  /\ lock = None
  /\ K # {}
  /\ ~Ambiguous(K)
  /\ \/ /\ Protected(disk, K)
        /\ \E seen \in SUBSET K : disk' = Prune(disk, seen)
        /\ UNCHANGED service
     \/ /\ ~Protected(disk, K)
        /\ disk' = Drop(Prune(disk, K), sick)
        /\ Stop({disk.process[k] : k \in sick})
  /\ UNCHANGED <<clientVars, sectionVars, serves, port, orphans>>

\* idle_seconds pass.
IdleAges(k) ==
  /\ lock = None
  /\ disk.idle[k] = "fresh"
  /\ disk' = [process |-> disk.process,
               leases |-> disk.leases,
               idle |-> [disk.idle EXCEPT ![k] = "old"]]
  /\ UNCHANGED <<clientVars, sectionVars, processVars>>

-----------------------------------------------------------------------------
(* Serena services.                                                        *)

\* It listens on its port, or exits if somebody else does.
Binds(n) ==
  /\ service[n] = "starting"
  /\ service' = [service EXCEPT ![n] = IF Bound(port[n]) THEN "dead" ELSE "listening"]
  /\ UNCHANGED <<clientVars, sectionVars, disk, serves, port, orphans>>

Dies(n) ==
  /\ Running(n)
  /\ service' = [service EXCEPT ![n] = "dead"]
  /\ UNCHANGED <<clientVars, sectionVars, disk, serves, port, orphans>>

\* It stops or resumes accepting connections.
Stalls(n) ==
  /\ service[n] = "listening"
  /\ service' = [service EXCEPT ![n] = "hung"]
  /\ UNCHANGED <<clientVars, sectionVars, disk, serves, port, orphans>>

Resumes(n) ==
  /\ service[n] = "hung"
  /\ service' = [service EXCEPT ![n] = "listening"]
  /\ UNCHANGED <<clientVars, sectionVars, disk, serves, port, orphans>>

-----------------------------------------------------------------------------
Connect(c) ==
  \/ Prepare(c) \/ Enter(c) \/ Start(c) \/ OpenIntellij(c) \/ Spawn(c)
  \/ Identify(c) \/ Await(c) \/ StartSecondary(c) \/ Commit(c)
  \/ ProxyExits(c) \/ Release(c)

Disturb(c) == Interrupt(c) \/ Kill(c) \/ OrphanProxyEnds(c)

Command == Status \/ Leases \/ Cleanup \/ \E r \in Roots : Repair(r)

Serve(n) == Binds(n) \/ Dies(n) \/ Stalls(n) \/ Resumes(n)

Terminated == (\A c \in Clients : ~Alive(c)) /\ UNCHANGED vars

Next ==
  \/ \E c \in Clients : Connect(c) \/ Disturb(c)
  \/ Command
  \/ \E k \in Keys : IdleAges(k)
  \/ \E n \in Processes : Serve(n)
  \/ Terminated

Spec == Init /\ [][Next]_vars

-----------------------------------------------------------------------------
(* Properties.                                                             *)

\* The live leases on one root have one owner, in the file and in the copy a
\* connect is working on, whatever was killed, swept or migrated before.
OneOwner(f) == \A r \in Roots : \A o1, o2 \in RootOwners(f, r) : o1 = o2
OneOwnerPerRoot == OneOwner(disk) /\ OneOwner(draft)

\* "Cross-host ownership remains rejected": a lease names the owner its client
\* resolved to, or the Codex host that client runs under.
GenuineOwners ==
  \A k \in Keys, c \in Clients :
    disk.leases[k][c] \in {None, OwnerOf[c], HostOf[c]}

\* While a connect runs its proxy and the service behind it still runs, the file
\* has both the record of that service and the lease.
ConnectedIsLeased ==
  \A c \in Clients : pc[c] = "proxy" =>
    \A n \in links[c] : Running(n) =>
      /\ disk.process[serves[n]] = n
      /\ disk.leases[serves[n]][c] # None

\* Neither cleanup nor repair-root stops a service under a running connect.
CommandsSpareTheConnected ==
  [][Command => \A c \in Clients : pc[c] = "proxy" =>
       \A n \in links[c] : Running(n) => service'[n] = service[n]]_vars

\* The idle clock of a service starts after its last lease: none that is leased
\* looks idle, so none is stopped early once the lease is released.
IdleMeansUnleased ==
  \A k \in Keys : disk.idle[k] # "busy" => LiveLeases(disk, k) = {}

\* "It never leaves an unrecorded service": what runs is on file, or was started by
\* the connect that is in the section, or by one that died there.  So a broker
\* that dies loses no service but those it has started itself, and none is lost by
\* an error, a sweep, a command or a later broker.
NoUnrecordedService ==
  \A n \in Processes : Running(n) =>
    disk.process[serves[n]] = n \/ n \in spawned \cup orphans

\* No two running services were told the same port, unless a broker died over one
\* of them before it was on file: a recorded service keeps its port before it
\* listens on it, and across the deaths of others.
PortsAreExclusive ==
  \A n, m \in Processes :
    n # m /\ Running(n) /\ Running(m) /\ port[n] = port[m] =>
      n \in orphans \/ m \in orphans

\* "A second logical owner is rejected for an already-owned worktree": two
\* connects that run their proxies on one root have one owner.
SecondOwnerRejected ==
  \A c, d \in Clients :
    /\ pc[c] = "proxy" /\ pc[d] = "proxy"
    /\ RootOf[Primary[c]] = RootOf[Primary[d]]
    => OwnerOf[c] = OwnerOf[d]

-----------------------------------------------------------------------------
(* Liveness.                                                               *)

\* A task ends its session some day, the waits of the section are bounded, and
\* a connect that waits for the flock gets it if it is free again and again.
FairSpec ==
  /\ Spec
  /\ \A c \in Clients :
       /\ WF_vars(Connect(c) /\ pc[c] \notin {"wait", "release"})
       /\ SF_vars(Enter(c) \/ Release(c))

\* Every connect ends, although others are killed inside the section.
EveryConnectEnds == \A c \in Clients : <>(pc[c] = "done")
=============================================================================
