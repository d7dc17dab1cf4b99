------------------------------- MODULE Reaper -------------------------------
(***************************************************************************)
(* intellij-project-reaper: the registry of managed windows, the cleanup   *)
(* that closes idle ones, the recycling of one window by its doctor, and   *)
(* the registration by openers.                                            *)
(*                                                                         *)
(* The registry is changed under its flock, one atomic step per command,   *)
(* but read without it; leases are asked of the broker and windows of the  *)
(* plugin by separate calls; a close is a request that the IDE carries out *)
(* later, whether or not the reaper still waits for the answer (module     *)
(* CloseEndpoint).  Everything between two calls interleaves.              *)
(***************************************************************************)
EXTENDS Naturals, FiniteSets

CONSTANTS
  Cleaners,   \* processes that run "cleanup"
  Doctors,    \* processes that run "recycle" on a root of theirs
  Openers,    \* processes that confirm and register a window they opened
  Roots,      \* canonical worktree roots
  Cap,        \* open managed windows that cleanup leaves alone
  MaxOpens,   \* bound: windows opened per root
  MaxClock,   \* bound: registrations and touches
  MayCorrupt, \* whether something damages managed.json once
  None        \* no root, no process

ASSUME ReaperAssumption ==
  /\ None \notin Roots \cup Cleaners \cup Doctors
  /\ Cleaners \cap Doctors = {}
  /\ Cap \in Nat
  /\ MaxOpens \in Nat \ {0}
  /\ MaxClock \in Nat
  /\ MayCorrupt \in BOOLEAN

Closers == Cleaners \cup Doctors

VARIABLES
  registry,   \* managed.json: lastReadyAt of each root, 0: not registered
  corrupt,    \* managed.json cannot be parsed
  damaged,    \* history: it could not be at some time
  clock,      \* the time of the latest registration or touch
  horizon,    \* times up to it are at least "idle" seconds old
  window,     \* the open window of each root: its number, 0 when closed
  opened,     \* windows opened so far, per root
  owned,      \* history: the window that was there when the root was registered
  leased,     \* roots on which the broker has live leases
  late,       \* history: a cleanup and a root leased since it looked for leases
  missing,    \* roots whose directory has been deleted
  unregister, \* how far an "unregister" of each root has come
  queue,      \* close requests the IDE has yet to carry out
  pc,         \* where each closer is
  inventory,  \* the open roots a cleanup has been told of
  records,    \* the registry as it has read it
  selected,   \* the roots it has still to close
  root,       \* the root each closer is at
  confirmed   \* the root each opener has found open, or None

registryVars == <<registry, corrupt, damaged, clock>>
windowVars == <<window, opened, owned>>
leaseVars == <<leased, late>>
closerVars == <<pc, inventory, records, selected, root>>
vars == <<registryVars, horizon, windowVars, leaseVars, missing, unregister,
          queue, closerVars, confirmed>>

\* A cleanup past its last look at the leases of a root.
Committed == {"recheckWindow", "post", "posted"}
Stages ==
  {"idle", "load", "quarantine", "select", "next", "poll", "remove", "inspected"}
    \cup Committed

CloseRequests ==
  [by : Closers, root : Roots, window : Nat, awaited : BOOLEAN]

TypeOK ==
  /\ registry \in [Roots -> Nat]
  /\ corrupt \in BOOLEAN /\ damaged \in BOOLEAN
  /\ clock \in Nat /\ horizon \in Nat
  /\ window \in [Roots -> Nat]
  /\ opened \in [Roots -> Nat]
  /\ owned \in [Roots -> Nat]
  /\ leased \in SUBSET Roots
  /\ late \in SUBSET (Cleaners \X leased)
  /\ missing \in SUBSET Roots
  /\ unregister \in [Roots -> {"none", "looked", "checked"}]
  /\ queue \in SUBSET CloseRequests
  /\ pc \in [Closers -> Stages]
  /\ inventory \in [Closers -> SUBSET Roots]
  /\ records \in [Closers -> [Roots -> Nat]]
  /\ selected \in [Closers -> SUBSET Roots]
  /\ root \in [Closers -> Roots \cup {None}]
  /\ confirmed \in [Openers -> Roots \cup {None}]

Unread == [r \in Roots |-> 0]

Init ==
  /\ registry = Unread
  /\ corrupt = FALSE /\ damaged = FALSE
  /\ clock = 0 /\ horizon = 0
  /\ window = [r \in Roots |-> 0]
  /\ opened = [r \in Roots |-> 0]
  /\ owned = [r \in Roots |-> 0]
  /\ leased = {} /\ late = {}
  /\ missing = {}
  /\ unregister = [r \in Roots |-> "none"]
  /\ queue = {}
  /\ pc = [c \in Closers |-> "idle"]
  /\ inventory = [c \in Closers |-> {}]
  /\ records = [c \in Closers |-> Unread]
  /\ selected = [c \in Closers |-> {}]
  /\ root = [c \in Closers |-> None]
  /\ confirmed = [o \in Openers |-> None]

-----------------------------------------------------------------------------
(* The registry.                                                           *)

Goto(c, stage) == pc' = [pc EXCEPT ![c] = stage]
Open(r) == window[r] # 0

\* load_registry under the lock finds damage: the file is moved away.
Quarantine ==
  /\ corrupt' = FALSE
  /\ registry' = Unread

\* register_root and touch_root at a new time; touch needs a record.
Stamp(r) ==
  /\ clock' = clock + 1
  /\ registry' = [registry EXCEPT ![r] = clock + 1]
  /\ owned' = [owned EXCEPT ![r] = window[r]]
  /\ UNCHANGED <<corrupt, damaged>>

\* remove_root(root, expected): only an unchanged record.
\* Mutation: any record.
BugRemove(r, expected) == registry' = [registry EXCEPT ![r] = 0]
Remove(r, expected) ==
  registry' = IF registry[r] = expected
                THEN [registry EXCEPT ![r] = 0] ELSE registry

-----------------------------------------------------------------------------
(* update_reaper_registry of the opener: is-open, then register or touch.  *)

Confirm(o, r) ==
  /\ confirmed[o] = None
  /\ Open(r)
  /\ confirmed' = [confirmed EXCEPT ![o] = r]
  /\ UNCHANGED <<registryVars, horizon, windowVars, leaseVars, missing,
                 unregister, queue, closerVars>>

Register(o) ==
  LET r == confirmed[o] IN
  /\ r # None
  /\ confirmed' = [confirmed EXCEPT ![o] = None]
  /\ \/ /\ corrupt
        /\ Quarantine
        /\ UNCHANGED <<damaged, clock, owned>>
     \/ /\ ~corrupt
        /\ clock < MaxClock
        /\ Stamp(r)
  /\ UNCHANGED <<horizon, window, opened, leaseVars, missing, unregister,
                 queue, closerVars>>

Touch(o) ==
  LET r == confirmed[o] IN
  /\ r # None
  /\ confirmed' = [confirmed EXCEPT ![o] = None]
  /\ \/ /\ corrupt
        /\ Quarantine
        /\ UNCHANGED <<damaged, clock, owned>>
     \/ /\ ~corrupt
        /\ registry[r] # 0
        /\ clock < MaxClock
        /\ Stamp(r)
     \/ /\ ~corrupt
        /\ registry[r] = 0
        /\ UNCHANGED <<registryVars, owned>>
  /\ UNCHANGED <<horizon, window, opened, leaseVars, missing, unregister,
                 queue, closerVars>>

-----------------------------------------------------------------------------
(* cleanup.                                                                *)

\* plugin_inventory; when it fails, the pass only reports.
TakeInventory(c) ==
  /\ pc[c] = "idle"
  /\ inventory' = [inventory EXCEPT ![c] = {r \in Roots : Open(r)}]
  /\ Goto(c, "load")
  /\ UNCHANGED <<registryVars, horizon, windowVars, leaseVars, missing,
                 unregister, queue, records, selected, root, confirmed>>

\* load_registry, without the lock.  A damaged file is read as empty and moved
\* away by a call of its own; the pass then only reports.
Load(c) ==
  /\ pc[c] = "load"
  /\ \/ corrupt /\ Goto(c, "quarantine") /\ UNCHANGED records
     \/ ~corrupt /\ Goto(c, "select") /\ records' = [records EXCEPT ![c] = registry]
  /\ UNCHANGED <<registryVars, horizon, windowVars, leaseVars, missing,
                 unregister, queue, inventory, selected, root, confirmed>>

MoveAway(c) ==
  /\ pc[c] = "quarantine"
  /\ Quarantine
  /\ Goto(c, "idle")
  /\ root' = [root EXCEPT ![c] = None]
  /\ inventory' = [inventory EXCEPT ![c] = {}]
  /\ UNCHANGED <<damaged, clock, horizon, windowVars, leaseVars, missing,
                 unregister, queue, records, selected, confirmed>>

\* classify: registered, idle, not leased, and open in the inventory.
Managed(c) == {r \in inventory[c] : records[c][r] # 0}
Eligible(c) == {r \in Managed(c) : records[c][r] <= horizon /\ r \notin leased}

\* select_cleanup: no more than the open managed windows exceed the cap.  (Which
\* of the eligible ones are safe to close is not modelled, so any may be left
\* out, and the order of preference among them does not show.)
Select(c) ==
  /\ pc[c] = "select"
  /\ \E S \in SUBSET Eligible(c) :
       /\ S # {} => Cardinality(S) + Cap <= Cardinality(Managed(c))
       /\ selected' = [selected EXCEPT ![c] = S]
  /\ Goto(c, "next")
  /\ UNCHANGED <<registryVars, horizon, windowVars, leaseVars, missing,
                 unregister, queue, inventory, records, root, confirmed>>

\* For each selected root the leases are read again: it is skipped when it is
\* leased, or the broker does not answer.
\* Mutation: they are not read again.
BugStillFree(c, r) == r \in selected[c]
StillFree(c, r) == r \in selected[c] /\ r \notin leased

RecheckLeases(c) ==
  /\ pc[c] = "next"
  /\ \E r \in selected[c] :
       /\ selected' = [selected EXCEPT ![c] = @ \ {r}]
       /\ \/ /\ StillFree(c, r)
             /\ Goto(c, "recheckWindow")
             /\ root' = [root EXCEPT ![c] = r]
          \/ UNCHANGED <<pc, root>>
  /\ UNCHANGED <<registryVars, horizon, windowVars, leaseVars, missing,
                 unregister, queue, inventory, records, confirmed>>

EndOfPass(c) ==
  /\ pc[c] = "next"
  /\ selected[c] = {}
  /\ Goto(c, "idle")
  /\ inventory' = [inventory EXCEPT ![c] = {}]
  /\ records' = [records EXCEPT ![c] = Unread]
  /\ root' = [root EXCEPT ![c] = None]
  /\ UNCHANGED <<registryVars, horizon, windowVars, leaseVars, missing,
                 unregister, queue, selected, confirmed>>

\* The window is looked up again: it may be gone, unsafe, or unknown.
RecheckWindow(c) ==
  /\ pc[c] = "recheckWindow"
  /\ \/ Open(root[c]) /\ Goto(c, "post")
     \/ Goto(c, "next")
  /\ UNCHANGED <<registryVars, horizon, windowVars, leaseVars, missing,
                 unregister, queue, inventory, records, selected, root, confirmed>>

-----------------------------------------------------------------------------
(* recycle: the window of a managed root, whatever its leases.             *)

\* inspect_project, then the registry is read without the lock.
Inspect(d) ==
  /\ pc[d] = "idle"
  /\ \E r \in Roots :
       /\ Open(r)
       /\ root' = [root EXCEPT ![d] = r]
  /\ Goto(d, "inspected")
  /\ UNCHANGED <<registryVars, horizon, windowVars, leaseVars, missing,
                 unregister, queue, inventory, records, selected, confirmed>>

CheckManaged(d) ==
  /\ pc[d] = "inspected"
  /\ \/ /\ corrupt
        /\ Goto(d, "quarantine")
        /\ UNCHANGED root
     \/ /\ ~corrupt
        /\ registry[root[d]] # 0
        /\ Goto(d, "post")
        /\ UNCHANGED root
     \/ /\ ~corrupt
        /\ Goto(d, "idle")
        /\ root' = [root EXCEPT ![d] = None]
  /\ UNCHANGED <<registryVars, horizon, windowVars, leaseVars, missing,
                 unregister, queue, inventory, records, selected, confirmed>>

-----------------------------------------------------------------------------
(* close_verified.                                                         *)

\* What follows a close that has not been verified.
GiveUp(c) ==
  \/ c \in Doctors /\ Goto(c, "idle") /\ root' = [root EXCEPT ![c] = None]
  \/ c \in Cleaners /\ Goto(c, "next") /\ UNCHANGED root

\* POST: the IDE queues it, refuses it at once, or answers with the acceptance
\* of another request.
Post(c) ==
  LET r == root[c] IN
  /\ pc[c] = "post"
  /\ \/ /\ Open(r)
        /\ queue' = queue \cup {[by |-> c, root |-> r, window |-> window[r],
                                 awaited |-> TRUE]}
        /\ Goto(c, "posted")
        /\ UNCHANGED root
     \/ /\ Goto(c, "poll")
        /\ UNCHANGED <<queue, root>>
     \/ /\ GiveUp(c)
        /\ UNCHANGED queue
  /\ UNCHANGED <<registryVars, horizon, windowVars, leaseVars, missing,
                 unregister, inventory, records, selected, confirmed>>

Abandoned(m) == [by |-> m.by, root |-> m.root, window |-> m.window, awaited |-> FALSE]

\* The answer does not come within two seconds; the request stays queued.
TimeOut(c) ==
  /\ pc[c] = "posted"
  /\ queue' = {m \in queue : m.by # c} \cup {Abandoned(m) : m \in {n \in queue : n.by = c}}
  /\ GiveUp(c)
  /\ UNCHANGED <<registryVars, horizon, windowVars, leaseVars, missing,
                 unregister, inventory, records, selected, confirmed>>

\* GET /v1/projects until the root is gone, for ten seconds.
Poll(c) ==
  /\ pc[c] = "poll"
  /\ \/ ~Open(root[c]) /\ c \in Cleaners /\ Goto(c, "remove") /\ UNCHANGED root
     \/ GiveUp(c)
  /\ UNCHANGED <<registryVars, horizon, windowVars, leaseVars, missing,
                 unregister, queue, inventory, records, selected, confirmed>>

\* remove_root with the record that was read at the start.
RemoveRecord(c) ==
  /\ pc[c] = "remove"
  /\ Goto(c, "next")
  /\ \/ /\ corrupt
        /\ Quarantine
     \/ /\ ~corrupt
        /\ Remove(root[c], records[c][root[c]])
        /\ UNCHANGED corrupt
  /\ UNCHANGED <<damaged, clock, horizon, windowVars, leaseVars, missing,
                 unregister, queue, inventory, records, selected, root, confirmed>>

\* The IDE gets to a request: it accepts it and closes the window it was made for
\* (unless IntelliJ vetoes that), or refuses it.
Carry(m) ==
  /\ m \in queue
  /\ queue' = queue \ {m}
  /\ \/ /\ window[m.root] = m.window
        /\ window' = [window EXCEPT ![m.root] = 0] \/ UNCHANGED window
        /\ \/ m.awaited /\ Goto(m.by, "poll")
           \/ ~m.awaited /\ UNCHANGED pc
        /\ UNCHANGED root
     \/ /\ UNCHANGED window
        /\ \/ m.awaited /\ GiveUp(m.by)
           \/ ~m.awaited /\ UNCHANGED <<pc, root>>
  /\ UNCHANGED <<registryVars, horizon, opened, owned, leaseVars, missing,
                 unregister, inventory, records, selected, confirmed>>

-----------------------------------------------------------------------------
(* unregister: the inventory, then leases and directory, then the removal   *)
(* of whatever is registered.                                              *)

UnregisterLooks(r) ==
  /\ unregister[r] = "none"
  /\ ~Open(r)
  /\ unregister' = [unregister EXCEPT ![r] = "looked"]
  /\ UNCHANGED <<registryVars, horizon, windowVars, leaseVars, missing, queue,
                 closerVars, confirmed>>

MayUnregister(r) == r \in missing /\ r \notin leased
UnregisterChecks(r) ==
  /\ unregister[r] = "looked"
  /\ unregister' = [unregister EXCEPT ![r] = IF MayUnregister(r) THEN "checked" ELSE "none"]
  /\ UNCHANGED <<registryVars, horizon, windowVars, leaseVars, missing, queue,
                 closerVars, confirmed>>

UnregisterRemoves(r) ==
  /\ unregister[r] = "checked"
  /\ unregister' = [unregister EXCEPT ![r] = "none"]
  /\ \/ corrupt /\ Quarantine
     \/ ~corrupt /\ Remove(r, registry[r]) /\ UNCHANGED corrupt
  /\ UNCHANGED <<damaged, clock, horizon, windowVars, leaseVars, missing, queue,
                 closerVars, confirmed>>

-----------------------------------------------------------------------------
(* What surrounds the reaper.                                              *)

WindowOpens(r) ==
  /\ ~Open(r)
  /\ r \notin missing
  /\ opened[r] < MaxOpens
  /\ opened' = [opened EXCEPT ![r] = @ + 1]
  /\ window' = [window EXCEPT ![r] = opened[r] + 1]
  /\ UNCHANGED <<registryVars, horizon, owned, leaseVars, missing, unregister,
                 queue, closerVars, confirmed>>

UserCloses(r) ==
  /\ Open(r)
  /\ window' = [window EXCEPT ![r] = 0]
  /\ UNCHANGED <<registryVars, horizon, opened, owned, leaseVars, missing,
                 unregister, queue, closerVars, confirmed>>

\* A deleted worktree does not come back.
DirectoryGoes(r) ==
  /\ r \notin missing
  /\ missing' = missing \cup {r}
  /\ UNCHANGED <<registryVars, horizon, windowVars, leaseVars, unregister,
                 queue, closerVars, confirmed>>

\* The broker (module Broker) leases a service of r, or releases the last one.
Overtaken(c, r) ==
  \/ pc[c] \in Committed /\ root[c] = r
  \/ \E m \in queue : m.by = c /\ m.root = r
LeaseTaken(r) ==
  /\ r \notin leased \cup missing
  /\ leased' = leased \cup {r}
  /\ late' = late \cup ({c \in Cleaners : Overtaken(c, r)} \X {r})
  /\ UNCHANGED <<registryVars, horizon, windowVars, missing, unregister, queue,
                 closerVars, confirmed>>

LeaseEnds(r) ==
  /\ r \in leased
  /\ leased' = leased \ {r}
  /\ late' = late \ (Cleaners \X {r})
  /\ UNCHANGED <<registryVars, horizon, windowVars, missing, unregister, queue,
                 closerVars, confirmed>>

\* What has been registered so far becomes idle.
TimePasses ==
  /\ horizon # clock
  /\ horizon' = clock
  /\ UNCHANGED <<registryVars, windowVars, leaseVars, missing, unregister,
                 queue, closerVars, confirmed>>

Damage ==
  /\ MayCorrupt
  /\ ~damaged
  /\ corrupt' = TRUE /\ damaged' = TRUE
  /\ UNCHANGED <<registry, clock, horizon, windowVars, leaseVars, missing,
                 unregister, queue, closerVars, confirmed>>

-----------------------------------------------------------------------------
Cleanup(c) ==
  \/ TakeInventory(c) \/ Load(c) \/ Select(c) \/ RecheckLeases(c) \/ RecheckWindow(c)
  \/ RemoveRecord(c) \/ EndOfPass(c)
Recycle(d) == Inspect(d) \/ CheckManaged(d)
Close(c) == Post(c) \/ TimeOut(c) \/ Poll(c) \/ MoveAway(c)
Around(r) ==
  \/ UnregisterLooks(r) \/ UnregisterChecks(r) \/ UnregisterRemoves(r)
  \/ WindowOpens(r) \/ UserCloses(r) \/ DirectoryGoes(r)
  \/ LeaseTaken(r) \/ LeaseEnds(r)

Next ==
  \/ \E c \in Cleaners : Cleanup(c)
  \/ \E d \in Doctors : Recycle(d)
  \/ \E c \in Closers : Close(c)
  \/ \E m \in queue : Carry(m)
  \/ \E o \in Openers : Register(o) \/ Touch(o) \/ \E r \in Roots : Confirm(o, r)
  \/ \E r \in Roots : Around(r)
  \/ TimePasses
  \/ Damage

Spec == Init /\ [][Next]_vars

-----------------------------------------------------------------------------
(* Properties.                                                             *)

\* A window that was registered stays managed as long as it is open and its
\* directory exists, whatever is cleaned up, recycled and unregistered meanwhile:
\* a record renewed during a close outlives it.  (A damaged registry is given up.)
RegistrationSurvives ==
  ~damaged =>
    \A r \in Roots \ missing :
      Open(r) /\ owned[r] = window[r] => registry[r] # 0

\* Cleanup closes the window of a leased root only if the lease was taken after
\* its last look at the leases.
Closes(c, r) ==
  /\ Open(r) /\ window'[r] = 0
  /\ \E m \in queue \ queue' : m.by = c /\ m.root = r
LeasesSeenAreRespected ==
  [][\A c \in Cleaners, r \in leased : Closes(c, r) => <<c, r>> \in late]_vars
=============================================================================
