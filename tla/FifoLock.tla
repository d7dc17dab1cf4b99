------------------------------ MODULE FifoLock ------------------------------
(***************************************************************************)
(* What the launch queue of the IntelliJ opener promises its callers: one  *)
(* client at a time holds the lock, clients are admitted in the order they *)
(* arrived, and a client that leaves (or dies) is forgotten.  `ahead[c]'   *)
(* is the set of clients that arrived before the waiting client c and have *)
(* not left since.                                                         *)
(***************************************************************************)
CONSTANTS
  Clients,  \* the requests that may ask for the lock
  None      \* nobody: not a client

VARIABLES
  holder,   \* the client that holds the lock, or None
  waiting,  \* the clients in line
  ahead     \* for each client in line, the clients before it

lockVars == <<holder, waiting, ahead>>

FifoTypeOK ==
  /\ holder \in Clients \cup {None}
  /\ waiting \in SUBSET Clients
  /\ ahead \in [Clients -> SUBSET Clients]

FifoInit ==
  /\ holder = None
  /\ waiting = {}
  /\ ahead = [c \in Clients |-> {}]

\* c joins the end of the line.
Arrive(c) ==
  /\ c \notin waiting
  /\ holder # c
  /\ waiting' = waiting \cup {c}
  /\ ahead' = [ahead EXCEPT ![c] = waiting]
  /\ UNCHANGED holder

\* The client nobody precedes takes the free lock; it may have arrived just now.
Enter(c) ==
  /\ holder = None
  /\ c \in waiting => ahead[c] = {}
  /\ c \notin waiting => waiting = {}
  /\ holder' = c
  /\ waiting' = waiting \ {c}
  /\ ahead' = [d \in Clients |-> ahead[d] \ {c}]

\* c releases the lock, gives up its place, or dies.
Leave(c) ==
  /\ c = holder \/ c \in waiting
  /\ holder' = IF holder = c THEN None ELSE holder
  /\ waiting' = waiting \ {c}
  /\ ahead' = [d \in Clients |-> IF d = c THEN {} ELSE ahead[d] \ {c}]

FifoNext == \E c \in Clients : Arrive(c) \/ Enter(c) \/ Leave(c)

FifoSpec == FifoInit /\ [][FifoNext]_lockVars
=============================================================================
