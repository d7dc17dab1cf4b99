------------------------------ MODULE Journal -------------------------------
(***************************************************************************)
(* BridgeJournal: events are appended to a file under a flock.  When the   *)
(* next line does not fit, the file and its backups are renamed one after  *)
(* the other, oldest first; a process may be killed between two renames,   *)
(* and a disk may fill up in the middle of a line.  recent reads the files *)
(* one by one without the lock.                                            *)
(*                                                                         *)
(* Lines have one size and are known by their numbers, in the order they   *)
(* were begun in.                                                          *)
(***************************************************************************)
EXTENDS Naturals, Sequences, Functions

CONSTANTS
  Writers,   \* processes that append events
  Readers,   \* processes that call recent, once each
  Backups,   \* files kept besides the current one
  Capacity,  \* lines that fit into a file
  DiskFills  \* whether a write may fail

ASSUME JournalAssumption ==
  /\ Backups \in Nat \ {0}
  /\ Capacity \in Nat \ {0}
  /\ DiskFills \in BOOLEAN
  /\ "nobody" \notin Writers

VARIABLES
  file,    \* the lines of the files: 0 is journal.jsonl, k is journal.jsonl.k;
           \* <<>>: absent
  torn,    \* the current file ends in a part of a line
  flock,   \* who holds journal.lock
  writing, \* where a call of append is
  slot,    \* the backup the rotation of a writer has got to
  event,   \* what it is recording
  left,    \* files a reader has not read yet
  got,     \* what it has read
  begun,   \* history: how many lines have been begun
  recorded \* history: what became of each event a writer has handed to append:
           \* the event (it is a line), "lost" (append said so), or "spoilt"
           \* (append said it is recorded, but no line that can be read has it)

diskVars == <<file, torn>>
readerVars == <<left, got>>
historyVars == <<begun, recorded>>
journalVars == <<diskVars, flock, writing, slot, event, readerVars, historyVars>>

Free == "nobody"
Files == 0..Backups

JournalInit ==
  /\ file = [k \in Files |-> <<>>]
  /\ torn = FALSE
  /\ flock = Free
  /\ writing = [p \in Writers |-> "no"]
  /\ slot = [p \in Writers |-> 0]
  /\ event = [p \in Writers |-> "none"]
  /\ left = [r \in Readers |-> Backups + 1]
  /\ got = [r \in Readers |-> <<>>]
  /\ begun = 0
  /\ recorded = [p \in Writers |-> <<>>]

Idle(p) == writing[p] = "no"

\* append is called.
Submit(p, e) ==
  /\ writing' = [writing EXCEPT ![p] = "enter"]
  /\ event' = [event EXCEPT ![p] = e]
  /\ UNCHANGED <<diskVars, flock, slot, readerVars, historyVars>>

\* A part of a line takes no room.  Mutation: the new line is not counted.
BugFull == Len(file[0]) - (IF torn THEN 1 ELSE 0) > Capacity
Full == Len(file[0]) - (IF torn THEN 1 ELSE 0) + 1 > Capacity

\* The name the rotation begins with.
Oldest == Backups

\* The lock is taken and the current file measured.
Enter(p) ==
  /\ writing[p] = "enter"
  /\ flock = Free
  /\ flock' = p
  /\ writing' = [writing EXCEPT ![p] = IF Full THEN "rotate" ELSE "write"]
  /\ slot' = [slot EXCEPT ![p] = IF Full THEN Oldest ELSE 0]
  /\ UNCHANGED <<diskVars, event, readerVars, historyVars>>

\* Mutation: every file is renamed to the oldest name.
BugTarget(p) == Backups
Target(p) == slot[p]

\* One os.replace; a file that is missing is passed over.
Rotate(p) ==
  /\ writing[p] = "rotate"
  /\ file' = IF file[slot[p] - 1] = <<>> THEN file
             ELSE [file EXCEPT ![Target(p)] = file[slot[p] - 1], ![slot[p] - 1] = <<>>]
  /\ torn' = (torn /\ slot[p] > 1)
  /\ slot' = [slot EXCEPT ![p] = @ - 1]
  /\ writing' = [writing EXCEPT ![p] = IF slot[p] = 1 THEN "write" ELSE "rotate"]
  /\ UNCHANGED <<flock, event, readerVars, historyVars>>

Return(p) ==
  /\ writing' = [writing EXCEPT ![p] = "no"]
  /\ event' = [event EXCEPT ![p] = "none"]
  /\ slot' = [slot EXCEPT ![p] = 0]
  /\ UNCHANGED readerVars

Leave(p) == flock' = Free /\ Return(p)

Line == [file EXCEPT ![0] = Append(@, begun + 1)]

Becomes(p, fate) == recorded' = [recorded EXCEPT ![p] = Append(@, fate)]

\* A line written after a part of another becomes one unreadable line with it, and
\* append does not notice.
Write(p) ==
  /\ writing[p] = "write"
  /\ IF torn THEN Becomes(p, "spoilt") /\ UNCHANGED <<file, begun>>
             ELSE Becomes(p, event[p]) /\ file' = Line /\ begun' = begun + 1
  /\ torn' = FALSE
  /\ Leave(p)

\* OSError, which append turns into False: nothing of the line is written, or
\* a part of it.  Mutation: it is turned into True.
BugWriteFails(p) ==
  /\ DiskFills
  /\ writing[p] = "write"
  /\ \/ UNCHANGED <<diskVars, begun>>
     \/ ~torn /\ torn' = TRUE /\ file' = Line /\ begun' = begun + 1
  /\ Becomes(p, event[p])
  /\ Leave(p)

WriteFails(p) ==
  /\ DiskFills
  /\ writing[p] = "write"
  /\ \/ UNCHANGED <<diskVars, begun>>
     \/ ~torn /\ torn' = TRUE /\ file' = Line /\ begun' = begun + 1
  /\ Becomes(p, "lost")
  /\ Leave(p)

Work(p) == Enter(p) \/ Rotate(p) \/ Write(p) \/ WriteFails(p)

\* The process is killed: the kernel releases its lock.
Abandon(p) ==
  /\ flock' = IF flock = p THEN Free ELSE flock
  /\ Return(p)
  /\ UNCHANGED <<diskVars, historyVars>>

\* Mutation: the newest file comes first.
BugNextFile(r) == Backups + 1 - left[r]
NextFile(r) == left[r] - 1

\* recent reads the oldest file it has not read.  Of its lines it shows those
\* that parse, in the same order.
ReadFile(r) ==
  /\ left[r] > 0
  /\ got' = [got EXCEPT ![r] = @ \o file[NextFile(r)]]
  /\ left' = [left EXCEPT ![r] = @ - 1]
  /\ UNCHANGED <<diskVars, flock, writing, slot, event, historyVars>>

-----------------------------------------------------------------------------
(* Properties.                                                             *)

JournalTypeOK ==
  /\ file \in [Files -> Seq(Nat)]
  /\ torn \in BOOLEAN
  /\ flock \in Writers \cup {Free}
  /\ writing \in [Writers -> {"no", "enter", "rotate", "write"}]
  /\ slot \in [Writers -> Files]
  /\ left \in [Readers -> 0..Backups + 1]
  /\ got \in [Readers -> Seq(Nat)]
  /\ begun \in Nat

\* The files are one log: from the oldest to the newest their lines stand in the
\* order they were begun in, and none is there twice.
FilesInOrder ==
  \A k, l \in Files : \A i \in DOMAIN file[k], j \in DOMAIN file[l] :
    k > l \/ (k = l /\ i < j) => file[k][i] < file[l][j]

\* No file grows beyond its capacity: a writer measures and writes under one lock.
FilesAreBounded == \A k \in Files : Len(file[k]) <= Capacity

\* Where append has never said that an event is lost, every event it has said is
\* recorded is a line of its own: a part of a line that swallows the next one, of
\* whatever writer, has been reported to the one it is of.
Has(p, fate) == \E i \in DOMAIN recorded[p] : recorded[p][i] = fate
NoSilentLoss ==
  (\E p \in Writers : Has(p, "spoilt")) => \E q \in Writers : Has(q, "lost")

\* A complete rotation keeps Backups full files; one that was interrupted leaves
\* a gap that the next one does not fill before it drops the last file, so that
\* two full files are all that is certain.
Contents == UNION {Range(file[k]) : k \in Files}
Certain == IF Backups = 1 THEN 1 ELSE 2
=============================================================================
