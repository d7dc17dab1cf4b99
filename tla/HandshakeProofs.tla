-------------------------- MODULE HandshakeProofs --------------------------
(***************************************************************************)
(* Handshake and the journal under it, for any number of attempts and      *)
(* brokers, of files and of lines in them.  The journal's invariant says   *)
(* nothing of its callers, and a caller sees five operations of it; so a   *)
(* lemma for each of them is all that the steps of Handshake need.         *)
(***************************************************************************)
EXTENDS Handshake, FiniteSetTheorems, SequenceTheorems, TLAPS

-----------------------------------------------------------------------------
(* Invariants.                                                             *)

\* A writer between the lock and the write has the lock.  While it rotates the
\* current file is full, and the file it is about to replace has been moved, if
\* it is not the oldest one; when it writes there is room.
Appending ==
  \A p \in Writers :
    /\ writing[p] \in {"rotate", "write"} => flock = p
    /\ writing[p] = "rotate" =>
         /\ slot[p] \in 1..Backups
         /\ ~torn /\ Len(file[0]) = Capacity
         /\ slot[p] < Backups => file[slot[p]] = <<>>
    /\ writing[p] = "write" => torn \/ Len(file[0]) < Capacity
    /\ writing[p] # "no" => event[p] # "none"

\* What has been moved was full.
Filled ==
  /\ FilesAreBounded
  /\ \A k \in 1..Backups : file[k] = <<>> \/ Len(file[k]) = Capacity

Ordered ==
  /\ FilesInOrder
  /\ \A k \in Files : \A i \in DOMAIN file[k] : file[k][i] \in 1..begun

\* What a reader has read is older than everything it has still to read: lines
\* only move into files it has left behind.
Reading ==
  \A r \in Readers : \A i \in DOMAIN got[r] :
    /\ got[r][i] \in 1..begun
    /\ \A k \in Files : \A j \in DOMAIN file[k] : k < left[r] => got[r][i] < file[k][j]

Events ==
  /\ event \in [Writers -> Kinds \cup {"none"}]
  /\ recorded \in [Writers -> Seq(Fates)]

\* A part of a line has been reported by whoever left it, whether it still stands
\* at the end of the file or has swallowed a line.
LossIsTold ==
  torn \/ (\E p \in Writers : Has(p, "spoilt")) => \E q \in Writers : Has(q, "lost")

JournalInv ==
  /\ JournalTypeOK
  /\ Events
  /\ LossIsTold
  /\ Appending
  /\ Filled
  /\ Ordered
  /\ Reading
  /\ RecentInOrder

\* Where an attempt is, or will be when it has stopped its broker.
Where(p) == IF pc[p] \in {"term", "term-wait", "kill-wait"} THEN back[p] ELSE pc[p]

\* An attempt hears answers to initialize until it leaves the loop, and leaves it
\* without a failure only for a list of tools after such an answer.
Greeted(p) ==
  /\ \A i \in DOMAIN heard[p] : heard[p][i] = "initialized"
  /\ p \in initialized => Len(heard[p]) > 0
Earned(p) ==
  LET n == Len(heard[p]) IN
  /\ n > 1 /\ heard[p][n] = "tools"
  /\ \A i \in 1..n - 1 : heard[p][i] = "initialized"
Hears(p) ==
  /\ pc[p] \in {"begin", "greet", "loop", "poll"} => finding[p] = "none" /\ Greeted(p)
  /\ Where(p) \in {"wait", "judge"} => finding[p] = "none"
  /\ pc[p] = "close" => finding[p] \in Failures \cup {"none"}
  /\ Where(p) \in {"close", "wait", "judge"} /\ finding[p] = "none" => Earned(p)
  /\ finding[p] = "healthy" => Earned(p)

\* Nobody looks away from a broker that has neither ended nor been sent KILL.
Stops(p) ==
  /\ pc[p] \in {"begin", "done"} => broker[p] # "running"
  /\ pc[p] \in {"judge", "kill-wait"} => broker[p] \notin {"none", "running"}
  /\ finding[p] = "healthy" => broker[p] \notin {"none", "running", "nonzero"}
  /\ broker[p] = "none" => pc[p] \in {"begin", "done", "dead"}

\* Once an attempt has its verdict it has handed it to the journal, as its last
\* event; before that it records beginnings only.
Told(p) == finding[p] = "healthy" \/ (finding[p] \in Failures /\ pc[p] # "close")
Journals(p) ==
  pc[p] # "dead" =>
    LET s == recorded[p]
        n == Len(s)
    IN
    /\ ~Told(p) => OnlyBegun(s, n) /\ event[p] \in {"none", "begun"}
    /\ Told(p) /\ ~Idle(p) => OnlyBegun(s, n) /\ event[p] = Verdict(p)
    /\ Told(p) /\ Idle(p) =>
         n > 0 /\ OnlyBegun(s, n - 1) /\ s[n] \in {Verdict(p), "lost", "spoilt"}

LoopTypeOK ==
  /\ pc \in [Attempts -> Stages]
  /\ back \in [Attempts -> {"judge", "finally", "done"}]
  /\ broker \in [Attempts -> {"none", "running", "dying", "zero", "nonzero", "killed"}]
  /\ initialized \subseteq Attempts
  /\ finding \in [Attempts -> Findings]
  /\ heard \in [Attempts -> Seq(Messages)]

HandshakeInv ==
  /\ JournalInv
  /\ LoopTypeOK
  /\ \A p \in Attempts : Hears(p) /\ Stops(p) /\ Journals(p)

-----------------------------------------------------------------------------
(* The journal.                                                            *)

LEMMA JournalStarts ==
  ASSUME JournalInit
  PROVE  JournalInv
<1> USE JournalAssumption DEF JournalInit, Files
<1>1. JournalTypeOK /\ Events
  <2>1. <<>> \in Seq(Nat) /\ <<>> \in Seq(Fates)
    OBVIOUS
  <2>2. file \in [Files -> Seq(Nat)] /\ got \in [Readers -> Seq(Nat)]
    BY <2>1
  <2>3. recorded \in [Writers -> Seq(Fates)]
    BY <2>1
  <2>4. event \in [Writers -> Kinds \cup {"none"}]
    OBVIOUS
  <2>5. Events
    BY <2>3, <2>4 DEF Events
  <2>6. torn \in BOOLEAN /\ flock \in Writers \cup {Free} /\ begun \in Nat
    OBVIOUS
  <2>7. writing \in [Writers -> {"no", "enter", "rotate", "write"}] /\ slot \in [Writers -> Files]
    OBVIOUS
  <2>8. left \in [Readers -> 0..Backups + 1]
    OBVIOUS
  <2> QED
    BY <2>2, <2>5, <2>6, <2>7, <2>8 DEF JournalTypeOK
<1>2. \A k \in Files : file[k] = <<>> /\ Len(file[k]) = 0 /\ DOMAIN file[k] = {}
  OBVIOUS
<1>3. \A r \in Readers : DOMAIN got[r] = {}
  OBVIOUS
<1>4. Appending
  BY DEF Appending
<1>5. Filled /\ Ordered
  BY <1>2 DEF Filled, FilesAreBounded, Ordered, FilesInOrder
<1>6. Reading /\ RecentInOrder
  BY <1>3 DEF Reading, RecentInOrder
<1>7. LossIsTold
  <2>1. \A p \in Writers : DOMAIN recorded[p] = {}
    OBVIOUS
  <2> QED
    BY <2>1 DEF LossIsTold, Has
<1> QED
  BY <1>1, <1>4, <1>5, <1>6, <1>7 DEF JournalInv

LEMMA JournalStays ==
  ASSUME JournalInv, UNCHANGED journalVars
  PROVE  JournalInv'
<1> USE DEF journalVars, diskVars, readerVars, historyVars
<1>1. JournalTypeOK' /\ Events'
  BY DEF JournalInv, JournalTypeOK, Events
<1>2. Appending'
  BY DEF JournalInv, Appending
<1>3. Filled' /\ Ordered'
  BY DEF JournalInv, Filled, FilesAreBounded, Ordered, FilesInOrder
<1>4. Reading' /\ RecentInOrder'
  BY DEF JournalInv, Reading, RecentInOrder
<1>5. LossIsTold'
  BY DEF JournalInv, LossIsTold, Has
<1> QED
  BY <1>1, <1>2, <1>3, <1>4, <1>5 DEF JournalInv

\* Whatever leaves the files and what has been read alone leaves their order alone.
LEMMA OrderStays ==
  ASSUME JournalInv, UNCHANGED <<file, left, got, begun>>
  PROVE  Filled' /\ Ordered' /\ Reading' /\ RecentInOrder'
<1>1. Filled' /\ Ordered'
  BY DEF JournalInv, Filled, FilesAreBounded, Ordered, FilesInOrder
<1>2. Reading' /\ RecentInOrder'
  BY DEF JournalInv, Reading, RecentInOrder
<1> QED
  BY <1>1, <1>2

\* Nor does it tear a line.
LEMMA LossStays ==
  ASSUME JournalInv, UNCHANGED recorded, torn' => torn
  PROVE  LossIsTold'
BY DEF JournalInv, LossIsTold, Has

\* A line that has just begun is the last one of the log, for every reader too.
LEMMA BeginLine ==
  ASSUME JournalInv, Len(file[0]) < Capacity,
         file' = Line, begun' = begun + 1, UNCHANGED <<left, got>>
  PROVE  /\ file' \in [Files -> Seq(Nat)]
         /\ begun' \in Nat
         /\ Filled' /\ Ordered' /\ Reading' /\ RecentInOrder'
<1> USE JournalAssumption DEF Files
<1>1. /\ file \in [Files -> Seq(Nat)] /\ begun \in Nat
      /\ 0 \in Files
  BY DEF JournalInv, JournalTypeOK
<1>2. /\ file' = [file EXCEPT ![0] = Append(file[0], begun + 1)]
      /\ file'[0] = Append(file[0], begun + 1)
      /\ \A k \in Files \ {0} : file'[k] = file[k]
  BY <1>1 DEF Line
<1>3. /\ file[0] \in Seq(Nat)
      /\ Append(file[0], begun + 1) \in Seq(Nat)
      /\ Len(file'[0]) = Len(file[0]) + 1
  BY <1>1, <1>2
<1>4. file' \in [Files -> Seq(Nat)] /\ begun' \in Nat
  BY <1>1, <1>2, <1>3
<1>5. ASSUME NEW k \in Files, NEW i \in DOMAIN file'[k]
      PROVE  \/ i \in DOMAIN file[k] /\ file'[k][i] = file[k][i] /\ file[k][i] \in 1..begun
             \/ k = 0 /\ i = Len(file[0]) + 1 /\ file'[k][i] = begun + 1
  BY <1>1, <1>2, <1>3, <1>5 DEF JournalInv, Ordered
<1>6. Filled'
  BY <1>2, <1>3 DEF JournalInv, Filled, FilesAreBounded
<1>7. FilesInOrder'
  <2> SUFFICES ASSUME NEW k \in Files, NEW l \in Files,
                      NEW i \in DOMAIN file'[k], NEW j \in DOMAIN file'[l],
                      k > l \/ (k = l /\ i < j)
               PROVE  file'[k][i] < file'[l][j]
    BY DEF FilesInOrder
  <2>1. \A m \in Files : DOMAIN file[m] = 1..Len(file[m]) /\ Len(file[m]) \in Nat
    BY <1>1
  <2>2. i \in DOMAIN file[k] /\ file'[k][i] = file[k][i] /\ file[k][i] \in 1..begun
    <3>1. DOMAIN file'[l] = 1..Len(file'[l]) /\ Len(file'[l]) \in Nat
      BY <1>4
    <3> QED
      BY <1>1, <1>3, <1>5, <2>1, <3>1
  <2>3. CASE j \in DOMAIN file[l] /\ file'[l][j] = file[l][j]
    BY <2>2, <2>3 DEF JournalInv, Ordered, FilesInOrder
  <2>4. CASE file'[l][j] = begun + 1
    BY <1>1, <2>2, <2>4
  <2> QED
    BY <1>5, <2>3, <2>4
<1>8. ASSUME NEW k \in Files, NEW i \in DOMAIN file'[k]
      PROVE  file'[k][i] \in 1..begun'
  <2>1. file'[k][i] \in 1..begun \/ file'[k][i] = begun + 1
    BY <1>5
  <2> QED
    BY <1>1, <2>1
<1>9. Reading'
  <2> SUFFICES ASSUME NEW r \in Readers, NEW i \in DOMAIN got[r]
               PROVE  /\ got[r][i] \in 1..begun'
                      /\ \A k \in Files : \A j \in DOMAIN file'[k] :
                           k < left[r] => got[r][i] < file'[k][j]
    BY DEF Reading
  <2>1. /\ got[r][i] \in 1..begun
        /\ \A k \in Files : \A j \in DOMAIN file[k] : k < left[r] => got[r][i] < file[k][j]
    BY DEF JournalInv, Reading
  <2>2. ASSUME NEW k \in Files, NEW j \in DOMAIN file'[k], k < left[r]
        PROVE  got[r][i] < file'[k][j]
    <3>1. CASE j \in DOMAIN file[k] /\ file'[k][j] = file[k][j]
      BY <2>1, <2>2, <3>1
    <3>2. CASE file'[k][j] = begun + 1
      BY <1>1, <2>1, <3>2
    <3> QED
      BY <1>5, <3>1, <3>2
  <2> QED
    BY <1>1, <2>1, <2>2
<1>10. RecentInOrder'
  BY DEF JournalInv, RecentInOrder
<1> QED
  BY <1>4, <1>6, <1>7, <1>8, <1>9, <1>10 DEF Ordered

\* Only the holder of the lock is between the lock and its return.
LEMMA OneAppends ==
  ASSUME JournalInv, NEW p \in Writers, NEW q \in Writers, q # p,
         writing[p] \in {"rotate", "write"} \/ flock = Free
  PROVE  writing[q] \notin {"rotate", "write"}
BY JournalAssumption DEF JournalInv, Appending, Free

\* The steps of append outside the lock, and its end.
LEMMA SubmitKeeps ==
  ASSUME JournalInv, NEW p \in Writers, NEW e \in Kinds, Submit(p, e)
  PROVE  JournalInv'
<1> USE DEF Submit, diskVars, readerVars, historyVars
<1>1. JournalTypeOK' /\ Events'
  BY DEF JournalInv, JournalTypeOK, Events
<1>2. Appending'
  BY DEF JournalInv, JournalTypeOK, Events, Appending, Kinds
<1> QED
  BY <1>1, <1>2, OrderStays, LossStays DEF JournalInv

LEMMA EnterKeeps ==
  ASSUME JournalInv, NEW p \in Writers, Enter(p)
  PROVE  JournalInv'
<1> USE JournalAssumption DEF Enter, Oldest, diskVars, readerVars, historyVars
<1>1. JournalTypeOK' /\ Events'
  BY DEF JournalInv, JournalTypeOK, Events, Files
<1>2. Len(file[0]) \in Nat /\ Len(file[0]) <= Capacity
  BY DEF JournalInv, JournalTypeOK, Files, Filled, FilesAreBounded
<1>3. ASSUME NEW q \in Writers
      PROVE  /\ writing'[q] \in {"rotate", "write"} => flock' = q
             /\ writing'[q] = "rotate" =>
                  /\ slot'[q] \in 1..Backups
                  /\ ~torn' /\ Len(file'[0]) = Capacity
                  /\ slot'[q] < Backups => file'[slot'[q]] = <<>>
             /\ writing'[q] = "write" => torn' \/ Len(file'[0]) < Capacity
             /\ writing'[q] # "no" => event'[q] # "none"
  <2>1. CASE q = p
    <3>1. /\ writing'[p] = IF Full THEN "rotate" ELSE "write"
          /\ slot'[p] = IF Full THEN Backups ELSE 0
          /\ event'[p] # "none"
      BY DEF JournalInv, JournalTypeOK, Appending
    <3>2. /\ Full => ~torn /\ Len(file[0]) = Capacity
          /\ ~Full => torn \/ Len(file[0]) < Capacity
      <4>1. CASE torn
        BY <1>2, <4>1 DEF Full
      <4>2. CASE ~torn
        BY <1>2, <4>2 DEF Full
      <4> QED
        BY <4>1, <4>2
    <3> QED
      BY <2>1, <3>1, <3>2
  <2>2. CASE q # p
    <3>1. writing[q] \notin {"rotate", "write"}
      BY <2>2, OneAppends
    <3> QED
      BY <2>2, <3>1 DEF JournalInv, JournalTypeOK, Appending
  <2> QED
    BY <2>1, <2>2
<1>4. Appending'
  BY <1>3 DEF Appending
<1> QED
  BY <1>1, <1>4, OrderStays, LossStays DEF JournalInv

\* A return, or a kill, lets go of the lock and leaves the others alone.
LEMMA ReturnKeepsAppending ==
  ASSUME JournalInv, NEW p \in Writers, Return(p),
         writing[p] \in {"rotate", "write"} \/ UNCHANGED <<file, torn>>,
         flock' = flock \/ (flock = p /\ flock' = Free)
  PROVE  Appending'
<1> SUFFICES ASSUME NEW q \in Writers
             PROVE  /\ writing'[q] \in {"rotate", "write"} => flock' = q
                    /\ writing'[q] = "rotate" =>
                         /\ slot'[q] \in 1..Backups
                         /\ ~torn' /\ Len(file'[0]) = Capacity
                         /\ slot'[q] < Backups => file'[slot'[q]] = <<>>
                    /\ writing'[q] = "write" => torn' \/ Len(file'[0]) < Capacity
                    /\ writing'[q] # "no" => event'[q] # "none"
  BY DEF Appending
<1>1. CASE q = p
  BY <1>1 DEF JournalInv, JournalTypeOK, Return
<1>2. CASE q # p
  <2>1. /\ writing'[q] = writing[q] /\ slot'[q] = slot[q] /\ event'[q] = event[q]
    BY <1>2 DEF Return, JournalInv, JournalTypeOK, Events
  <2>2. CASE writing[p] \in {"rotate", "write"}
    <3>1. writing[q] \notin {"rotate", "write"}
      BY <1>2, <2>2, OneAppends
    <3> QED
      BY <2>1, <3>1 DEF JournalInv, Appending
  <2>3. CASE UNCHANGED <<file, torn>>
    BY <1>2, <2>1, <2>3 DEF JournalInv, Appending
  <2> QED
    BY <2>2, <2>3
<1> QED
  BY <1>1, <1>2

LEMMA AbandonKeeps ==
  ASSUME JournalInv, NEW p \in Writers, Abandon(p)
  PROVE  JournalInv'
<1> USE DEF Abandon, Return, diskVars, readerVars, historyVars
<1>1. JournalTypeOK' /\ Events'
  BY JournalAssumption DEF JournalInv, JournalTypeOK, Events, Files
<1>2. Appending'
  BY ReturnKeepsAppending
<1> QED
  BY <1>1, <1>2, OrderStays, LossStays DEF JournalInv

\* What an append that returns adds to the events of its writer.  A part of a line
\* is left only where the event becomes "lost", and no event becomes "spoilt" but
\* behind one.
LEMMA FatesGrow ==
  ASSUME JournalInv, NEW p \in Writers, NEW f \in Fates, Becomes(p, f)
  PROVE  /\ recorded' \in [Writers -> Seq(Fates)]
         /\ recorded'[p] = Append(recorded[p], f)
         /\ Has(p, f)'
         /\ \A q \in Writers, g \in Fates : Has(q, g) => Has(q, g)'
         /\ \A q \in Writers, g \in Fates : Has(q, g)' => Has(q, g) \/ g = f
<1>1. recorded \in [Writers -> Seq(Fates)] /\ recorded[p] \in Seq(Fates)
  BY DEF JournalInv, Events
<1>2. /\ recorded' = [recorded EXCEPT ![p] = Append(recorded[p], f)]
      /\ recorded'[p] = Append(recorded[p], f)
      /\ \A q \in Writers \ {p} : recorded'[q] = recorded[q]
  BY <1>1 DEF Becomes
<1> DEFINE s == recorded[p]
<1>3. Append(s, f) \in Seq(Fates)
  BY <1>1
<1>4. /\ Len(s) \in Nat /\ DOMAIN s = 1..Len(s)
      /\ DOMAIN Append(s, f) = 1..Len(s) + 1
      /\ Append(s, f)[Len(s) + 1] = f
      /\ \A i \in 1..Len(s) : Append(s, f)[i] = s[i]
  BY <1>1
<1>5. recorded' \in [Writers -> Seq(Fates)]
  BY <1>1, <1>2, <1>3
<1>6. Has(p, f)'
  <2>1. Len(s) + 1 \in DOMAIN recorded'[p] /\ recorded'[p][Len(s) + 1] = f
    BY <1>2, <1>4
  <2> QED
    BY <2>1 DEF Has
<1>7. ASSUME NEW q \in Writers, NEW g \in Fates, Has(q, g)
      PROVE  Has(q, g)'
  <2>1. CASE q = p
    <3>1. PICK i \in DOMAIN s : s[i] = g
      BY <1>7, <2>1 DEF Has
    <3>2. i \in DOMAIN recorded'[p] /\ recorded'[p][i] = g
      BY <1>2, <1>4, <3>1
    <3> QED
      BY <2>1, <3>2 DEF Has
  <2>2. CASE q # p
    BY <1>2, <1>7, <2>2 DEF Has
  <2> QED
    BY <2>1, <2>2
<1>8. ASSUME NEW q \in Writers, NEW g \in Fates, Has(q, g)'
      PROVE  Has(q, g) \/ g = f
  <2>1. CASE q = p
    <3>1. PICK i \in DOMAIN recorded'[p] : recorded'[p][i] = g
      BY <1>8, <2>1 DEF Has
    <3>2. CASE i = Len(s) + 1
      BY <1>2, <1>4, <3>1, <3>2
    <3>3. CASE i # Len(s) + 1
      <4>1. i \in DOMAIN s /\ s[i] = g
        BY <1>2, <1>4, <3>1, <3>3
      <4> QED
        BY <2>1, <4>1 DEF Has
    <3> QED
      BY <3>2, <3>3
  <2>2. CASE q # p
    BY <1>2, <1>8, <2>2 DEF Has
  <2> QED
    BY <2>1, <2>2
<1> QED
  BY <1>2, <1>5, <1>6, <1>7, <1>8

LEMMA WriteKeeps ==
  ASSUME JournalInv, NEW p \in Writers, Write(p) \/ WriteFails(p)
  PROVE  JournalInv'
<1> USE DEF Write, WriteFails, Leave, Return, diskVars, readerVars, historyVars
<1>1. /\ writing[p] = "write" /\ flock = p /\ flock' = Free
      /\ torn \/ Len(file[0]) < Capacity
      /\ event[p] \in Kinds
  BY DEF JournalInv, Appending, Events
<1>2. UNCHANGED <<file, begun>> \/ (~torn /\ file' = Line /\ begun' = begun + 1)
  OBVIOUS
<1>6. PICK f \in Fates :
        /\ Becomes(p, f)
        /\ f = "spoilt" => torn
        /\ torn' => torn \/ f = "lost"
  BY <1>1 DEF Fates, Kinds
<1>3. /\ file' \in [Files -> Seq(Nat)] /\ begun' \in Nat
      /\ Filled' /\ Ordered' /\ Reading' /\ RecentInOrder'
  <2>1. CASE UNCHANGED <<file, begun>>
    BY <2>1, OrderStays DEF JournalInv, JournalTypeOK
  <2>2. CASE ~torn /\ file' = Line /\ begun' = begun + 1
    BY <1>1, <2>2, BeginLine
  <2> QED
    BY <1>2, <2>1, <2>2
<1>4. JournalTypeOK' /\ Events'
  <2>1. recorded' \in [Writers -> Seq(Fates)]
    BY <1>6, FatesGrow
  <2>2. event' \in [Writers -> Kinds \cup {"none"}]
    BY DEF JournalInv, Events
  <2>3. /\ writing' = [writing EXCEPT ![p] = "no"]
        /\ slot' = [slot EXCEPT ![p] = 0]
        /\ 0 \in Files
    BY JournalAssumption DEF Files
  <2>4. torn' \in BOOLEAN
    BY DEF JournalInv, JournalTypeOK
  <2>5. UNCHANGED <<left, got>> /\ flock' \in Writers \cup {Free}
    BY <1>1
  <2> HIDE DEF Write, WriteFails, Leave, Return
  <2>6. /\ writing' \in [Writers -> {"no", "enter", "rotate", "write"}]
        /\ slot' \in [Writers -> Files]
    BY <2>3 DEF JournalInv, JournalTypeOK
  <2> QED
    BY <1>3, <2>1, <2>2, <2>4, <2>5, <2>6 DEF JournalInv, JournalTypeOK, Events
<1>5. Appending'
  BY <1>1, ReturnKeepsAppending
<1>7. LossIsTold'
  <2> HIDE DEF Write, WriteFails, Leave, Return
  <2>1. ASSUME torn' \/ \E q \in Writers : Has(q, "spoilt")'
        PROVE  \E q \in Writers : Has(q, "lost")'
    <3>1. f = "lost" \/ torn \/ \E q \in Writers : Has(q, "spoilt")
      BY <1>6, <2>1, FatesGrow DEF Fates
    <3>2. CASE f = "lost"
      BY <1>6, <3>2, FatesGrow
    <3>3. CASE torn \/ \E q \in Writers : Has(q, "spoilt")
      <4>1. PICK q \in Writers : Has(q, "lost")
        BY <3>3 DEF JournalInv, LossIsTold
      <4> QED
        BY <1>6, <4>1, FatesGrow DEF Fates
    <3> QED
      BY <3>1, <3>2, <3>3
  <2> QED
    BY <2>1 DEF LossIsTold
<1> QED
  BY <1>3, <1>4, <1>5, <1>7 DEF JournalInv

\* A line that is renamed stays in its place among the lines, and behind a reader
\* that has passed it.
LEMMA RotateKeeps ==
  ASSUME JournalInv, NEW p \in Writers, Rotate(p)
  PROVE  JournalInv'
<1> USE JournalAssumption DEF Files
<1> DEFINE s == slot[p]
<1>1. /\ writing[p] = "rotate" /\ flock = p
      /\ s \in 1..Backups /\ s - 1 \in Files /\ s \in Files /\ s # s - 1
      /\ ~torn /\ Len(file[0]) = Capacity
      /\ s < Backups => file[s] = <<>>
  BY DEF Rotate, JournalInv, Appending
<1>2. file \in [Files -> Seq(Nat)] /\ begun \in Nat
  BY DEF JournalInv, JournalTypeOK
<1>3. /\ UNCHANGED <<flock, event, left, got, begun, recorded>> /\ torn' = FALSE
      /\ slot' = [slot EXCEPT ![p] = s - 1]
      /\ writing' = [writing EXCEPT ![p] = IF s = 1 THEN "write" ELSE "rotate"]
  BY <1>1 DEF Rotate, readerVars, historyVars
<1>4. \/ file[s - 1] = <<>> /\ file' = file
      \/ file[s - 1] # <<>> /\ file' = [file EXCEPT ![s] = file[s - 1], ![s - 1] = <<>>]
  BY DEF Rotate, Target
<1>5. /\ file' \in [Files -> Seq(Nat)]
      /\ file'[s - 1] = <<>>
      /\ file'[s] \in {file[s], file[s - 1]}
      /\ \A k \in Files \ {s, s - 1} : file'[k] = file[k]
  <2>1. CASE file[s - 1] = <<>> /\ file' = file
    BY <1>1, <1>2, <2>1
  <2>2. CASE file' = [file EXCEPT ![s] = file[s - 1], ![s - 1] = <<>>]
    <3>1. <<>> \in Seq(Nat)
      OBVIOUS
    <3> QED
      BY <1>1, <1>2, <2>2, <3>1
  <2> QED
    BY <1>4, <2>1, <2>2
<1>6. JournalTypeOK' /\ Events'
  BY <1>1, <1>3, <1>5 DEF JournalInv, JournalTypeOK, Events
<1>7. Appending'
  <2> SUFFICES ASSUME NEW q \in Writers
               PROVE  /\ writing'[q] \in {"rotate", "write"} => flock' = q
                      /\ writing'[q] = "rotate" =>
                           /\ slot'[q] \in 1..Backups
                           /\ ~torn' /\ Len(file'[0]) = Capacity
                           /\ slot'[q] < Backups => file'[slot'[q]] = <<>>
                      /\ writing'[q] = "write" => torn' \/ Len(file'[0]) < Capacity
                      /\ writing'[q] # "no" => event'[q] # "none"
    BY DEF Appending
  <2>1. CASE q # p
    <3>1. writing[q] \notin {"rotate", "write"}
      BY <1>1, <2>1, OneAppends
    <3> QED
      BY <1>3, <2>1, <3>1 DEF JournalInv, JournalTypeOK, Appending
  <2>2. CASE q = p
    <3>1. /\ writing'[p] = IF s = 1 THEN "write" ELSE "rotate"
          /\ slot'[p] = s - 1
          /\ event'[p] # "none"
      BY <1>1, <1>3 DEF JournalInv, JournalTypeOK, Appending
    <3>2. s = 1 => file'[0] = <<>> /\ Len(file'[0]) = 0
      BY <1>5
    <3>3. s > 1 => file'[0] = file[0]
      <4>1. s > 1 => 0 \in Files \ {s, s - 1}
        BY <1>1
      <4> QED
        BY <1>5, <4>1
    <3>4. s # 1 => s > 1 /\ s - 1 \in 1..Backups
      BY <1>1
    <3> QED
      BY <1>1, <1>3, <1>5, <2>2, <3>1, <3>2, <3>3, <3>4
  <2> QED
    BY <2>1, <2>2
<1>8. Filled'
  <2>1. \A k \in Files : file[k] = <<>> \/ Len(file[k]) = Capacity \/ k = 0
    BY DEF JournalInv, Filled
  <2>2. file[s - 1] = <<>> \/ Len(file[s - 1]) = Capacity
    BY <1>1, <2>1
  <2>3. Len(<<>>) = 0 /\ \A k \in Files : Len(file[k]) <= Capacity
    BY DEF JournalInv, Filled, FilesAreBounded
  <2>4. ASSUME NEW k \in Files
        PROVE  /\ Len(file'[k]) <= Capacity
               /\ k # 0 => file'[k] = <<>> \/ Len(file'[k]) = Capacity
    <3>1. CASE k = s
      BY <1>1, <1>5, <2>1, <2>2, <2>3, <3>1
    <3>2. CASE k = s - 1
      BY <1>5, <2>3, <3>2
    <3>3. CASE k \notin {s, s - 1}
      BY <1>5, <2>1, <2>3, <3>3
    <3> QED
      BY <3>1, <3>2, <3>3
  <2> QED
    BY <2>4 DEF Filled, FilesAreBounded
<1>9. Ordered' /\ Reading' /\ RecentInOrder'
  <2>1. CASE file' = file
    BY <1>3, <2>1, OrderStays
  <2>2. CASE file' = [file EXCEPT ![s] = file[s - 1], ![s - 1] = <<>>]
    <3> DEFINE From(k) == IF k = s THEN s - 1 ELSE k
    <3>1. ASSUME NEW k \in Files, NEW i \in DOMAIN file'[k]
          PROVE  /\ k # s - 1 /\ From(k) \in Files /\ From(k) <= k
                 /\ i \in DOMAIN file[From(k)] /\ file'[k][i] = file[From(k)][i]
      <4>1. k # s - 1
        BY <1>5
      <4>2. file'[k] = file[From(k)]
        BY <1>1, <1>2, <2>2, <4>1
      <4> QED
        BY <1>1, <4>1, <4>2
    <3>2. FilesInOrder'
      <4> SUFFICES ASSUME NEW k \in Files, NEW l \in Files,
                          NEW i \in DOMAIN file'[k], NEW j \in DOMAIN file'[l],
                          k > l \/ (k = l /\ i < j)
                   PROVE  file'[k][i] < file'[l][j]
        BY DEF FilesInOrder
      <4>1. From(k) > From(l) \/ (From(k) = From(l) /\ i < j)
        BY <1>1, <3>1
      <4> HIDE DEF From
      <4>2. file[From(k)][i] < file[From(l)][j]
        BY <3>1, <4>1 DEF JournalInv, Ordered, FilesInOrder
      <4> QED
        BY <3>1, <4>2
    <3> HIDE DEF From
    <3>3. \A k \in Files : \A i \in DOMAIN file'[k] : file'[k][i] \in 1..begun'
      BY <1>3, <3>1 DEF JournalInv, Ordered
    <3>4. ASSUME NEW r \in Readers, NEW i \in DOMAIN got[r],
                 NEW k \in Files, NEW j \in DOMAIN file'[k], k < left[r]
          PROVE  got[r][i] < file'[k][j]
      <4>1. From(k) \in Files /\ From(k) < left[r]
        BY <3>1, <3>4 DEF JournalInv, JournalTypeOK
      <4> QED
        BY <3>1, <4>1 DEF JournalInv, Reading
    <3>5. Reading'
      BY <1>3, <3>4 DEF JournalInv, Reading
    <3>6. RecentInOrder'
      BY <1>3 DEF JournalInv, RecentInOrder
    <3> QED
      BY <3>2, <3>3, <3>5, <3>6 DEF Ordered
  <2> QED
    BY <1>4, <2>1, <2>2
<1> QED
  BY <1>3, <1>6, <1>7, <1>8, <1>9, LossStays DEF JournalInv

\* A reader gets newer lines than it has, in their order, and none that it has
\* still to read.
LEMMA ReadFileKeeps ==
  ASSUME JournalInv, NEW r \in Readers, ReadFile(r)
  PROVE  JournalInv'
<1> USE JournalAssumption DEF Files
<1> DEFINE n == left[r] - 1
           old == got[r]
<1>1. /\ file \in [Files -> Seq(Nat)]
      /\ old \in Seq(Nat) /\ file[n] \in Seq(Nat)
      /\ n \in Files /\ left[r] = n + 1
  BY DEF ReadFile, JournalInv, JournalTypeOK
<1>2. /\ got' = [got EXCEPT ![r] = old \o file[n]]
      /\ left' = [left EXCEPT ![r] = n]
      /\ UNCHANGED <<diskVars, flock, writing, slot, event, historyVars>>
  BY DEF ReadFile, NextFile
<1>3. /\ got'[r] = old \o file[n] /\ got'[r] \in Seq(Nat)
      /\ left'[r] = n
      /\ \A q \in Readers \ {r} : got'[q] = got[q] /\ left'[q] = left[q]
  <2>1. got \in [Readers -> Seq(Nat)] /\ left \in [Readers -> 0..Backups + 1]
    BY DEF JournalInv, JournalTypeOK
  <2>2. got'[r] = old \o file[n] /\ \A q \in Readers \ {r} : got'[q] = got[q]
    BY <1>2, <2>1
  <2>3. left'[r] = n /\ \A q \in Readers \ {r} : left'[q] = left[q]
    BY <1>2, <2>1
  <2>4. old \o file[n] \in Seq(Nat)
    BY <1>1
  <2> QED
    BY <2>2, <2>3, <2>4
<1>4. JournalTypeOK' /\ Events'
  <2>1. got' \in [Readers -> Seq(Nat)] /\ left' \in [Readers -> 0..Backups + 1]
    BY <1>1, <1>2, <1>3 DEF JournalInv, JournalTypeOK
  <2> QED
    BY <1>2, <2>1 DEF JournalInv, JournalTypeOK, Events, diskVars, historyVars
<1>5. Appending' /\ Filled' /\ Ordered'
  BY <1>2 DEF JournalInv, Appending, Filled, FilesAreBounded, Ordered, FilesInOrder,
              diskVars, historyVars
<1>6. ASSUME NEW i \in DOMAIN got'[r]
      PROVE  \/ i \in DOMAIN old /\ got'[r][i] = old[i]
             \/ /\ i > Len(old) /\ i - Len(old) \in DOMAIN file[n]
                /\ got'[r][i] = file[n][i - Len(old)]
  <2> DEFINE new == file[n]
  <2>1. got'[r] = old \o new /\ old \in Seq(Nat) /\ new \in Seq(Nat)
    BY <1>1, <1>3
  <2>2. i \in DOMAIN (old \o new)
    BY <1>6, <2>1
  <2> HIDE DEF old, new
  <2>3. /\ Len(old) \in Nat /\ DOMAIN old = 1..Len(old)
        /\ Len(new) \in Nat /\ DOMAIN new = 1..Len(new)
    BY <2>1
  <2>4. /\ Len(old \o new) = Len(old) + Len(new)
        /\ DOMAIN (old \o new) = 1..Len(old) + Len(new)
    BY <2>1
  <2>5. i \in 1..Len(old) + Len(new)
    BY <2>2, <2>4
  <2>6. (old \o new)[i] = IF i <= Len(old) THEN old[i] ELSE new[i - Len(old)]
    BY <2>1, <2>5, ConcatProperties
  <2>7. \/ i \in DOMAIN old /\ (old \o new)[i] = old[i]
        \/ i > Len(old) /\ i - Len(old) \in DOMAIN new /\ (old \o new)[i] = new[i - Len(old)]
    BY <2>3, <2>5, <2>6
  <2> QED
    BY <2>1, <2>7 DEF new
<1>7. Reading'
  <2> SUFFICES ASSUME NEW q \in Readers, NEW i \in DOMAIN got'[q]
               PROVE  /\ got'[q][i] \in 1..begun'
                      /\ \A k \in Files : \A j \in DOMAIN file'[k] :
                           k < left'[q] => got'[q][i] < file'[k][j]
    BY DEF Reading
  <2>1. UNCHANGED <<file, begun>>
    BY <1>2 DEF diskVars, historyVars
  <2>2. CASE q # r
    BY <1>3, <2>1, <2>2 DEF JournalInv, Reading
  <2>3. CASE q = r /\ i \in DOMAIN old /\ got'[r][i] = old[i]
    <3>1. /\ old[i] \in 1..begun
          /\ \A k \in Files : \A j \in DOMAIN file[k] : k < n + 1 => old[i] < file[k][j]
      BY <1>1, <2>3 DEF JournalInv, Reading
    <3>2. \A k \in Files : k < n => k < n + 1
      BY <1>1
    <3> QED
      BY <1>3, <2>1, <2>3, <3>1, <3>2
  <2>4. CASE /\ q = r /\ i > Len(old) /\ i - Len(old) \in DOMAIN file[n]
             /\ got'[r][i] = file[n][i - Len(old)]
    BY <1>1, <1>3, <2>1, <2>4 DEF JournalInv, Ordered, FilesInOrder
  <2> QED
    BY <1>6, <2>2, <2>3, <2>4
<1>8. RecentInOrder'
  <2> SUFFICES ASSUME NEW q \in Readers, NEW i \in DOMAIN got'[q], NEW j \in DOMAIN got'[q],
                      i < j
               PROVE  got'[q][i] < got'[q][j]
    BY DEF RecentInOrder
  <2>1. CASE q # r
    BY <1>3, <2>1 DEF JournalInv, RecentInOrder
  <2>2. CASE q = r
    <3>0. Len(old) \in Nat /\ i \in Nat /\ j \in Nat
      <4>1. DOMAIN got'[r] = 1..Len(got'[r]) /\ Len(old) \in Nat
        BY <1>1, <1>3
      <4> QED
        BY <2>2, <4>1
    <3>1. CASE j \in DOMAIN old /\ got'[r][j] = old[j]
      <4>1. i \in DOMAIN old /\ got'[r][i] = old[i]
        <5>1. j <= Len(old)
          BY <1>1, <3>1
        <5>2. ~(i > Len(old))
          BY <3>0, <5>1
        <5> QED
          BY <1>6, <2>2, <5>2
      <4> QED
        BY <2>2, <3>1, <4>1 DEF JournalInv, RecentInOrder
    <3>2. CASE /\ j > Len(old) /\ j - Len(old) \in DOMAIN file[n]
               /\ got'[r][j] = file[n][j - Len(old)]
      <4>1. CASE i \in DOMAIN old /\ got'[r][i] = old[i]
        BY <1>1, <2>2, <3>2, <4>1 DEF JournalInv, Reading
      <4>2. CASE /\ i > Len(old) /\ i - Len(old) \in DOMAIN file[n]
                 /\ got'[r][i] = file[n][i - Len(old)]
        <5>1. i - Len(old) < j - Len(old)
          BY <3>0
        <5> QED
          BY <1>1, <2>2, <3>2, <4>2, <5>1 DEF JournalInv, Ordered, FilesInOrder
      <4> QED
        BY <1>6, <2>2, <4>1, <4>2
    <3> QED
      BY <1>6, <2>2, <3>1, <3>2
  <2> QED
    BY <2>1, <2>2
<1>9. LossIsTold'
  BY LossStays DEF ReadFile, diskVars, historyVars
<1> QED
  BY <1>4, <1>5, <1>7, <1>8, <1>9 DEF JournalInv

LEMMA WorkKeeps ==
  ASSUME JournalInv, NEW p \in Writers, Work(p)
  PROVE  JournalInv'
BY EnterKeeps, RotateKeeps, WriteKeeps DEF Work

-----------------------------------------------------------------------------
(* The handshake.                                                          *)

LEMMA HandshakeStarts ==
  ASSUME Init
  PROVE  HandshakeInv
<1> USE DEF Init
<1>1. JournalInv
  BY JournalStarts
<1>2. \A p \in Attempts : heard[p] = <<>> /\ DOMAIN heard[p] = {}
  OBVIOUS
<1>3. LoopTypeOK
  <2>1. <<>> \in Seq(Messages)
    OBVIOUS
  <2> QED
    BY <2>1 DEF LoopTypeOK, Stages, Findings
<1>4. ASSUME NEW p \in Attempts
      PROVE  Hears(p) /\ Stops(p) /\ Journals(p)
  <2>1. Hears(p)
    BY <1>2 DEF Hears, Greeted, Where
  <2>2. Stops(p)
    BY DEF Stops
  <2>3. recorded[p] = <<>> /\ Len(recorded[p]) = 0 /\ event[p] = "none" /\ finding[p] = "none"
    BY HandshakeAssumption DEF JournalInit
  <2>4. OnlyBegun(recorded[p], 0)
    BY DEF OnlyBegun
  <2>5. Journals(p)
    BY <2>3, <2>4 DEF Journals, Told, Failures
  <2> QED
    BY <2>1, <2>2, <2>5
<1> QED
  BY <1>1, <1>3, <1>4 DEF HandshakeInv

\* A step of somebody else.
LEMMA OthersStay ==
  ASSUME HandshakeInv, NEW q \in Attempts,
         UNCHANGED <<pc[q], back[q], broker[q], finding[q], heard[q]>>,
         UNCHANGED <<writing[q], event[q], recorded[q]>>,
         q \in initialized' <=> q \in initialized
  PROVE  Hears(q)' /\ Stops(q)' /\ Journals(q)'
<1>1. Hears(q) /\ Stops(q) /\ Journals(q)
  BY DEF HandshakeInv
<1>2. Hears(q)'
  BY <1>1 DEF Hears, Greeted, Earned, Where
<1>3. Stops(q)'
  BY <1>1 DEF Stops
<1>4. Journals(q)'
  BY <1>1 DEF Journals, Told, Idle, Verdict
<1> QED
  BY <1>2, <1>3, <1>4

LEMMA SubmitEffect ==
  ASSUME JournalInv, NEW p \in Writers, NEW e, Submit(p, e)
  PROVE  /\ writing'[p] = "enter" /\ event'[p] = e
         /\ UNCHANGED recorded
         /\ \A q \in Writers \ {p} : UNCHANGED <<writing[q], event[q]>>
BY DEF Submit, JournalInv, JournalTypeOK, Events, historyVars

\* What an attempt does with the journal, and what it cannot touch.
LEMMA AttemptSteps ==
  ASSUME HandshakeInv, NEW p \in Attempts, Attempt(p)
  PROVE  /\ JournalInv'
         /\ LoopTypeOK'
         /\ \A q \in Attempts \ {p} : Hears(q)' /\ Stops(q)' /\ Journals(q)'
<1> USE DEF Attempt, Loop, Stop, Begin, Greet, TimeOut, Select, Poll, Read, Close, Wait, Term,
            Kill, GiveUp, Judge, Finally, Handle, Answered, Listed, Fails, Raises, Finds, Goto,
            Quiet, At, loopVars
<1>1. JournalInv /\ LoopTypeOK /\ p \in Writers
  BY HandshakeAssumption DEF HandshakeInv
<1>2. Quiet \/ \E e \in Kinds \ {"none", "note"} : Submit(p, e)
  BY DEF Kinds
<1>3. JournalInv'
  BY <1>1, <1>2, JournalStays, SubmitKeeps
<1>4. LoopTypeOK'
  <2>1. pc' \in [Attempts -> Stages]
    <3>1. back[p] \in Stages
      BY <1>1 DEF LoopTypeOK, Stages
    <3>2. \E l \in Stages : pc' = [pc EXCEPT ![p] = l]
      BY <3>1 DEF Stages
    <3> QED
      BY <1>1, <3>2 DEF LoopTypeOK
  <2>2. back' \in [Attempts -> {"judge", "finally", "done"}]
    BY <1>1 DEF LoopTypeOK
  <2>3. broker' \in [Attempts -> {"none", "running", "dying", "zero", "nonzero", "killed"}]
    BY <1>1 DEF LoopTypeOK
  <2>4. initialized' \subseteq Attempts
    BY <1>1 DEF LoopTypeOK
  <2>5. finding' \in [Attempts -> Findings]
    BY <1>1 DEF LoopTypeOK, Findings, Failures
  <2>6. heard' \in [Attempts -> Seq(Messages)]
    <3>1. heard' = heard \/ \E m \in Messages : heard' = [heard EXCEPT ![p] = Append(heard[p], m)]
      OBVIOUS
    <3>2. \A m \in Messages : Append(heard[p], m) \in Seq(Messages)
      BY <1>1 DEF LoopTypeOK
    <3>3. heard \in [Attempts -> Seq(Messages)]
      BY <1>1 DEF LoopTypeOK
    <3>4. CASE heard' = heard
      BY <3>3, <3>4
    <3>5. ASSUME NEW m \in Messages, heard' = [heard EXCEPT ![p] = Append(heard[p], m)]
          PROVE  heard' \in [Attempts -> Seq(Messages)]
      <4> HIDE DEF Attempt
      <4> QED
        BY <3>2, <3>3, <3>5
    <3> HIDE DEF Attempt
    <3> QED
      BY <3>1, <3>4, <3>5
  <2> QED
    BY <2>1, <2>2, <2>3, <2>4, <2>5, <2>6 DEF LoopTypeOK
<1>5. ASSUME NEW q \in Attempts \ {p}
      PROVE  Hears(q)' /\ Stops(q)' /\ Journals(q)'
  <2>1. UNCHANGED <<pc[q], back[q], broker[q]>>
    BY <1>1 DEF LoopTypeOK
  <2>2. UNCHANGED <<finding[q], heard[q]>> /\ (q \in initialized' <=> q \in initialized)
    BY <1>1 DEF LoopTypeOK
  <2>3. UNCHANGED <<writing[q], event[q], recorded[q]>>
    <3>1. CASE Quiet
      BY <3>1 DEF journalVars, historyVars
    <3>2. CASE \E e \in Kinds : Submit(p, e)
      BY <1>1, <3>2, SubmitEffect, HandshakeAssumption
    <3> QED
      BY <1>2, <3>1, <3>2
  <2> QED
    BY <2>1, <2>2, <2>3, OthersStay
<1> QED
  BY <1>3, <1>4, <1>5

\* A message is handled.
LEMMA ReadHears ==
  ASSUME HandshakeInv, NEW p \in Attempts, Read(p)
  PROVE  Hears(p)'
<1> DEFINE h == heard[p]
           n == Len(h)
<1>1. LoopTypeOK /\ Hears(p)
  BY DEF HandshakeInv
<1>2. PICK m \in Messages : Handle(p, m) /\ heard' = [heard EXCEPT ![p] = Append(h, m)]
  BY DEF Read
<1>3. h \in Seq(Messages) /\ n \in Nat /\ DOMAIN h = 1..n
  BY <1>1 DEF LoopTypeOK
<1>4. /\ heard'[p] = Append(h, m)
      /\ Len(heard'[p]) = n + 1 /\ DOMAIN heard'[p] = 1..n + 1
      /\ heard'[p][n + 1] = m
      /\ \A i \in 1..n : heard'[p][i] = h[i]
  BY <1>1, <1>2, <1>3 DEF LoopTypeOK
<1>5. /\ finding[p] = "none"
      /\ \A i \in 1..n : h[i] = "initialized"
      /\ p \in initialized => n > 0
  BY <1>1, <1>3 DEF Read, At, Hears, Greeted
<1> HIDE DEF h, n
<1>6. CASE m = "initialized" /\ Answered(p)
  <2>1. \/ pc'[p] = "finally" /\ finding'[p] = "raised"
        \/ pc'[p] = "loop" /\ finding'[p] = "none"
    BY <1>1, <1>5, <1>6 DEF Answered, Raises, Finds, Goto, LoopTypeOK
  <2>2. Greeted(p)'
    BY <1>3, <1>4, <1>5, <1>6 DEF Greeted
  <2> QED
    BY <2>1, <2>2 DEF Hears, Where
<1>7. CASE m = "tools" /\ p \in initialized /\ Fails(p, "none")
  <2>1. pc'[p] = "close" /\ finding'[p] = "none"
    BY <1>1, <1>7 DEF Fails, Finds, Goto, LoopTypeOK
  <2>2. Earned(p)'
    BY <1>3, <1>4, <1>5, <1>7 DEF Earned
  <2> QED
    BY <2>1, <2>2 DEF Hears, Where
<1>8. CASE \E f \in Failures : Fails(p, f)
  <2>1. pc'[p] = "close" /\ finding'[p] \in Failures
    BY <1>1, <1>8 DEF Fails, Finds, Goto, LoopTypeOK
  <2> QED
    BY <2>1 DEF Hears, Where, Failures
<1> QED
  BY <1>2, <1>6, <1>7, <1>8 DEF Handle, Listed, Failures

LEMMA AttemptHears ==
  ASSUME HandshakeInv, NEW p \in Attempts, Attempt(p)
  PROVE  Hears(p)'
<1> USE DEF At, Finds, Goto, Fails, Raises, loopVars
<1>1. LoopTypeOK /\ Hears(p)
  BY DEF HandshakeInv
<1>2. CASE Read(p)
  BY <1>2, ReadHears
<1>3. CASE Begin(p) \/ Greet(p)
  BY <1>1, <1>3 DEF Begin, Greet, LoopTypeOK, Hears, Where, Greeted
<1>4. CASE TimeOut(p) \/ Select(p) \/ Poll(p)
  BY <1>1, <1>4 DEF TimeOut, Select, Poll, LoopTypeOK, Hears, Where, Greeted, Failures
<1>5. ASSUME UNCHANGED <<heard, finding, initialized>>,
             Where(p)' \in {"wait", "judge"} =>
               Where(p) \in {"close", "wait", "judge"} /\ finding[p] = "none",
             pc'[p] \notin {"begin", "greet", "loop", "poll", "close"},
             Where(p)' # "close"
      PROVE  Hears(p)'
  BY <1>1, <1>5 DEF Hears, Earned
<1>6. CASE Close(p)
  BY <1>1, <1>5, <1>6 DEF Close, Hears, Where, LoopTypeOK
<1>7. CASE Wait(p) \/ Stop(p) \/ Finally(p)
  BY <1>1, <1>5, <1>7 DEF Wait, Stop, Term, Kill, GiveUp, Finally, Hears, Where, LoopTypeOK
<1>8. CASE Judge(p)
  <2>1. pc'[p] = "finally" /\ heard' = heard /\ Earned(p)
    BY <1>1, <1>8 DEF Judge, Hears, Where, LoopTypeOK
  <2> QED
    BY <2>1 DEF Hears, Where, Earned
<1> QED
  BY <1>2, <1>3, <1>4, <1>6, <1>7, <1>8 DEF Attempt, Loop

LEMMA AttemptStops ==
  ASSUME HandshakeInv, NEW p \in Attempts, Attempt(p)
  PROVE  Stops(p)'
<1> USE DEF At, Finds, Goto, Fails, Raises, loopVars, Exited, Stops
<1>1. LoopTypeOK /\ Hears(p) /\ Stops(p)
  BY DEF HandshakeInv
<1>2. CASE Begin(p) \/ Greet(p)
  <2>1. finding[p] = "none" /\ finding'[p] # "healthy"
    BY <1>1, <1>2 DEF Begin, Greet, LoopTypeOK, Hears
  <2>2. CASE Begin(p)
    <3>1. \/ pc'[p] = "done" /\ broker' = broker
          \/ pc'[p] = "greet" /\ broker'[p] = "running"
      BY <1>1, <2>2 DEF Begin, LoopTypeOK
    <3> QED
      BY <1>1, <2>1, <2>2, <3>1 DEF Begin
  <2>3. CASE Greet(p)
    <3>1. pc'[p] \in {"loop", "finally"} /\ broker' = broker
      BY <1>1, <2>3 DEF Greet, LoopTypeOK
    <3> QED
      BY <1>1, <2>1, <2>3, <3>1 DEF Greet
  <2> QED
    BY <1>2, <2>2, <2>3
<1>3. CASE Loop(p)
  <2>1. /\ pc[p] \in {"loop", "poll"} /\ pc'[p] \in {"loop", "poll", "close", "finally"}
        /\ finding'[p] \in Failures \cup {"raised", "none"}
        /\ UNCHANGED broker
    BY <1>1, <1>3 DEF Loop, TimeOut, Select, Poll, Read, Handle, Answered, Listed, LoopTypeOK,
                      Hears, Failures
  <2> QED
    BY <1>1, <2>1 DEF Failures
<1>4. CASE Close(p) \/ Wait(p)
  BY <1>1, <1>4 DEF Close, Wait, LoopTypeOK
<1>5. CASE Term(p)
  BY <1>1, <1>5 DEF Term, LoopTypeOK
<1>6. CASE Kill(p)
  BY <1>1, <1>6 DEF Kill, LoopTypeOK
<1>7. CASE GiveUp(p)
  BY <1>1, <1>7 DEF GiveUp, LoopTypeOK
<1>8. CASE Judge(p) \/ Finally(p)
  BY <1>1, <1>8 DEF Judge, Finally, LoopTypeOK
<1> QED
  BY <1>2, <1>3, <1>4, <1>5, <1>6, <1>7, <1>8 DEF Attempt, Stop

LEMMA AttemptJournals ==
  ASSUME HandshakeInv, NEW p \in Attempts, Attempt(p)
  PROVE  Journals(p)'
<1> USE DEF At, Finds, Goto, Fails, Raises, loopVars, Idle
<1>1. LoopTypeOK /\ JournalInv /\ p \in Writers
  BY HandshakeAssumption DEF HandshakeInv
<1>2. Hears(p) /\ Journals(p)
  BY DEF HandshakeInv
<1>3. pc[p] # "dead" /\ writing[p] = "no"
  BY DEF Attempt, Loop, Stop, Begin, Greet, TimeOut, Select, Poll, Read, Close, Wait, Term,
         Kill, GiveUp, Judge, Finally
\* Nothing is handed to the journal.
<1>4. ASSUME Quiet, Told(p)' <=> Told(p), Told(p) => UNCHANGED finding
      PROVE  Journals(p)'
  BY <1>2, <1>3, <1>4 DEF Journals, Quiet, journalVars, historyVars, Verdict
\* An event is.
<1>5. ASSUME NEW e, Submit(p, e), ~Told(p),
             IF Told(p)' THEN e = Verdict(p)' ELSE e = "begun"
      PROVE  Journals(p)'
  <2>1. writing'[p] = "enter" /\ event'[p] = e /\ recorded' = recorded
    BY <1>1, <1>5, SubmitEffect
  <2>2. OnlyBegun(recorded[p], Len(recorded[p]))
    BY <1>2, <1>3, <1>5 DEF Journals
  <2> QED
    BY <1>5, <2>1, <2>2 DEF Journals
\* So it remains to see which of them a step does.
<1> DEFINE Silent == Quiet /\ (Told(p)' <=> Told(p)) /\ (Told(p) => UNCHANGED finding)
           Says(e) == Submit(p, e) /\ ~Told(p) /\ IF Told(p)' THEN e = Verdict(p)' ELSE e = "begun"
<1>6. CASE Begin(p)
  <2>1. pc'[p] # "close" /\ ~Told(p)
    BY <1>1, <1>2, <1>6 DEF Begin, Hears, Told, Failures, LoopTypeOK
  <2>2. \/ Quiet /\ finding'[p] \in {"none", "nothing-to-probe"}
        \/ Submit(p, "failed") /\ finding'[p] = "broker-launch-failed"
    BY <1>1, <1>2, <1>6 DEF Begin, Hears, LoopTypeOK
  <2>3. Silent \/ Says("failed")
    BY <2>1, <2>2 DEF Told, Verdict, Failures
  <2> QED
    BY <1>4, <1>5, <2>3
<1>7. CASE Greet(p) \/ TimeOut(p) \/ Select(p) \/ Poll(p)
  <2>1. Quiet /\ ~Told(p)
    BY <1>2, <1>7 DEF Greet, TimeOut, Select, Poll, Hears, Told, Failures
  <2>2. finding'[p] \in {"none", "raised"} \/ (finding'[p] # "healthy" /\ pc'[p] = "close")
    BY <1>1, <1>2, <1>7 DEF Greet, TimeOut, Select, Poll, Hears, LoopTypeOK
  <2>3. Silent
    BY <2>1, <2>2 DEF Told, Failures
  <2> QED
    BY <1>4, <2>3
<1>8. CASE Read(p)
  <2>1. PICK m \in Messages : Handle(p, m)
    BY <1>8 DEF Read
  <2>2. ~Told(p) /\ finding[p] = "none"
    BY <1>2, <1>8 DEF Read, Hears, Told, Failures
  <2>3. \/ Quiet
        \/ Submit(p, "begun") /\ finding' = finding
    BY <2>1 DEF Handle, Answered, Listed
  <2>4. finding'[p] \in {"none", "raised"} \/ (finding'[p] # "healthy" /\ pc'[p] = "close")
    BY <1>1, <2>1, <2>2 DEF Handle, Answered, Listed, LoopTypeOK
  <2>5. ~Told(p)'
    BY <2>4 DEF Told, Failures
  <2>6. Silent \/ Says("begun")
    BY <2>2, <2>3, <2>5
  <2> QED
    BY <1>4, <1>5, <2>6
<1>9. CASE Close(p)
  <2>1. ~Told(p) /\ pc'[p] # "close" /\ UNCHANGED finding /\ finding[p] \in Failures \cup {"none"}
    BY <1>1, <1>2, <1>9 DEF Close, Hears, Told, Failures, LoopTypeOK
  <2>2. IF finding[p] = "none" THEN Quiet ELSE Submit(p, "failed")
    BY <1>9 DEF Close
  <2>3. Silent \/ Says("failed")
    BY <2>1, <2>2 DEF Told, Failures, Verdict
  <2> QED
    BY <1>4, <1>5, <2>3
<1>10. CASE Wait(p) \/ Stop(p) \/ Finally(p)
  <2>1. Quiet /\ UNCHANGED finding /\ pc[p] # "close" /\ pc'[p] # "close"
    BY <1>1, <1>10 DEF Wait, Stop, Term, Kill, GiveUp, Finally, LoopTypeOK
  <2>2. Silent
    BY <2>1 DEF Told
  <2> QED
    BY <1>4, <2>2
<1>11. CASE Judge(p)
  <2>1. ~Told(p) /\ pc'[p] = "finally"
    BY <1>1, <1>2, <1>11 DEF Judge, Hears, Where, Told, Failures, LoopTypeOK
  <2>2. \/ finding'[p] = "proxy-exit-nonzero" /\ Submit(p, "failed")
        \/ finding'[p] = "healthy" /\ Submit(p, "ok")
    BY <1>1, <1>11 DEF Judge, LoopTypeOK
  <2>3. Says("failed") \/ Says("ok")
    BY <2>1, <2>2 DEF Told, Failures, Verdict
  <2> QED
    BY <1>5, <2>3
<1> QED
  BY <1>6, <1>7, <1>8, <1>9, <1>10, <1>11 DEF Attempt, Loop

LEMMA AttemptKeeps ==
  ASSUME HandshakeInv, NEW p \in Attempts, Attempt(p)
  PROVE  HandshakeInv'
BY AttemptSteps, AttemptHears, AttemptStops, AttemptJournals DEF HandshakeInv

-----------------------------------------------------------------------------
(* The others.                                                             *)

\* A step of the journal: what has been recorded grows by what was submitted.
LEMMA JournalingKeeps ==
  ASSUME HandshakeInv, NEW w \in Writers, Journaling(w)
  PROVE  HandshakeInv'
<1>1. JournalInv /\ LoopTypeOK /\ Work(w) /\ UNCHANGED <<pc, back, broker, loopVars>>
  BY DEF HandshakeInv, Journaling
<1>2. JournalInv'
  BY <1>1, WorkKeeps
<1>3. LoopTypeOK'
  BY <1>1 DEF LoopTypeOK, loopVars
<1>4. \A q \in Writers \ {w} : UNCHANGED <<writing[q], event[q], recorded[q]>>
  BY <1>1 DEF Work, Enter, Rotate, Write, WriteFails, Becomes, Leave, Return, JournalInv,
              JournalTypeOK, Events, historyVars
<1>6. ASSUME NEW q \in Attempts, q # w
      PROVE  Hears(q)' /\ Stops(q)' /\ Journals(q)'
  <2>1. q \in Writers \ {w}
    BY <1>6, HandshakeAssumption
  <2>2. UNCHANGED <<pc[q], back[q], broker[q], finding[q], heard[q]>>
    BY <1>1 DEF loopVars
  <2>3. q \in initialized' <=> q \in initialized
    BY <1>1 DEF loopVars
  <2>4. UNCHANGED <<writing[q], event[q], recorded[q]>>
    BY <1>4, <2>1
  <2> QED
    BY <2>2, <2>3, <2>4, OthersStay
<1>7. ASSUME w \in Attempts
      PROVE  Hears(w)' /\ Stops(w)' /\ Journals(w)'
  <2>1. Hears(w) /\ Stops(w) /\ Journals(w)
    BY <1>7 DEF HandshakeInv
  <2>2. Hears(w)' /\ Stops(w)'
    BY <1>1, <2>1 DEF Hears, Greeted, Earned, Where, Stops, loopVars
  <2>3. (Told(w)' <=> Told(w)) /\ Verdict(w)' = Verdict(w) /\ pc' = pc
    BY <1>1 DEF Told, Verdict, loopVars
  <2> DEFINE s == recorded[w]
             n == Len(s)
  <2>4. s \in Seq(Fates) /\ n \in Nat /\ event[w] \in Kinds /\ ~Idle(w)
    BY <1>1 DEF JournalInv, Events, Appending, Work, Enter, Rotate, Write, WriteFails, Idle
  <2>5. CASE Enter(w) \/ Rotate(w)
    <3>1. ~Idle(w)' /\ UNCHANGED <<event, recorded>>
      BY <1>1, <2>5 DEF Enter, Rotate, Idle, JournalInv, JournalTypeOK, historyVars
    <3> QED
      BY <2>1, <2>2, <2>3, <2>4, <3>1 DEF Journals
  <2>6. CASE Write(w) \/ WriteFails(w)
    <3>1. Idle(w)' /\ event'[w] = "none"
      BY <1>1, <2>6 DEF Write, WriteFails, Leave, Return, Idle, JournalInv, JournalTypeOK, Events
    <3>2. PICK f \in {event[w], "lost", "spoilt"} : recorded'[w] = Append(s, f)
      BY <1>1, <2>6 DEF Write, WriteFails, Becomes, JournalInv, Events
    <3>3. /\ Len(recorded'[w]) = n + 1
          /\ recorded'[w][n + 1] = f
          /\ \A i \in 1..n : recorded'[w][i] = s[i]
      BY <2>4, <3>2 DEF Fates
    <3>4. OnlyBegun(s, n) => OnlyBegun(recorded'[w], n)
      BY <3>3 DEF OnlyBegun
    <3>5. OnlyBegun(s, n) /\ event[w] = "begun" => OnlyBegun(recorded'[w], n + 1)
      BY <2>4, <3>2, <3>3 DEF OnlyBegun
    <3> HIDE DEF n
    <3>6. Journals(w)'
      BY <2>1, <2>3, <2>4, <3>1, <3>2, <3>3, <3>4, <3>5 DEF Journals, n, Kinds
    <3> QED
      BY <2>2, <3>6
  <2> QED
    BY <1>1, <2>5, <2>6 DEF Work
<1> QED
  BY <1>2, <1>3, <1>6, <1>7 DEF HandshakeInv

LEMMA ReportKeeps ==
  ASSUME HandshakeInv, NEW p \in Attempts, Report(p)
  PROVE  HandshakeInv'
<1>1. JournalInv /\ LoopTypeOK /\ ReadFile(p) /\ p \in Readers
  BY HandshakeAssumption DEF HandshakeInv, Report
<1>2. JournalInv'
  BY <1>1, ReadFileKeeps
<1>3. UNCHANGED <<pc, back, broker, loopVars, writing, event, recorded>>
  BY <1>1 DEF Report, ReadFile, historyVars
<1>4. LoopTypeOK'
  BY <1>1, <1>3 DEF LoopTypeOK, loopVars
<1>5. \A q \in Attempts : Hears(q)' /\ Stops(q)' /\ Journals(q)'
  BY <1>3, OthersStay DEF loopVars
<1> QED
  BY <1>2, <1>4, <1>5 DEF HandshakeInv

\* A child ends.
LEMMA EndKeeps ==
  ASSUME HandshakeInv, NEW p \in Attempts, End(p)
  PROVE  HandshakeInv'
<1>1. JournalInv /\ LoopTypeOK /\ Quiet /\ UNCHANGED <<pc, back, loopVars>>
  BY DEF HandshakeInv, End
<1>2. JournalInv'
  BY <1>1, JournalStays DEF Quiet
<1>3. UNCHANGED <<writing, event, recorded>>
  BY <1>1 DEF Quiet, journalVars, historyVars
<1>4. /\ LoopTypeOK'
      /\ \A q \in Attempts \ {p} : broker'[q] = broker[q]
      /\ \/ broker[p] = "running" /\ broker'[p] \in {"zero", "nonzero"}
         \/ broker[p] = "dying" /\ broker'[p] = "killed"
  BY <1>1 DEF End, LoopTypeOK, loopVars
<1>5. ASSUME NEW q \in Attempts
      PROVE  Hears(q)' /\ Stops(q)' /\ Journals(q)'
  <2>1. CASE q # p
    BY <1>1, <1>3, <1>4, <2>1, OthersStay DEF loopVars
  <2>2. CASE q = p
    <3>1. Hears(p) /\ Stops(p) /\ Journals(p)
      BY DEF HandshakeInv
    <3>2. Hears(p)'
      BY <1>1, <3>1 DEF Hears, Greeted, Earned, Where, loopVars
    <3>3. Stops(p)'
      BY <1>1, <1>4, <3>1 DEF Stops, loopVars
    <3>4. Journals(p)'
      BY <1>1, <1>3, <3>1 DEF Journals, Told, Idle, Verdict, loopVars
    <3> QED
      BY <2>2, <3>2, <3>3, <3>4
  <2> QED
    BY <2>1, <2>2
<1> QED
  BY <1>2, <1>4, <1>5 DEF HandshakeInv

\* A broker writes, or is killed over it.
LEMMA BrokerKeeps ==
  ASSUME HandshakeInv, NEW b \in Brokers, Note(b) \/ KillBroker(b)
  PROVE  HandshakeInv'
<1>1. JournalInv /\ LoopTypeOK /\ b \in Writers /\ UNCHANGED <<pc, back, broker, loopVars>>
  BY HandshakeAssumption DEF HandshakeInv, Note, KillBroker
<1>2. Submit(b, "note") \/ Abandon(b)
  BY DEF Note, KillBroker
<1>3. JournalInv'
  BY <1>1, <1>2, SubmitKeeps, AbandonKeeps DEF Kinds
<1>4. LoopTypeOK'
  BY <1>1 DEF LoopTypeOK, loopVars
<1>5. /\ \A q \in Attempts : UNCHANGED <<writing[q], event[q]>>
      /\ UNCHANGED recorded
  <2>1. \A q \in Attempts : q \in Writers \ {b}
    BY HandshakeAssumption
  <2>2. CASE Submit(b, "note")
    BY <1>1, <2>1, <2>2, SubmitEffect
  <2>3. CASE Abandon(b)
    BY <1>1, <2>1, <2>3 DEF Abandon, Return, historyVars, JournalInv, JournalTypeOK, Events
  <2> QED
    BY <1>2, <2>2, <2>3
<1>6. \A q \in Attempts : Hears(q)' /\ Stops(q)' /\ Journals(q)'
  BY <1>1, <1>5, OthersStay DEF loopVars
<1> QED
  BY <1>3, <1>4, <1>6 DEF HandshakeInv

LEMMA KillDoctorKeeps ==
  ASSUME HandshakeInv, NEW p \in Attempts, KillDoctor(p)
  PROVE  HandshakeInv'
<1>1. /\ JournalInv /\ LoopTypeOK /\ p \in Writers /\ Abandon(p)
      /\ pc' = [pc EXCEPT ![p] = "dead"] /\ UNCHANGED <<back, broker, loopVars>>
  BY HandshakeAssumption DEF HandshakeInv, KillDoctor, Goto
<1>2. JournalInv'
  BY <1>1, AbandonKeeps
<1>3. LoopTypeOK' /\ pc'[p] = "dead"
  BY <1>1 DEF LoopTypeOK, loopVars, Stages
<1>4. /\ \A q \in Attempts \ {p} : UNCHANGED <<pc[q], writing[q], event[q]>>
      /\ UNCHANGED recorded
  BY <1>1 DEF Abandon, Return, historyVars, JournalInv, JournalTypeOK, Events, LoopTypeOK
<1>5. ASSUME NEW q \in Attempts
      PROVE  Hears(q)' /\ Stops(q)' /\ Journals(q)'
  <2>1. CASE q # p
    BY <1>1, <1>4, <2>1, OthersStay DEF loopVars
  <2>2. CASE q = p
    <3>1. Hears(p) /\ Stops(p)
      BY DEF HandshakeInv
    <3>2. Hears(p)'
      BY <1>1, <1>3, <3>1 DEF Hears, Earned, Where, loopVars
    <3>3. Stops(p)' /\ Journals(p)'
      BY <1>1, <1>3, <3>1 DEF Stops, Journals, loopVars
    <3> QED
      BY <2>2, <3>2, <3>3
  <2> QED
    BY <2>1, <2>2
<1> QED
  BY <1>2, <1>3, <1>5 DEF HandshakeInv

LEMMA HandshakeStep ==
  ASSUME HandshakeInv, [Next]_vars
  PROVE  HandshakeInv'
<1>1. CASE Next
  BY <1>1, AttemptKeeps, ReportKeeps, EndKeeps, KillDoctorKeeps, BrokerKeeps, JournalingKeeps
     DEF Next
<1>2. CASE UNCHANGED vars
  <2>1. JournalInv' /\ LoopTypeOK'
    BY <1>2, JournalStays DEF HandshakeInv, vars, LoopTypeOK, loopVars
  <2>2. \A q \in Attempts : Hears(q)' /\ Stops(q)' /\ Journals(q)'
    BY <1>2, OthersStay DEF vars, loopVars, journalVars, historyVars
  <2> QED
    BY <2>1, <2>2 DEF HandshakeInv
<1> QED
  BY <1>1, <1>2

-----------------------------------------------------------------------------
(* Theorems.                                                               *)

\* The invariant of the handshakes and their journal.
THEOREM HandshakeInvariance == Spec => []HandshakeInv
<1>1. Init => HandshakeInv
  BY HandshakeStarts
<1>2. HandshakeInv /\ [Next]_vars => HandshakeInv'
  BY HandshakeStep
<1> QED
  BY <1>1, <1>2, PTL DEF Spec

\* Every variable keeps its type.
THEOREM HandshakeTypeCorrect == Spec => []TypeOK
<1>1. HandshakeInv => TypeOK
  BY DEF HandshakeInv, JournalInv, Events, LoopTypeOK, TypeOK
<1> QED
  BY <1>1, HandshakeInvariance, PTL

\* A broker is called healthy only when it answered initialize, then listed an
\* expected tool, nothing out of order in between, and has not ended badly.
THEOREM HealthHasBeenEarned == Spec => []HealthyIsEarned
<1>1. HandshakeInv => HealthyIsEarned
  BY DEF HandshakeInv, Hears, Stops, Earned, HealthyIsEarned
<1> QED
  BY <1>1, HandshakeInvariance, PTL

\* What an attempt that has returned has left behind is its beginnings and then the
\* verdict its caller got, each of them a line that can be read, unless append
\* reported it lost or put it behind a part of a line.
THEOREM TheJournalHasTheVerdict == Spec => []VerdictIsJournaled
<1>1. HandshakeInv => VerdictIsJournaled
  <2> SUFFICES ASSUME HandshakeInv, NEW p \in Attempts, At(p, "done")
               PROVE  LET s == recorded[p]
                          n == Len(s)
                      IN
                      IF Verdict(p) = "none" THEN OnlyBegun(s, n)
                      ELSE n > 0 /\ OnlyBegun(s, n - 1) /\ s[n] \in {Verdict(p), "lost", "spoilt"}
    BY DEF VerdictIsJournaled
  <2>1. Journals(p) /\ Idle(p) /\ pc[p] = "done"
    BY DEF HandshakeInv, At
  <2>2. Told(p) <=> Verdict(p) # "none"
    BY <2>1 DEF Told, Verdict
  <2> QED
    BY <2>1, <2>2 DEF Journals
<1> QED
  BY <1>1, HandshakeInvariance, PTL

\* No line is swallowed by a part of another unless the loss of that other one has
\* been reported to the writer it is of.
THEOREM NoLossIsSilent == Spec => []NoSilentLoss
<1>1. HandshakeInv => NoSilentLoss
  BY DEF HandshakeInv, JournalInv, LossIsTold, NoSilentLoss
<1> QED
  BY <1>1, HandshakeInvariance, PTL

\* No attempt returns, by an exception or otherwise, while its broker runs on.
THEOREM NoProbeOutlivesIt == Spec => []NoProbeLeft
<1>1. HandshakeInv => NoProbeLeft
  BY DEF HandshakeInv, Stops, NoProbeLeft
<1> QED
  BY <1>1, HandshakeInvariance, PTL

\* The files are one log at any moment, in the middle of a rotation and after one
\* that was interrupted.
THEOREM TheFilesAreOneLog == Spec => []FilesInOrder
<1>1. HandshakeInv => FilesInOrder
  BY DEF HandshakeInv, JournalInv, Ordered
<1> QED
  BY <1>1, HandshakeInvariance, PTL

\* No file grows beyond its capacity.
THEOREM TheFilesStayBounded == Spec => []FilesAreBounded
<1>1. HandshakeInv => FilesAreBounded
  BY DEF HandshakeInv, JournalInv, Filled
<1> QED
  BY <1>1, HandshakeInvariance, PTL

\* A reader without the lock sees every line at most once and in order.
THEOREM ReadersSeeThemInOrder == Spec => []RecentInOrder
<1>1. HandshakeInv => RecentInOrder
  BY DEF HandshakeInv, JournalInv
<1> QED
  BY <1>1, HandshakeInvariance, PTL

-----------------------------------------------------------------------------
(* The journal implements the log.                                         *)

\* A file of lines in order has as many lines as its length.
LEMMA CountLines ==
  ASSUME NEW s \in Seq(Nat), \A i, j \in DOMAIN s : i < j => s[i] < s[j]
  PROVE  IsFiniteSet(Range(s)) /\ Cardinality(Range(s)) = Len(s)
<1> DEFINE n == Len(s)
<1>1. n \in Nat /\ DOMAIN s = 1..n /\ s \in [1..n -> Nat]
  BY LenProperties
<1>2. s \in Surjection(1..n, Range(s))
  BY <1>1 DEF Surjection, Range
<1>3. s \in Injection(1..n, Range(s))
  <2>1. ASSUME NEW i \in 1..n, NEW j \in 1..n, s[i] = s[j]
        PROVE  i = j
    <3>1. ~(i < j) /\ ~(j < i)
      BY <1>1, <2>1
    <3> QED
      BY <1>1, <3>1
  <2> QED
    BY <1>1, <2>1 DEF Injection, IsInjective, Range
<1>4. IsFiniteSet(1..n) /\ Cardinality(1..n) = n
  <2>1. 1 \in Int /\ n \in Int
    BY <1>1
  <2> HIDE DEF n
  <2>2. IsFiniteSet(1..n) /\ Cardinality(1..n) = IF 1 > n THEN 0 ELSE n - 1 + 1
    BY <2>1, FS_Interval
  <2> QED
    BY <1>1, <2>2
<1> QED
  BY <1>2, <1>3, <1>4, FS_Surjection

LEMMA ContentsLines ==
  \A n : n \in Contents <=> \E k \in Files : \E i \in DOMAIN file[k] : n = file[k][i]
BY DEF Contents, Range

LEMMA ContentsFinite ==
  ASSUME JournalInv
  PROVE  IsFiniteSet(Contents)
<1>1. Contents \subseteq 1..begun
  BY ContentsLines DEF JournalInv, Ordered
<1>2. IsFiniteSet(1..begun)
  BY FS_Interval DEF JournalInv, JournalTypeOK
<1> QED
  BY <1>1, <1>2, FS_Subset

\* A line that is begun is recorded.
LEMMA LineIsRecorded ==
  ASSUME JournalInv, file' = Line
  PROVE  Log!Record
<1>1. file \in [Files -> Seq(Nat)] /\ begun \in Nat /\ 0 \in Files
  BY JournalAssumption DEF JournalInv, JournalTypeOK, Files
<1>2. /\ file'[0] = Append(file[0], begun + 1)
      /\ \A k \in Files \ {0} : file'[k] = file[k]
  BY <1>1 DEF Line
<1>3. Range(file'[0]) = Range(file[0]) \cup {begun + 1}
  <2>1. file[0] \in Seq(Nat) /\ Len(file[0]) \in Nat /\ DOMAIN file[0] = 1..Len(file[0])
    BY <1>1
  <2>2. /\ DOMAIN file'[0] = 1..Len(file[0]) + 1
        /\ file'[0][Len(file[0]) + 1] = begun + 1
        /\ \A i \in 1..Len(file[0]) : file'[0][i] = file[0][i]
    BY <1>1, <1>2, <2>1
  <2>3. 1..Len(file[0]) + 1 = (1..Len(file[0])) \cup {Len(file[0]) + 1}
    BY <2>1
  <2>4. \A m : m \in Range(file[0]) <=> \E i \in 1..Len(file[0]) : m = file[0][i]
    BY <2>1 DEF Range
  <2>5. \A m : m \in Range(file'[0]) <=> \E i \in 1..Len(file[0]) + 1 : m = file'[0][i]
    BY <2>2 DEF Range
  <2> QED
    BY <2>2, <2>3, <2>4, <2>5
<1>4. Contents' = Contents \cup {begun + 1}
  BY <1>1, <1>2, <1>3 DEF Contents
<1>5. \A m \in Contents : m < begun + 1
  BY <1>1, ContentsLines DEF JournalInv, Ordered
<1> QED
  BY <1>4, <1>5 DEF Log!Record, Log!Before

\* A rename that replaces the oldest file forgets its lines; the files that are
\* sure to be full then are the current one, and the one that takes its place.
LEMMA RenameForgets ==
  ASSUME JournalInv, NEW p \in Writers, Rotate(p)
  PROVE  Contents' = Contents \/ Log!Forget
<1> USE JournalAssumption DEF Files
<1> DEFINE s == slot[p]
<1>1. /\ s \in 1..Backups /\ s - 1 \in Files /\ s \in Files /\ s # s - 1
      /\ Len(file[0]) = Capacity
      /\ s < Backups => file[s] = <<>>
  BY DEF Rotate, JournalInv, Appending
<1>2. file \in [Files -> Seq(Nat)]
  BY DEF JournalInv, JournalTypeOK
<1>3. CASE file[s - 1] = <<>>
  BY <1>3 DEF Rotate, Contents
<1>4. CASE file[s - 1] # <<>>
  <2>1. file' = [file EXCEPT ![s] = file[s - 1], ![s - 1] = <<>>]
    BY <1>4 DEF Rotate, Target
  <2>2. /\ file'[s] = file[s - 1] /\ file'[s - 1] = <<>>
        /\ \A k \in Files \ {s, s - 1} : file'[k] = file[k]
    BY <1>1, <1>2, <2>1
  <2>3. Range(<<>>) = {}
    BY DEF Range
  \* What is in the files now was in those that have not been replaced.
  <2> DEFINE Kept == UNION {Range(file[k]) : k \in Files \ {s}}
  <2>4. Contents' = Kept
    BY <1>1, <2>2, <2>3 DEF Contents
  <2>5. Contents = Kept \cup Range(file[s])
    BY <1>1 DEF Contents
  <2>6. CASE file[s] = <<>>
    BY <2>3, <2>4, <2>5, <2>6
  <2>7. CASE s = Backups
    <3>1. Log!Before(Contents \ Contents', Contents')
      <4> SUFFICES ASSUME NEW m \in Range(file[Backups]), NEW n \in Kept
                   PROVE  m < n
        BY <2>4, <2>5, <2>7 DEF Log!Before
      <4>1. PICK i \in DOMAIN file[Backups] : m = file[Backups][i]
        BY DEF Range
      <4>2. PICK k \in Files \ {Backups} : n \in Range(file[k])
        BY <2>7
      <4>3. PICK j \in DOMAIN file[k] : n = file[k][j]
        BY <4>2 DEF Range
      <4>4. Backups > k /\ Backups \in Files /\ k \in Files
        BY <4>2
      <4> QED
        BY <4>1, <4>3, <4>4 DEF JournalInv, Ordered, FilesInOrder
    <3>2. Contents' \subseteq Contents /\ IsFiniteSet(Contents')
      BY <2>4, <2>5, ContentsFinite, FS_Subset
    <3>3. Cardinality(Contents') \in Nat
      BY <3>2, FS_CardinalityType
    <3>4. \A k \in Files : IsFiniteSet(Range(file[k])) /\ Cardinality(Range(file[k])) = Len(file[k])
      <4> SUFFICES ASSUME NEW k \in Files
                   PROVE  IsFiniteSet(Range(file[k])) /\ Cardinality(Range(file[k])) = Len(file[k])
        OBVIOUS
      <4>1. file[k] \in Seq(Nat) /\ \A i, j \in DOMAIN file[k] : i < j => file[k][i] < file[k][j]
        BY <1>2 DEF JournalInv, Ordered, FilesInOrder
      <4> QED
        BY <4>1, CountLines
    <3>5. CASE Backups = 1
      <4>1. Range(file[0]) \subseteq Contents'
        BY <2>4, <2>7, <3>5
      <4>2. Cardinality(Range(file[0])) = Capacity
        BY <1>1, <3>4
      <4>3. Cardinality(Contents') >= Capacity * Certain
        BY <3>2, <3>3, <3>5, <4>1, <4>2, FS_Subset DEF Certain
      <4> QED
        BY <3>1, <3>2, <4>3 DEF Log!Forget, Log!Cardinality, Cardinality
    <3>6. CASE Backups > 1
      <4> DEFINE new == Range(file[0])
                 old == Range(file[Backups - 1])
      <4>1. Backups - 1 \in 1..Backups /\ Backups - 1 \in Files \ {0, Backups}
        BY <3>6
      <4>2. Len(file[Backups - 1]) = Capacity
        BY <1>4, <2>7, <4>1 DEF JournalInv, Filled
      <4>3. /\ IsFiniteSet(new) /\ Cardinality(new) = Capacity
            /\ IsFiniteSet(old) /\ Cardinality(old) = Capacity
        BY <1>1, <3>4, <4>1, <4>2
      <4>4. new \cap old = {}
        <5> SUFFICES ASSUME NEW i \in DOMAIN file[0], NEW j \in DOMAIN file[Backups - 1]
                     PROVE  file[0][i] # file[Backups - 1][j]
          BY DEF Range
        <5>1. file[Backups - 1][j] < file[0][i]
          BY <4>1 DEF JournalInv, Ordered, FilesInOrder
        <5>2. file[Backups - 1][j] \in Nat /\ file[0][i] \in Nat
          BY <1>2, <4>1
        <5> QED
          BY <5>1, <5>2
      <4>5. new \cup old \subseteq Contents'
        BY <2>4, <2>7, <4>1
      <4>6. Cardinality(new \cup old) = Capacity + Capacity
        <5>1. Cardinality(new \cap old) = 0
          BY <4>4, FS_EmptySet
        <5> QED
          BY <4>3, <5>1, FS_Union
      <4>7. Cardinality(Contents') >= Capacity * Certain
        BY <3>2, <3>3, <3>6, <4>5, <4>6, FS_Subset DEF Certain
      <4> QED
        BY <3>1, <3>2, <4>7 DEF Log!Forget, Log!Cardinality, Cardinality
    <3> QED
      BY <3>5, <3>6
  <2> QED
    BY <1>1, <2>6, <2>7
<1> QED
  BY <1>3, <1>4

LEMMA HandshakeRefines ==
  ASSUME HandshakeInv, [Next]_vars
  PROVE  [Log!Next]_Contents
<1>1. CASE file' = file
  BY <1>1 DEF Contents
<1>2. ASSUME NEW w \in Writers, Journaling(w)
      PROVE  [Log!Next]_Contents
  <2>1. JournalInv /\ Work(w)
    BY <1>2 DEF HandshakeInv, Journaling
  <2>2. CASE Rotate(w)
    BY <2>1, <2>2, RenameForgets DEF Log!Next
  <2>3. CASE Enter(w) \/ Write(w) \/ WriteFails(w)
    <3>1. file' = file \/ file' = Line
      BY <2>3 DEF Enter, Write, WriteFails, diskVars
    <3> QED
      BY <1>1, <2>1, <3>1, LineIsRecorded DEF Log!Next
  <2> QED
    BY <2>1, <2>2, <2>3 DEF Work
<1>3. \/ file' = file
      \/ \E w \in Writers : Journaling(w)
  <2>1. Quiet => file' = file
    BY DEF Quiet, journalVars, diskVars
  <2>2. \A p, e : Submit(p, e) => file' = file
    BY DEF Submit, diskVars
  <2>3. \A p : Attempt(p) \/ End(p) => Quiet \/ \E e : Submit(p, e)
    BY DEF Attempt, Loop, Stop, Begin, Greet, TimeOut, Select, Poll, Read, Close, Wait, Term,
           Kill, GiveUp, Judge, Finally, Handle, Answered, Listed, Raises, End
  <2>4. \A p : Report(p) \/ KillDoctor(p) \/ Note(p) \/ KillBroker(p) => file' = file
    BY <2>2 DEF Report, ReadFile, KillDoctor, Note, KillBroker, Abandon, diskVars
  <2> QED
    BY <2>1, <2>2, <2>3, <2>4 DEF Next, vars, journalVars, diskVars
<1> QED
  BY <1>1, <1>2, <1>3

\* Whoever rotates the journal and is killed over it, whatever the disk does, only
\* its oldest lines go, and never the last ones.
THEOREM TheJournalIsALog == Spec => JournalIsLog
<1>1. Init => Log!Init
  BY DEF Init, JournalInit, Contents, Range, Log!Init
<1>2. HandshakeInv /\ [Next]_vars => [Log!Next]_Contents
  BY HandshakeRefines
<1> QED
  BY <1>1, <1>2, HandshakeInvariance, PTL DEF Spec, JournalIsLog, Log!Spec
=============================================================================
