--------------------------- MODULE JobQueueProofs ---------------------------
(* Proofs about JobQueue, for every number of jobs and of batches.         *)
EXTENDS JobQueue, FiniteSetTheorems, TLAPS

LEMMA IdleBatch == Idle \in Batch /\ Idle.phase = "idle" /\ Idle.todo = {}
BY DEF Idle, Batch, Phase

LEMMA ResumeBatch ==
  ASSUME NEW todo \in SUBSET Jobs, NEW late \in BOOLEAN
  PROVE  /\ Resume(todo, late) \in Batch
         /\ Resume(todo, late).phase \in {"idle", "next", "skip"}
         /\ Resume(todo, late).phase = "idle" => todo = {}
         /\ Resume(todo, late).todo = todo
BY DEF Resume, Batch, Phase

LEMMA InitOK == Init => TypeOK /\ Ownership
<1> SUFFICES ASSUME Init PROVE TypeOK /\ Ownership
  OBVIOUS
<1>1. TypeOK
  BY IdleBatch, JobsAssumption DEF Init, TypeOK, JobRow, Idle, Busy
<1>2. Ownership
  BY JobsAssumption DEF Init, Ownership, Held, Idle, Busy
<1>3. QED
  BY <1>1, <1>2

-----------------------------------------------------------------------------
(* Steps of the table: no batch moves *)

LEMMA TableSteps ==
  ASSUME TypeOK, Ownership
  PROVE  /\ \A j \in Jobs, due \in BOOLEAN : Enqueue(j, due) => TypeOK' /\ Ownership'
         /\ \A j \in Jobs : LeaseEnds(j) => TypeOK' /\ Ownership'
         /\ \A j \in Jobs : BecomesDue(j) => TypeOK' /\ Ownership'
<1>1. ASSUME NEW j \in Jobs, NEW due \in BOOLEAN, Enqueue(j, due) PROVE TypeOK' /\ Ownership'
  <2>1. /\ batch' = batch /\ letters' = letters /\ crashes' = crashes /\ row[j].status = "none"
        /\ row' = [row EXCEPT ![j] = [status |-> "queued", attempts |-> 0, lock |-> None, due |-> due]]
    BY <1>1 DEF Enqueue
  <2>2. TypeOK'
    BY <2>1 DEF TypeOK, JobRow, JobStatus
  <2>3. /\ row'[j].lock = None /\ row[j].lock \notin Batches
        /\ \A k \in Jobs : k # j => row'[k] = row[k]
    BY <2>1 DEF TypeOK, Ownership
  <2>4. \A b \in Batches : Held(b)' = Held(b)
    BY <2>1 DEF Held
  <2>5. Ownership'
    BY <2>3, <2>4, JobsAssumption DEF Ownership
  <2>6. QED
    BY <2>2, <2>5
<1>2. ASSUME NEW j \in Jobs, LeaseEnds(j) PROVE TypeOK' /\ Ownership'
  <2>1. /\ batch' = batch /\ letters' = letters /\ crashes' = crashes /\ row[j].lock = Ghost
        /\ row' = [row EXCEPT ![j].lock = None]
    BY <1>2 DEF LeaseEnds
  <2>2. TypeOK'
    BY <2>1 DEF TypeOK, JobRow
  <2>3. row'[j].lock = None /\ \A k \in Jobs : k # j => row'[k] = row[k]
    BY <2>1 DEF TypeOK, JobRow
  <2>4. \A b \in Batches : Held(b)' = Held(b)
    BY <2>1 DEF Held
  <2>5. Ownership'
    BY <2>1, <2>3, <2>4, JobsAssumption DEF Ownership
  <2>6. QED
    BY <2>2, <2>5
<1>3. ASSUME NEW j \in Jobs, BecomesDue(j) PROVE TypeOK' /\ Ownership'
  <2>1. /\ batch' = batch /\ letters' = letters /\ crashes' = crashes
        /\ row' = [row EXCEPT ![j].due = TRUE]
    BY <1>3 DEF BecomesDue
  <2>2. TypeOK'
    BY <2>1 DEF TypeOK, JobRow
  <2>3. \A k \in Jobs : row'[k].lock = row[k].lock /\ row'[k].status = row[k].status
    BY <2>1 DEF TypeOK, JobRow
  <2>4. \A b \in Batches : Held(b)' = Held(b)
    BY <2>1 DEF Held
  <2>5. Ownership'
    BY <2>3, <2>4 DEF Ownership
  <2>6. QED
    BY <2>2, <2>5
<1>4. QED
  BY <1>1, <1>2, <1>3

-----------------------------------------------------------------------------
(* Steps of a batch b: what the others hold does not change *)

LEMMA OthersKeep ==
  ASSUME TypeOK, NEW b \in Batches, NEW c \in Batches, c # b, NEW x,
         batch' = [batch EXCEPT ![b] = x]
  PROVE  batch'[c] = batch[c] /\ Held(c)' = Held(c)
BY DEF TypeOK, Held

LEMMA ClaimStep ==
  ASSUME TypeOK, Ownership, NEW b \in Batches, Claim(b)
  PROVE  TypeOK' /\ Ownership'
<1> DEFINE taken == {j \in batch[b].todo : Unlocked(j)}
<1>1. /\ batch[b].phase = "read" /\ letters' = letters /\ crashes' = crashes
      /\ row' = [j \in Jobs |-> IF j \in taken THEN [row[j] EXCEPT !.status = "running", !.lock = b]
                                              ELSE row[j]]
      /\ batch' = [batch EXCEPT ![b] = Resume(taken, FALSE)]
  BY DEF Claim
<1>2. taken \in SUBSET Jobs
  BY DEF TypeOK, Batch
<1>3. /\ batch'[b] \in Batch /\ batch'[b].phase \in {"idle", "next", "skip"}
      /\ batch'[b].phase = "idle" => taken = {}
      /\ batch'[b].todo = taken
  BY <1>1, <1>2, ResumeBatch DEF TypeOK
<1>4. \A c \in Batches : c # b => batch'[c] = batch[c] /\ Held(c)' = Held(c)
  BY <1>1, OthersKeep
<1>5. TypeOK'
  <2>1. row' \in [Jobs -> JobRow]
    BY <1>1 DEF TypeOK, JobRow, JobStatus
  <2>2. batch' \in [Batches -> Batch]
    BY <1>1, <1>3, <1>4 DEF TypeOK
  <2>3. \A c \in Batches : batch'[c].phase \in Busy => batch'[c].job \in Jobs \ batch'[c].todo
    BY <1>3, <1>4 DEF TypeOK, Busy
  <2>4. QED
    BY <1>1, <2>1, <2>2, <2>3 DEF TypeOK
<1>6. \A j \in Jobs : j \in Held(b)' <=> j \in taken
  BY <1>3 DEF Held, Busy
<1>7. \A j \in Jobs : ~(j \in Held(b))
  BY <1>1 DEF Held, Busy
<1>8. /\ \A j \in taken : row'[j].lock = b /\ row'[j].status = "running" /\ row[j].lock = None
      /\ \A j \in Jobs \ taken : row'[j] = row[j]
  <2>1. ASSUME NEW j \in taken
        PROVE  row'[j].lock = b /\ row'[j].status = "running" /\ row[j].lock = None
    <3>1. j \in Jobs /\ row[j] \in JobRow
      BY <1>2 DEF TypeOK
    <3>2. row'[j] = [row[j] EXCEPT !.status = "running", !.lock = b]
      BY <1>1, <2>1, <3>1
    <3>3. QED
      BY <2>1, <3>1, <3>2 DEF JobRow, Unlocked
  <2>2. ASSUME NEW j \in Jobs \ taken PROVE row'[j] = row[j]
    BY <1>1, <2>2
  <2>3. QED
    BY <2>1, <2>2
<1>9. Ownership'
  <2>1. ASSUME NEW c \in Batches, NEW j \in Jobs PROVE row'[j].lock = c <=> j \in Held(c)'
    <3>1. CASE c = b
      BY <1>6, <1>7, <1>8, <3>1 DEF Ownership
    <3>2. CASE c # b
      BY <1>4, <1>8, <3>2, JobsAssumption DEF Ownership
    <3>3. QED
      BY <3>1, <3>2
  <2>2. \A j \in Jobs : row'[j].lock \in Batches => row'[j].status = "running"
    BY <1>8 DEF Ownership
  <2>3. QED
    BY <2>1, <2>2 DEF Ownership
<1>10. QED
  BY <1>5, <1>9

(* A step of b after which it holds the same jobs.                         *)
LEMMA KeepsStep ==
  ASSUME TypeOK, Ownership, NEW b \in Batches, NEW y \in Batch,
         row' = row, batch' = [batch EXCEPT ![b] = y],
         letters' \in [Jobs -> Nat], crashes' = crashes,
         y.phase \in Busy => y.job \in Jobs \ y.todo,
         \A j \in Jobs : j \in Held(b)' <=> j \in Held(b)
  PROVE  TypeOK' /\ Ownership'
<1>1. \A c \in Batches : c # b => batch'[c] = batch[c] /\ Held(c)' = Held(c)
  BY OthersKeep
<1>2. batch'[b] = y
  BY DEF TypeOK
<1>3. TypeOK'
  BY <1>1, <1>2 DEF TypeOK
<1>4. \A c \in Batches : \A j \in Jobs : j \in Held(c)' <=> j \in Held(c)
  BY <1>1
<1>5. Ownership'
  BY <1>4 DEF Ownership
<1>6. QED
  BY <1>3, <1>5

(* A step of b that lets go of one job it holds.                           *)
LEMMA ReleaseStep ==
  ASSUME TypeOK, Ownership, NEW b \in Batches, NEW y \in Batch, NEW j \in Jobs, NEW x \in JobRow,
         x.lock = None, j \in Held(b),
         row' = [row EXCEPT ![j] = x], batch' = [batch EXCEPT ![b] = y],
         letters' = letters, crashes' = crashes,
         y.phase \in Busy => y.job \in Jobs \ y.todo,
         \A k \in Jobs : k \in Held(b)' <=> k \in Held(b) /\ k # j
  PROVE  TypeOK' /\ Ownership'
<1>1. \A c \in Batches : c # b => batch'[c] = batch[c] /\ Held(c)' = Held(c)
  BY OthersKeep
<1>2. batch'[b] = y
  BY DEF TypeOK
<1>3. row'[j] = x /\ \A k \in Jobs : k # j => row'[k] = row[k]
  BY DEF TypeOK
<1>4. TypeOK'
  BY <1>1, <1>2 DEF TypeOK
<1>5. ASSUME NEW c \in Batches, NEW k \in Jobs PROVE row'[k].lock = c <=> k \in Held(c)'
  <2>1. CASE k = j
    BY <1>1, <1>3, <2>1, JobsAssumption DEF Ownership
  <2>2. CASE k # j
    BY <1>1, <1>3, <2>2 DEF Ownership
  <2>3. QED
    BY <2>1, <2>2
<1>6. Ownership'
  BY <1>3, <1>5, JobsAssumption DEF Ownership
<1>7. QED
  BY <1>4, <1>6

LEMMA BatchSteps ==
  ASSUME TypeOK, Ownership, NEW b \in Batches
  PROVE  /\ ReadCandidates(b) => TypeOK' /\ Ownership'
         /\ Work(b) => TypeOK' /\ Ownership'
<1> DEFINE todo == batch[b].todo
           j == batch[b].job
<1>1. batch[b] \in Batch /\ todo \in SUBSET Jobs
  BY DEF TypeOK, Batch
<1>2. ASSUME ReadCandidates(b) PROVE TypeOK' /\ Ownership'
  <2>1. PICK S \in SUBSET Jobs : batch' = [batch EXCEPT ![b] = [phase |-> "read", todo |-> S, job |-> None]]
    BY <1>2 DEF ReadCandidates
  <2>2. [phase |-> "read", todo |-> S, job |-> None] \in Batch
    BY DEF Batch, Phase
  <2>3. \A k \in Jobs : k \in Held(b)' <=> k \in Held(b)
    BY <1>2, <2>1 DEF ReadCandidates, Held, Busy, TypeOK
  <2>4. QED
    BY <1>2, <2>1, <2>2, <2>3, KeepsStep DEF ReadCandidates, Busy, TypeOK
<1>3. ASSUME NEW k \in Jobs, Handle(b, k) PROVE TypeOK' /\ Ownership'
  <2> DEFINE y == [batch[b] EXCEPT !.phase = "handle", !.todo = @ \ {k}, !.job = k]
  <2>1. batch' = [batch EXCEPT ![b] = y] /\ batch[b].phase = "next" /\ k \in todo
    BY <1>3 DEF Handle
  <2>2. /\ y \in Batch /\ y.phase = "handle" /\ y.todo = todo \ {k} /\ y.job = k
        /\ batch'[b] = y
    BY <1>1, <2>1 DEF TypeOK, Batch, Phase
  <2>3. \A i \in Jobs : i \in Held(b)' <=> i \in Held(b)
    BY <2>1, <2>2 DEF Held, Busy
  <2>4. y.job \in Jobs \ y.todo
    BY <2>2
  <2>5. row' = row /\ letters' \in [Jobs -> Nat] /\ crashes' = crashes
    BY <1>3 DEF Handle, TypeOK
  <2> HIDE DEF y
  <2>6. QED
    BY <2>1, <2>2, <2>3, <2>4, <2>5, KeepsStep
<1>4. ASSUME NEW k \in Jobs, Skip(b, k) PROVE TypeOK' /\ Ownership'
  <2> DEFINE x == [row[k] EXCEPT !.status = "queued", !.lock = None]
             y == Resume(todo \ {k}, TRUE)
  <2>1. /\ batch' = [batch EXCEPT ![b] = y] /\ row' = [row EXCEPT ![k] = x]
        /\ batch[b].phase = "skip" /\ k \in todo
    BY <1>4 DEF Skip
  <2>2. x \in JobRow /\ x.lock = None
    BY DEF TypeOK, JobRow, JobStatus
  <2>3. /\ y \in Batch /\ y.phase \in {"idle", "next", "skip"} /\ y.todo = todo \ {k}
        /\ y.phase = "idle" => todo \ {k} = {}
        /\ batch'[b] = y
    BY <1>1, <2>1, ResumeBatch DEF TypeOK
  <2>4. k \in Held(b) /\ \A i \in Jobs : i \in Held(b)' <=> i \in Held(b) /\ i # k
    BY <2>1, <2>3 DEF Held, Busy
  <2>5. y.phase \notin Busy
    BY <2>3 DEF Busy
  <2>6. QED
    BY <1>4, <2>1, <2>2, <2>3, <2>4, <2>5, ReleaseStep DEF Skip
<1>5. ASSUME NEW outcome \in {"complete", "fail"}, Return(b, outcome) PROVE TypeOK' /\ Ownership'
  <2> DEFINE y == [batch[b] EXCEPT !.phase = outcome]
  <2>1. batch' = [batch EXCEPT ![b] = y] /\ batch[b].phase = "handle"
    BY <1>5 DEF Return
  <2>2. /\ y \in Batch /\ y.phase = outcome /\ y.todo = todo /\ y.job = j
        /\ batch'[b] = y
    BY <1>1, <2>1 DEF TypeOK, Batch, Phase
  <2>3. \A i \in Jobs : i \in Held(b)' <=> i \in Held(b)
    BY <2>1, <2>2 DEF Held, Busy
  <2>4. y.job \in Jobs \ y.todo
    BY <2>1, <2>2 DEF TypeOK, Busy
  <2>5. QED
    BY <1>5, <2>1, <2>2, <2>3, <2>4, KeepsStep DEF Return, TypeOK
<1>6. ASSUME NEW late \in BOOLEAN, Complete(b, late) PROVE TypeOK' /\ Ownership'
  <2> DEFINE x == [row[j] EXCEPT !.status = "completed", !.lock = None]
             y == Resume(todo, late)
  <2>1. /\ batch' = [batch EXCEPT ![b] = y] /\ row' = [row EXCEPT ![j] = x]
        /\ batch[b].phase = "complete"
    BY <1>6 DEF Complete
  <2>2. j \in Jobs \ todo
    BY <2>1 DEF TypeOK, Busy
  <2>3. x \in JobRow /\ x.lock = None
    BY <2>2 DEF TypeOK, JobRow, JobStatus
  <2>4. /\ y \in Batch /\ y.phase \in {"idle", "next", "skip"} /\ y.todo = todo
        /\ y.phase = "idle" => todo = {}
        /\ batch'[b] = y
    BY <1>1, <2>1, ResumeBatch DEF TypeOK
  <2>5. PICK k \in Jobs : k = j
    BY <2>2
  <2>6. k \in Held(b) /\ \A i \in Jobs : i \in Held(b)' <=> i \in Held(b) /\ i # k
    BY <2>1, <2>2, <2>4, <2>5 DEF Held, Busy
  <2>7. y.phase \notin Busy
    BY <2>4 DEF Busy
  <2>8. /\ row' = [row EXCEPT ![k] = x] /\ batch' = [batch EXCEPT ![b] = y]
        /\ letters' = letters /\ crashes' = crashes /\ y \in Batch
    BY <1>6, <2>1, <2>4, <2>5 DEF Complete
  <2> HIDE DEF x, y
  <2>9. QED
    BY <2>3, <2>6, <2>7, <2>8, ReleaseStep
<1>7. ASSUME NEW late \in BOOLEAN, Fail(b, late) PROVE TypeOK' /\ Ownership'
  <2> DEFINE attempts == row[j].attempts + 1
             x == [status |-> StatusAfter(attempts), attempts |-> attempts,
                   lock |-> None, due |-> FALSE]
             y == IF LetterDue(attempts) THEN [batch[b] EXCEPT !.phase = "letter"]
                                         ELSE Resume(todo, late)
  <2>1. /\ batch' = [batch EXCEPT ![b] = y] /\ row' = [row EXCEPT ![j] = x]
        /\ batch[b].phase = "fail"
    BY <1>7 DEF Fail
  <2>2. j \in Jobs \ todo
    BY <2>1 DEF TypeOK, Busy
  <2>3. x \in JobRow /\ x.lock = None
    BY <2>2 DEF TypeOK, JobRow, JobStatus, StatusAfter
  <2>4. /\ y \in Batch /\ y.todo = todo /\ batch'[b] = y
        /\ \/ y.phase \in {"idle", "next", "skip"}
           \/ y.phase = "letter" /\ y.job = j
        /\ y.phase = "idle" => todo = {}
    <3>1. CASE LetterDue(attempts)
      BY <1>1, <2>1, <3>1 DEF TypeOK, Batch, Phase
    <3>2. CASE ~LetterDue(attempts)
      BY <1>1, <2>1, <3>2, ResumeBatch DEF TypeOK
    <3>3. QED
      BY <3>1, <3>2
  <2>5. PICK k \in Jobs : k = j
    BY <2>2
  <2>6. k \in Held(b) /\ \A i \in Jobs : i \in Held(b)' <=> i \in Held(b) /\ i # k
    BY <2>1, <2>2, <2>4, <2>5 DEF Held, Busy
  <2>7. y.phase \in Busy => y.job \in Jobs \ y.todo
    BY <2>2, <2>4 DEF Busy
  <2>8. /\ row' = [row EXCEPT ![k] = x] /\ batch' = [batch EXCEPT ![b] = y]
        /\ letters' = letters /\ crashes' = crashes /\ y \in Batch
    BY <1>7, <2>1, <2>4, <2>5 DEF Fail
  <2> HIDE DEF x, y
  <2>9. QED
    BY <2>3, <2>6, <2>7, <2>8, ReleaseStep
<1>8. ASSUME NEW late \in BOOLEAN, WriteDeadLetter(b, late) PROVE TypeOK' /\ Ownership'
  <2> DEFINE y == Resume(todo, late)
  <2>1. /\ batch' = [batch EXCEPT ![b] = y] /\ batch[b].phase = "letter"
        /\ row' = row /\ crashes' = crashes /\ letters' = [letters EXCEPT ![j] = @ + 1]
    BY <1>8 DEF WriteDeadLetter
  <2>2. j \in Jobs /\ letters' \in [Jobs -> Nat]
    BY <2>1 DEF TypeOK, Busy
  <2>3. /\ y \in Batch /\ y.phase \in {"idle", "next", "skip"} /\ y.todo = todo
        /\ y.phase = "idle" => todo = {}
        /\ batch'[b] = y
    BY <1>1, <2>1, ResumeBatch DEF TypeOK
  <2>4. \A i \in Jobs : i \in Held(b)' <=> i \in Held(b)
    BY <2>1, <2>3 DEF Held, Busy
  <2>5. QED
    BY <2>1, <2>2, <2>3, <2>4, KeepsStep DEF Busy
<1>9. QED
  BY <1>2, <1>3, <1>4, <1>5, <1>6, <1>7, <1>8, ClaimStep DEF Work

LEMMA CrashStep ==
  ASSUME TypeOK, Ownership, NEW b \in Batches, Crash(b)
  PROVE  TypeOK' /\ Ownership'
<1>1. /\ batch' = [batch EXCEPT ![b] = Idle] /\ letters' = letters
      /\ crashes < MaxCrashes /\ crashes' = crashes + 1
      /\ row' = [j \in Jobs |-> IF row[j].lock = b THEN [row[j] EXCEPT !.lock = Ghost] ELSE row[j]]
  BY DEF Crash
<1>2. batch'[b] = Idle
  BY <1>1 DEF TypeOK
<1>3. \A c \in Batches : c # b => batch'[c] = batch[c] /\ Held(c)' = Held(c)
  BY <1>1, OthersKeep
<1>4. \A j \in Jobs : ~(j \in Held(b)')
  BY <1>2 DEF Held, Idle, Busy
<1>5. ASSUME NEW j \in Jobs
      PROVE  /\ row[j].lock = b => row'[j].lock = Ghost
             /\ row[j].lock # b => row'[j] = row[j]
             /\ row'[j] \in JobRow
  BY <1>1 DEF TypeOK, JobRow
<1>6. TypeOK'
  <2>1. row' \in [Jobs -> JobRow]
    BY <1>1, <1>5
  <2>2. batch' \in [Batches -> Batch]
    BY <1>1, IdleBatch DEF TypeOK
  <2>3. crashes' \in 0..MaxCrashes
    BY <1>1, JobsAssumption DEF TypeOK
  <2>4. \A c \in Batches : batch'[c].phase \in Busy => batch'[c].job \in Jobs \ batch'[c].todo
    BY <1>2, <1>3 DEF TypeOK, Busy, Idle
  <2>5. QED
    BY <1>1, <2>1, <2>2, <2>3, <2>4 DEF TypeOK
<1>7. Ownership'
  BY <1>3, <1>4, <1>5, JobsAssumption DEF Ownership
<1>8. QED
  BY <1>6, <1>7

-----------------------------------------------------------------------------

LEMMA OwnershipStep == TypeOK /\ Ownership /\ [Next]_vars => TypeOK' /\ Ownership'
<1> SUFFICES ASSUME TypeOK, Ownership, [Next]_vars PROVE TypeOK' /\ Ownership'
  OBVIOUS
<1>1. ASSUME NEW dead \in Jobs, NEW j \in Jobs, RetryDeadLetter(dead, j) PROVE TypeOK' /\ Ownership'
  BY <1>1, TableSteps DEF RetryDeadLetter
<1>2. CASE UNCHANGED vars
  BY <1>2 DEF vars, TypeOK, Ownership, Held
<1>3. QED
  BY <1>1, <1>2, TableSteps, BatchSteps, CrashStep DEF Next

(* The tables and the batches have their types, whatever the number of     *)
(* jobs, of concurrent batches and of crashes.                             *)
THEOREM TypeCorrect == Spec => []TypeOK
BY InitOK, OwnershipStep, PTL DEF Spec

(* No job is ever in the hands of two batches: the lock names its holder,  *)
(* and what is marked running is held or was lost with its batch.          *)
THEOREM OwnershipHolds == Spec => []Ownership
BY InitOK, OwnershipStep, PTL DEF Spec

-----------------------------------------------------------------------------
(* Dead letters: what is lost is lost by a crash *)

Counted == IsFiniteSet(Lost) /\ Cardinality(Lost) <= crashes

(* A step of the table or of a batch b that loses nothing.                 *)
LEMMA NothingLost ==
  ASSUME Counted, crashes' = crashes, crashes \in Nat, \A j \in Jobs : j \in Lost' => j \in Lost
  PROVE  Counted'
<1>1. Lost' \subseteq Lost
  BY DEF Lost
<1>2. IsFiniteSet(Lost') /\ Cardinality(Lost') <= Cardinality(Lost)
  BY <1>1, FS_Subset DEF Counted
<1>3. Cardinality(Lost) \in Nat /\ Cardinality(Lost') \in Nat
  BY <1>2, FS_CardinalityType DEF Counted
<1>4. QED
  BY <1>2, <1>3 DEF Counted

(* A batch that was not at the dead letter loses none by going on.         *)
LEMMA NotAtLetter ==
  ASSUME TypeOK, NEW b \in Batches, NEW y, batch' = [batch EXCEPT ![b] = y],
         batch[b].phase # "letter", letters' = letters,
         \A j \in Jobs : row'[j].status = "dead" => row[j].status = "dead"
  PROVE  \A j \in Jobs : j \in Lost' => j \in Lost
<1>1. \A c \in Batches : c # b => batch'[c] = batch[c]
  BY DEF TypeOK
<1>2. QED
  BY <1>1 DEF Lost

LEMMA WorkLosesNothing ==
  ASSUME TypeOK, NEW b \in Batches, ReadCandidates(b) \/ Work(b)
  PROVE  \A j \in Jobs : j \in Lost' => j \in Lost
<1>1. CASE ReadCandidates(b)
  BY <1>1, NotAtLetter DEF ReadCandidates
<1>2. CASE Claim(b)
  <2>1. \A j \in Jobs : row'[j].status = "dead" => row[j].status = "dead"
    BY <1>2 DEF Claim, TypeOK, JobRow
  <2>2. QED
    BY <1>2, <2>1, NotAtLetter DEF Claim
<1>3. ASSUME NEW k \in Jobs, Handle(b, k) PROVE \A j \in Jobs : j \in Lost' => j \in Lost
  <2>1. /\ batch' = [batch EXCEPT ![b] = [batch[b] EXCEPT !.phase = "handle", !.todo = @ \ {k}, !.job = k]]
        /\ batch[b].phase # "letter" /\ letters' = letters /\ row' = row
    BY <1>3 DEF Handle
  <2>2. QED
    BY <2>1, NotAtLetter
<1>4. ASSUME NEW outcome \in {"complete", "fail"}, Return(b, outcome)
      PROVE  \A j \in Jobs : j \in Lost' => j \in Lost
  <2>1. /\ batch' = [batch EXCEPT ![b] = [batch[b] EXCEPT !.phase = outcome]]
        /\ batch[b].phase # "letter" /\ letters' = letters /\ row' = row
    BY <1>4 DEF Return
  <2>2. QED
    BY <2>1, NotAtLetter
<1>5. ASSUME NEW late \in BOOLEAN, Complete(b, late)
      PROVE  \A j \in Jobs : j \in Lost' => j \in Lost
  <2>1. \A j \in Jobs : row'[j].status = "dead" => row[j].status = "dead"
    BY <1>5 DEF Complete, TypeOK, JobRow
  <2>2. QED
    BY <1>5, <2>1, NotAtLetter DEF Complete
<1>6. ASSUME NEW late \in BOOLEAN, Fail(b, late)
      PROVE  \A j \in Jobs : j \in Lost' => j \in Lost
  <2> DEFINE k == batch[b].job
             attempts == row[k].attempts + 1
  <2>1. /\ batch[b].phase = "fail" /\ letters' = letters
        /\ row' = [row EXCEPT ![k] = [status |-> StatusAfter(attempts), attempts |-> attempts,
                                      lock |-> None, due |-> FALSE]]
        /\ batch' = [batch EXCEPT ![b] = IF LetterDue(attempts) THEN [@ EXCEPT !.phase = "letter"]
                                                                ELSE Resume(@.todo, late)]
    BY <1>6 DEF Fail
  <2>2. k \in Jobs /\ batch[b] \in Batch
    BY <2>1 DEF TypeOK, Busy
  <2>3. \A j \in Jobs : j # k => row'[j] = row[j]
    BY <2>1 DEF TypeOK
  <2>4. row'[k].status = "dead" => batch'[b].phase = "letter" /\ batch'[b].job = k
    BY <2>1, <2>2 DEF TypeOK, StatusAfter, LetterDue, Batch
  <2>5. \A c \in Batches : c # b => batch'[c] = batch[c]
    BY <2>1 DEF TypeOK
  <2> HIDE DEF k, attempts
  <2>6. QED
    BY <2>1, <2>2, <2>3, <2>4, <2>5 DEF Lost
<1>7. ASSUME NEW late \in BOOLEAN, WriteDeadLetter(b, late)
      PROVE  \A j \in Jobs : j \in Lost' => j \in Lost
  <2> DEFINE k == batch[b].job
  <2>1. /\ batch[b].phase = "letter" /\ row' = row /\ letters' = [letters EXCEPT ![k] = @ + 1]
        /\ batch' = [batch EXCEPT ![b] = Resume(batch[b].todo, late)]
    BY <1>7 DEF WriteDeadLetter
  <2>2. k \in Jobs
    BY <2>1 DEF TypeOK, Busy
  <2>3. letters'[k] # 0 /\ \A j \in Jobs : j # k => letters'[j] = letters[j]
    BY <2>1, <2>2 DEF TypeOK
  <2>4. \A c \in Batches : c # b => batch'[c] = batch[c]
    BY <2>1 DEF TypeOK
  <2> HIDE DEF k
  <2>5. k = batch[b].job
    BY DEF k
  <2>6. QED
    BY <2>1, <2>2, <2>3, <2>4, <2>5 DEF Lost
<1>8. ASSUME NEW k \in Jobs, Skip(b, k) PROVE \A j \in Jobs : j \in Lost' => j \in Lost
  <2>1. \A j \in Jobs : row'[j].status = "dead" => row[j].status = "dead"
    BY <1>8 DEF Skip, TypeOK, JobRow
  <2>2. QED
    BY <1>8, <2>1, NotAtLetter DEF Skip
<1>9. QED
  BY <1>1, <1>2, <1>3, <1>4, <1>5, <1>6, <1>7, <1>8 DEF Work

LEMMA TableLosesNothing ==
  ASSUME TypeOK, NEW j \in Jobs,
         (\E due \in BOOLEAN : Enqueue(j, due)) \/ LeaseEnds(j) \/ BecomesDue(j)
  PROVE  /\ \A k \in Jobs : k \in Lost' => k \in Lost
         /\ crashes' = crashes
<1>1. /\ batch' = batch /\ letters' = letters /\ crashes' = crashes
      /\ \A k \in Jobs : row'[k].status = "dead" => row[k].status = "dead"
  BY DEF Enqueue, LeaseEnds, BecomesDue, TypeOK, JobRow
<1>2. QED
  BY <1>1 DEF Lost

(* A batch that dies loses at most the job it has given up just now.       *)
LEMMA CrashLosesOne ==
  ASSUME TypeOK, Counted, NEW b \in Batches, Crash(b)
  PROVE  Counted'
<1> DEFINE x == batch[b].job
<1>1. /\ batch' = [batch EXCEPT ![b] = Idle] /\ letters' = letters /\ crashes' = crashes + 1
      /\ \A j \in Jobs : row'[j].status = row[j].status
  BY DEF Crash, TypeOK, JobRow
<1>2. \A c \in Batches : c # b => batch'[c] = batch[c]
  BY <1>1 DEF TypeOK
<1> HIDE DEF x
<1>3. Lost' \subseteq Lost \cup {x}
  BY <1>1, <1>2 DEF Lost, x
<1>4. /\ IsFiniteSet(Lost \cup {x})
      /\ Cardinality(Lost \cup {x}) <= Cardinality(Lost) + 1
      /\ Cardinality(Lost) \in Nat
  BY FS_AddElement, FS_CardinalityType DEF Counted
<1>5. /\ IsFiniteSet(Lost') /\ Cardinality(Lost') <= Cardinality(Lost \cup {x})
  BY <1>3, <1>4, FS_Subset
<1>6. Cardinality(Lost') \in Nat /\ Cardinality(Lost \cup {x}) \in Nat /\ crashes \in Nat
  BY <1>4, <1>5, FS_CardinalityType, JobsAssumption DEF TypeOK
<1>7. QED
  BY <1>1, <1>4, <1>5, <1>6 DEF Counted

LEMMA CountedStep ==
  ASSUME TypeOK, Counted, [Next]_vars
  PROVE  Counted'
<1>1. crashes \in Nat
  BY JobsAssumption DEF TypeOK
<1>2. ASSUME NEW b \in Batches, ReadCandidates(b) \/ Work(b) PROVE Counted'
  <2>1. crashes' = crashes
    BY <1>2 DEF ReadCandidates, Work, Claim, Handle, Skip, Return, Complete, Fail, WriteDeadLetter
  <2>2. QED
    BY <1>1, <1>2, <2>1, WorkLosesNothing, NothingLost
<1>3. ASSUME NEW j \in Jobs,
             (\E due \in BOOLEAN : Enqueue(j, due)) \/ LeaseEnds(j) \/ BecomesDue(j)
      PROVE  Counted'
  BY <1>1, <1>3, TableLosesNothing, NothingLost
<1>4. ASSUME NEW dead \in Jobs, NEW j \in Jobs, RetryDeadLetter(dead, j) PROVE Counted'
  BY <1>3, <1>4 DEF RetryDeadLetter
<1>5. CASE UNCHANGED vars
  BY <1>5 DEF vars, Counted, Lost
<1>6. QED
  BY <1>2, <1>3, <1>4, <1>5, CrashLosesOne DEF Next

(* However many jobs are given up, and whatever batches do meanwhile, no   *)
(* more dead letters are missing than batches have died (failJob,          *)
(* jobs.js:140).                                                           *)
THEOREM GivenUpIsDeadLettered == Spec => []DeadLettered
<1>1. Init => Counted
  <2> SUFFICES ASSUME Init PROVE Counted
    OBVIOUS
  <2>1. Lost = {} /\ crashes = 0
    BY DEF Init, Lost
  <2>2. QED
    BY <2>1, FS_EmptySet DEF Counted
<1>2. TypeOK /\ Counted /\ [Next]_vars => Counted'
  BY CountedStep
<1>3. Counted => DeadLettered
  BY DEF Counted, DeadLettered
<1>4. QED
  BY <1>1, <1>2, <1>3, TypeCorrect, PTL DEF Spec

-----------------------------------------------------------------------------
(* The batches implement Leases: by Ownership, what a batch has in hand is *)
(* what is locked by it, and a statement locks what is free or unlocks     *)
(* what is its own.                                                        *)

Locked(b) == {j \in Jobs : row[j].lock = b}
(* The locks of all other rows stay with the batches they are with *)
LocksStay(S) == \A j \in Jobs \ S, c \in Batches : row'[j].lock = c <=> row[j].lock = c

LEMMA HandsAreLocks == ASSUME TypeOK, Ownership PROVE Hands = [b \in Batches |-> Locked(b)]
<1>1. \A b \in Batches : Held(b) = Locked(b)
  BY DEF Ownership, Locked, Held
<1>2. QED
  BY <1>1 DEF Hands

LEMMA NothingMoves ==
  ASSUME Hands = [b \in Batches |-> Locked(b)], Hands' = [b \in Batches |-> Locked(b)'],
         LocksStay({})
  PROVE  UNCHANGED Hands
<1>1. \A b \in Batches : Locked(b)' = Locked(b)
  BY DEF LocksStay, Locked
<1>2. QED
  BY <1>1

LEMMA TakesHand ==
  ASSUME Hands = [b \in Batches |-> Locked(b)], Hands' = [b \in Batches |-> Locked(b)'],
         NEW b \in Batches, NEW S \in SUBSET Jobs, LocksStay(S),
         \A j \in S : row[j].lock \notin Batches /\ row'[j].lock = b
  PROVE  Lease!Next
<1>1. S \in SUBSET Lease!Free
  BY DEF Lease!Free, Locked
<1>2. \A c \in Batches : Locked(c)' = IF c = b THEN Locked(c) \cup S ELSE Locked(c)
  BY DEF LocksStay, Locked
<1>3. Hands' = [Hands EXCEPT ![b] = @ \cup S]
  BY <1>2
<1>4. Lease!Take(b)
  BY <1>1, <1>3 DEF Lease!Take
<1>5. QED
  BY <1>4 DEF Lease!Next

LEMMA LaysDownHand ==
  ASSUME Hands = [b \in Batches |-> Locked(b)], Hands' = [b \in Batches |-> Locked(b)'],
         NEW b \in Batches, NEW S \in SUBSET Jobs, LocksStay(S),
         \A j \in S : row[j].lock = b /\ row'[j].lock \notin Batches
  PROVE  Lease!Next
<1>1. S \in SUBSET Hands[b]
  BY DEF Locked
<1>2. \A c \in Batches : Locked(c)' = IF c = b THEN Locked(c) \ S ELSE Locked(c)
  BY DEF LocksStay, Locked
<1>3. Hands' = [Hands EXCEPT ![b] = @ \ S]
  BY <1>2
<1>4. Lease!LayDown(b)
  BY <1>1, <1>3 DEF Lease!LayDown
<1>5. QED
  BY <1>4 DEF Lease!Next

LEMMA LeasesStep == ASSUME TypeOK, Ownership, [Next]_vars PROVE [Lease!Next]_Hands
<1> USE JobsAssumption
<1>1. Hands = [b \in Batches |-> Locked(b)]
  BY HandsAreLocks
<1>2. Hands' = [b \in Batches |-> Locked(b)']
  <2>1. TypeOK' /\ Ownership'
    BY OwnershipStep
  <2>2. (TypeOK /\ Ownership => Hands = [b \in Batches |-> Locked(b)])'
    BY HandsAreLocks, PTL
  <2>3. QED
    BY <2>1, <2>2
<1>3. CASE UNCHANGED row
  BY <1>1, <1>2, <1>3, NothingMoves DEF LocksStay
<1>4. ASSUME NEW j \in Jobs, NEW due \in BOOLEAN, Enqueue(j, due) \/ LeaseEnds(j) \/ BecomesDue(j)
      PROVE  UNCHANGED Hands
  <2>1. row[j].lock \notin Batches \/ row'[j].lock = row[j].lock
    BY <1>4 DEF Enqueue, LeaseEnds, BecomesDue, TypeOK, Ownership
  <2>2. row'[j].lock = None \/ row'[j].lock = row[j].lock
    BY <1>4 DEF Enqueue, LeaseEnds, BecomesDue, TypeOK, JobRow
  <2>3. \A k \in Jobs \ {j} : row'[k] = row[k]
    BY <1>4 DEF Enqueue, LeaseEnds, BecomesDue, TypeOK
  <2>4. LocksStay({})
    BY <2>1, <2>2, <2>3 DEF LocksStay
  <2>5. QED
    BY <1>1, <1>2, <2>4, NothingMoves
<1>5. ASSUME NEW b \in Batches, Claim(b) PROVE Lease!Next
  <2> DEFINE taken == {j \in batch[b].todo : Unlocked(j)}
  <2>1. taken \in SUBSET Jobs
    BY DEF TypeOK, Batch
  <2>2. \A j \in Jobs : row'[j] = IF j \in taken THEN [row[j] EXCEPT !.status = "running", !.lock = b]
                                                 ELSE row[j]
    BY <1>5 DEF Claim
  <2>3. \A j \in taken : row[j].lock = None /\ row'[j].lock = b
    BY <2>1, <2>2 DEF Unlocked, TypeOK, JobRow
  <2>4. LocksStay(taken)
    BY <2>2 DEF LocksStay
  <2>5. QED
    BY <1>1, <1>2, <2>1, <2>3, <2>4, TakesHand
<1>6. ASSUME NEW b \in Batches, NEW j \in Held(b), row'[j].lock = None,
             \A k \in Jobs \ {j} : row'[k] = row[k]
      PROVE  Lease!Next
  <2>1. j \in Jobs /\ row[j].lock = b
    BY <1>6 DEF Held, Ownership
  <2>2. LocksStay({j})
    BY <1>6 DEF LocksStay
  <2>3. QED
    BY <1>1, <1>2, <1>6, <2>1, <2>2, LaysDownHand
<1>7. ASSUME NEW b \in Batches, NEW late \in BOOLEAN, Complete(b, late) \/ Fail(b, late)
      PROVE  Lease!Next
  <2>1. batch[b].job \in Held(b)
    BY <1>7 DEF Complete, Fail, Held, Busy, TypeOK
  <2>2. row'[batch[b].job].lock = None /\ \A k \in Jobs \ {batch[b].job} : row'[k] = row[k]
    BY <1>7, <2>1 DEF Complete, Fail, TypeOK, JobRow, Held
  <2>3. QED
    BY <1>6, <2>1, <2>2
<1>8. ASSUME NEW b \in Batches, NEW j \in Jobs, Skip(b, j) PROVE Lease!Next
  <2>1. j \in Held(b)
    BY <1>8 DEF Skip, Held, Busy
  <2>2. row'[j].lock = None /\ \A k \in Jobs \ {j} : row'[k] = row[k]
    BY <1>8 DEF Skip, TypeOK, JobRow
  <2>3. QED
    BY <1>6, <2>1, <2>2
<1>9. ASSUME NEW b \in Batches, Crash(b) PROVE Lease!Next
  <2> DEFINE S == {j \in Jobs : row[j].lock = b}
  <2>1. \A j \in Jobs : row'[j] = IF row[j].lock = b THEN [row[j] EXCEPT !.lock = Ghost] ELSE row[j]
    BY <1>9 DEF Crash
  <2>2. \A j \in S : row'[j].lock = Ghost
    BY <2>1 DEF TypeOK, JobRow
  <2>3. LocksStay(S)
    BY <2>1 DEF LocksStay
  <2>4. QED
    BY <1>1, <1>2, <2>2, <2>3, LaysDownHand
<1>10. ASSUME NEW b \in Batches, ReadCandidates(b) \/ Work(b) PROVE UNCHANGED row \/ Lease!Next
  BY <1>5, <1>7, <1>8, <1>10 DEF Work, ReadCandidates, Handle, Return, WriteDeadLetter
<1>11. ASSUME NEW dead \in Jobs, NEW j \in Jobs, RetryDeadLetter(dead, j) PROVE UNCHANGED Hands
  BY <1>4, <1>11 DEF RetryDeadLetter
<1>12. QED
  BY <1>3, <1>4, <1>9, <1>10, <1>11 DEF Next, vars

(* Whatever the interleaving of the statements of batches, of deaths and   *)
(* leases: a job goes into a hand only from none, and out of it only by    *)
(* the batch itself or its death.                                          *)
THEOREM BatchesImplementLeases == Spec => ImplementsLeases
<1>1. Init => Lease!Init
  BY DEF Init, Lease!Init, Hands, Held, Idle, Busy
<1>2. TypeOK /\ Ownership /\ [Next]_vars => [Lease!Next]_Hands
  BY LeasesStep
<1>3. QED
  BY <1>1, <1>2, TypeCorrect, OwnershipHolds, PTL DEF Spec, ImplementsLeases, Lease!Spec

=============================================================================
