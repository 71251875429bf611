------------------------------ MODULE JobQueue ------------------------------
(***************************************************************************)
(* The job table and the batches that work on it (core/jobs.js).  A batch  *)
(* is one call of runJobBatch, made by a cron request; several run at the  *)
(* same time.  Every statement a batch sends is a step, so another batch   *)
(* may come between the read of the candidates and the update that claims  *)
(* them.  Nothing here is a transaction.                                   *)
(*                                                                         *)
(* Clocks are abstracted: a job's run_after is in the past or not ("due"), *)
(* and its lease stands as long as "lock" names a batch.                   *)
(***************************************************************************)
EXTENDS Integers, FiniteSets

CONSTANTS
  Jobs,         \* ids of jobs rows
  KeyOf,        \* the dedupe_key each would be inserted with, or None
  Batches,      \* calls of runJobBatch that may be under way together
  None,         \* an SQL NULL
  Ghost,        \* locked_by of a batch that died
  MaxAttempts,  \* jobs.max_attempts
  Limit,        \* the most jobs one batch claims
  MaxCrashes    \* how many batches may die (bound)

ASSUME JobsAssumption ==
  /\ None \notin Jobs \cup Batches /\ Ghost \notin Batches \cup {None}
  /\ MaxAttempts \in Nat \ {0} /\ Limit \in Nat \ {0} /\ MaxCrashes \in Nat

VARIABLES
  row,      \* the jobs table, status "none" before the insert
  batch,    \* where each batch is
  letters,  \* number of dead_letter_jobs rows of each job
  crashes   \* how many batches have died

vars == <<row, batch, letters, crashes>>

JobStatus == {"queued", "retry", "running", "completed", "dead"}
JobRow == [status : JobStatus \cup {"none"}, attempts : Nat,
           lock : Batches \cup {None, Ghost}, due : BOOLEAN]

(* A batch reads candidates, claims them, then takes them one by one: it   *)
(* runs the handler and records the outcome, in the statements of          *)
(* completeJob and failJob, or gives back what its time does not reach.    *)
Phase == {"idle", "read", "next", "handle", "complete", "fail", "letter", "skip"}
Batch == [phase : Phase, todo : SUBSET Jobs, job : Jobs \cup {None}]
Idle == [phase |-> "idle", todo |-> {}, job |-> None]

Init ==
  /\ row = [j \in Jobs |-> [status |-> "none", attempts |-> 0, lock |-> None, due |-> FALSE]]
  /\ batch = [b \in Batches |-> Idle]
  /\ letters = [j \in Jobs |-> 0]
  /\ crashes = 0

(* A row with the key, in whatever status, keeps a second one out.         *)
Enqueue(j, due) ==
  /\ row[j].status = "none"
  /\ KeyOf[j] = None \/ \A k \in Jobs : KeyOf[k] = KeyOf[j] => row[k].status = "none"
  /\ row' = [row EXCEPT ![j] = [status |-> "queued", attempts |-> 0, lock |-> None, due |-> due]]
  /\ UNCHANGED <<batch, letters, crashes>>

(* An administrator requeues a dead letter, as a new job without a key;    *)
(* whether it was requeued before is not looked at.                        *)
RetryDeadLetter(dead, j) ==
  /\ letters[dead] > 0
  /\ KeyOf[j] = None
  /\ Enqueue(j, TRUE)

-----------------------------------------------------------------------------
(* claimJobs *)

FreshOnly(j) == row[j].status = "queued" /\ row[j].due /\ row[j].lock = None  \* mutant
Claimable(j) == row[j].status \in {"queued", "retry"} /\ row[j].due /\ row[j].lock = None

(* The candidates are the first Limit claimable jobs; which come first is  *)
(* a matter of priority and age that is left open.                         *)
ReadCandidates(b) ==
  LET claimable == {j \in Jobs : Claimable(j)} IN
  /\ batch[b].phase = "idle"
  /\ \E S \in SUBSET claimable :
       /\ S # {}
       /\ S = claimable \/ Cardinality(S) = Limit
       /\ Cardinality(S) <= Limit
       /\ batch' = [batch EXCEPT ![b] = [phase |-> "read", todo |-> S, job |-> None]]
  /\ UNCHANGED <<row, letters, crashes>>

Resume(todo, late) ==
  [phase |-> IF todo = {} THEN "idle" ELSE IF late THEN "skip" ELSE "next",
   todo |-> todo, job |-> None]

TakeLocked(j) == TRUE  \* mutant
(* The claiming update looks at the lease again, and at nothing else.      *)
Unlocked(j) == row[j].lock = None
Claim(b) ==
  LET taken == {j \in batch[b].todo : Unlocked(j)} IN
  /\ batch[b].phase = "read"
  /\ row' = [j \in Jobs |-> IF j \in taken THEN [row[j] EXCEPT !.status = "running", !.lock = b]
                                          ELSE row[j]]
  /\ batch' = [batch EXCEPT ![b] = Resume(taken, FALSE)]
  /\ UNCHANGED <<letters, crashes>>

-----------------------------------------------------------------------------
(* runJobBatch *)

Handle(b, j) ==
  /\ batch[b].phase = "next" /\ j \in batch[b].todo
  /\ batch' = [batch EXCEPT ![b].phase = "handle", ![b].todo = @ \ {j}, ![b].job = j]
  /\ UNCHANGED <<row, letters, crashes>>

(* The handler returns or throws; a job type without a handler throws.     *)
Return(b, outcome) ==
  /\ batch[b].phase = "handle"
  /\ batch' = [batch EXCEPT ![b].phase = outcome]
  /\ UNCHANGED <<row, letters, crashes>>

Complete(b, late) ==
  LET j == batch[b].job IN
  /\ batch[b].phase = "complete"
  /\ row' = [row EXCEPT ![j].status = "completed", ![j].lock = None]
  /\ batch' = [batch EXCEPT ![b] = Resume(@.todo, late)]
  /\ UNCHANGED <<letters, crashes>>

Exhausted(attempts) == attempts >= MaxAttempts
StatusOfAttempt(attempts) == IF Exhausted(attempts) THEN "dead" ELSE "failed"  \* mutant
StatusAfter(attempts) == IF Exhausted(attempts) THEN "dead" ELSE "retry"
NeverWritten(attempts) == FALSE  \* mutant
LetterDue(attempts) == Exhausted(attempts)

Fail(b, late) ==
  LET j == batch[b].job
      attempts == row[j].attempts + 1
  IN
  /\ batch[b].phase = "fail"
  /\ row' = [row EXCEPT ![j] = [status |-> StatusAfter(attempts), attempts |-> attempts,
                                lock |-> None, due |-> FALSE]]
  /\ batch' = [batch EXCEPT ![b] = IF LetterDue(attempts) THEN [@ EXCEPT !.phase = "letter"]
                                                          ELSE Resume(@.todo, late)]
  /\ UNCHANGED <<letters, crashes>>

WriteDeadLetter(b, late) ==
  /\ batch[b].phase = "letter"
  /\ letters' = [letters EXCEPT ![batch[b].job] = @ + 1]
  /\ batch' = [batch EXCEPT ![b] = Resume(@.todo, late)]
  /\ UNCHANGED <<row, crashes>>

(* Past its time budget a batch gives the rest of its jobs back.           *)
Skip(b, j) ==
  /\ batch[b].phase = "skip" /\ j \in batch[b].todo
  /\ row' = [row EXCEPT ![j].status = "queued", ![j].lock = None]
  /\ batch' = [batch EXCEPT ![b] = Resume(@.todo \ {j}, TRUE)]
  /\ UNCHANGED <<letters, crashes>>

-----------------------------------------------------------------------------
(* Time, and the platform that runs the functions *)

(* The function is killed, or one of its statements fails and ends it.     *)
Crash(b) ==
  /\ crashes < MaxCrashes
  /\ batch[b].phase # "idle"
  /\ crashes' = crashes + 1
  /\ row' = [j \in Jobs |-> IF row[j].lock = b THEN [row[j] EXCEPT !.lock = Ghost] ELSE row[j]]
  /\ batch' = [batch EXCEPT ![b] = Idle]
  /\ UNCHANGED letters

(* A function lives 60 seconds at most and a lease 120: no lease runs out  *)
(* under a live batch, nor under one that has read the job as a candidate. *)
LeaseEnds(j) ==
  /\ row[j].lock = Ghost
  /\ \A b \in Batches : batch[b].phase = "read" => j \notin batch[b].todo
  /\ row' = [row EXCEPT ![j].lock = None]
  /\ UNCHANGED <<batch, letters, crashes>>

BecomesDue(j) ==
  /\ row[j].status \in {"queued", "retry"} /\ ~row[j].due
  /\ row' = [row EXCEPT ![j].due = TRUE]
  /\ UNCHANGED <<batch, letters, crashes>>

Work(b) ==
  \/ Claim(b)
  \/ \E j \in Jobs : Handle(b, j) \/ Skip(b, j)
  \/ \E outcome \in {"complete", "fail"} : Return(b, outcome)
  \/ \E late \in BOOLEAN : Complete(b, late) \/ Fail(b, late) \/ WriteDeadLetter(b, late)

Next ==
  \/ \E j \in Jobs, due \in BOOLEAN : Enqueue(j, due)
  \/ \E dead, j \in Jobs : RetryDeadLetter(dead, j)
  \/ \E b \in Batches : ReadCandidates(b) \/ Work(b) \/ Crash(b)
  \/ \E j \in Jobs : LeaseEnds(j) \/ BecomesDue(j)

Spec == Init /\ [][Next]_vars

(* Cron calls the runner every minute, a batch that does not die goes on,  *)
(* and time passes.                                                        *)
Fairness ==
  /\ \A b \in Batches : WF_vars(ReadCandidates(b)) /\ WF_vars(Work(b))
  /\ \A j \in Jobs : WF_vars(BecomesDue(j))

FairSpec == Spec /\ Fairness

-----------------------------------------------------------------------------
(* Properties *)

Busy == {"handle", "complete", "fail", "letter"}

(* Types of the tables and of the batches; a batch that is busy with a job *)
(* has taken it off its list.                                              *)
TypeOK ==
  /\ row \in [Jobs -> JobRow]
  /\ batch \in [Batches -> Batch]
  /\ letters \in [Jobs -> Nat]
  /\ crashes \in 0..MaxCrashes
  /\ \A b \in Batches : batch[b].phase \in Busy => batch[b].job \in Jobs \ batch[b].todo

(* The jobs a batch has claimed and not finished with.                     *)
Held(b) ==
  {j \in Jobs : \/ batch[b].phase \in {"next", "skip"} \cup Busy /\ j \in batch[b].todo
                \/ batch[b].phase \in Busy \ {"letter"} /\ j = batch[b].job}

(* jobs.js:73, "safe under concurrency": however batches interleave, the   *)
(* lock of a row is the batch that holds it, so no job is ever in two      *)
(* hands, and a row marked running is in a live batch's hands or died.     *)
Ownership ==
  /\ \A b \in Batches : \A j \in Jobs : row[j].lock = b <=> j \in Held(b)
  /\ \A j \in Jobs : row[j].lock \in Batches => row[j].status = "running"

(* The batches implement Leases: however they meet between the read of the *)
(* candidates and the claim, a job is taken only from nobody's hands.      *)
Hands == [b \in Batches |-> Held(b)]
Lease == INSTANCE Leases WITH Items <- Jobs, Holders <- Batches, hands <- Hands
ImplementsLeases == Lease!Spec

(* operations.md:20, jobs.js:140: a job given up lands in the dead letters; *)
(* only a batch that dies just then can lose one.                          *)
Lost == {j \in Jobs : /\ row[j].status = "dead" /\ letters[j] = 0
                      /\ \A b \in Batches : ~(batch[b].phase = "letter" /\ batch[b].job = j)}
DeadLettered == Cardinality(Lost) <= crashes

(* operations.md:19: every job is completed or given up in the end, except *)
(* the ones a dying batch had in hand.                                     *)
Orphaned(j) == row[j].status = "running" /\ row[j].lock \notin Batches
Settles ==
  \A j \in Jobs :
    row[j].status # "none" ~> (row[j].status \in {"completed", "dead"} \/ Orphaned(j))

(* architecture.md:76, cron/routes.js:28, and the test at                  *)
(* crm-flows.test.js:207: a second run finds nothing left to claim, so a   *)
(* job that was completed or given up is not claimed again.                *)
FinishedNotReclaimed ==
  [][\A j \in Jobs : row[j].status \in {"completed", "dead"} => row'[j].status # "running"]_vars

=============================================================================
