------------------------------- MODULE Workflows -------------------------------
(***************************************************************************)
(* The runs of one published workflow on one entity, on one day            *)
(* (modules/workflows/engine.js, the handlers of its jobs in               *)
(* jobs/handlers.js, the sweep in modules/cron/routes.js).                 *)
(*                                                                         *)
(* An event of the entity queues a job; the job inserts a run and does the *)
(* actions in order.  A wait ends the job and queues one that goes on after*)
(* it.  What the actions write and the log of them are left out, and what  *)
(* the conditions are evaluated on is not modelled: they hold or not.      *)
(***************************************************************************)
EXTENDS Integers, Sequences, FiniteSets, TLC

CONSTANTS
  Events,      \* events that trigger the workflow, each with a payload of its own
  Actions,     \* the kinds of the actions of the version, by position
  Workers,     \* jobs that may run together
  None,        \* no job
  MaxRuns,     \* max_runs_per_entity_per_day
  MaxTries,    \* attempts of a job before it is dead
  MaxMishaps   \* how often a job dies, a statement throws or a job that
               \* is over is claimed again (bound)

ASSUME WorkflowsAssumption ==
  /\ Actions \in Seq({"plain", "once", "wait"})
  /\ IsFiniteSet(Workers) /\ Workers # {}
  /\ MaxRuns \in Nat /\ MaxTries \in Nat \ {0} /\ MaxMishaps \in Nat

(* A plain action may be repeated; the points and the celebration carry an *)
(* idempotency key of the run and the position ("once").  The positions of *)
(* a version are taken to be distinct, which the schema does not ask for:  *)
(* an action at the position of a wait before it would be left out, since  *)
(* the run goes on at the position behind the wait.                        *)
Positions == 1..Len(Actions)

VARIABLES
  run,      \* status of the run of each event, "none" before it is inserted,
            \* "ended" for skipped, failed or completed
  due,      \* whether resume_at of the run has come
  done,     \* how often each action of each run was done
  job,      \* jobs by dedupe key; "due" when run_after has come
  work,     \* where each running job is
  candidate,  \* the job each worker read and has not claimed yet
  faults,
  again     \* how often a job that was over was claimed

vars == <<run, due, done, job, work, candidate, faults, again>>

Mishaps == faults + again

RunStatus == {"none", "running", "waiting", "ended"}
Key == [kind : {"run", "resume", "sweep"}, event : Events, n : 0..Len(Actions)]
Job == [status : {"queued", "running", "over"}, due : BOOLEAN, tries : Nat]
Step == {"idle", "count", "insert", "evaluate", "act", "park"}
Work == [step : Step, key : Key \cup {None}, at : 0..(Len(Actions) + 1)]
Idle == [step |-> "idle", key |-> None, at |-> 0]

JobKey(kind, e, n) == [kind |-> kind, event |-> e, n |-> n]
Enqueued(k, now) ==
  [x \in DOMAIN job \cup {k} |->
     IF x \in DOMAIN job THEN job[x] ELSE [status |-> "queued", due |-> now, tries |-> 0]]

Init ==
  /\ run = [e \in Events |-> "none"]
  /\ due = [e \in Events |-> FALSE]
  /\ done = [e \in Events |-> [i \in Positions |-> 0]]
  /\ job = <<>>
  /\ work = [w \in Workers |-> Idle]
  /\ candidate = [w \in Workers |-> None]
  /\ faults = 0 /\ again = 0

-----------------------------------------------------------------------------
(* What queues jobs *)

(* dispatchTrigger, which the outbox may call again for the same event     *)
DispatchTrigger(e) ==
  /\ JobKey("run", e, 0) \notin DOMAIN job
  /\ job' = Enqueued(JobKey("run", e, 0), TRUE)
  /\ UNCHANGED <<run, due, done, work, candidate, faults, again>>

TimePasses(e) ==
  /\ run[e] = "waiting" /\ ~due[e]
  /\ due' = [due EXCEPT ![e] = TRUE]
  /\ job' = [k \in DOMAIN job |-> IF k.event = e THEN [job[k] EXCEPT !.due = TRUE] ELSE job[k]]
  /\ UNCHANGED <<run, done, work, candidate, faults, again>>

(* The sweep gives no position to resume from, and the key is always the   *)
(* same.                                                                   *)
KeyOfToday(e) ==  \* mutant
  LET used == {n \in 0..Len(Actions) : JobKey("sweep", e, n) \in DOMAIN job} IN
  JobKey("sweep", e, Cardinality(used) % (Len(Actions) + 1))
SweepKey(e) == JobKey("sweep", e, 0)
Sweep(e) ==
  /\ run[e] = "waiting" /\ due[e] /\ SweepKey(e) \notin DOMAIN job
  /\ job' = Enqueued(SweepKey(e), TRUE)
  /\ UNCHANGED <<run, due, done, work, candidate, faults, again>>

-----------------------------------------------------------------------------
(* Jobs *)

Of(w) == work[w].key.event
Goto(w, step, at) == work' = [work EXCEPT ![w].step = step, ![w].at = at]
Over(k) == [job EXCEPT ![k].status = "over"]
Failed(k) ==
  IF job[k].tries + 1 >= MaxTries THEN Over(k)
  ELSE [job EXCEPT ![k] = [status |-> "queued", due |-> TRUE, tries |-> job[k].tries + 1]]
(* completeJob, after the handler returned *)
Return(w) == job' = Over(work[w].key) /\ work' = [work EXCEPT ![w] = Idle]

(* startPosition: a job to resume starts behind its wait, any other at the *)
(* first action.                                                           *)
TwoBehind(k) == IF k.kind = "resume" THEN k.n + 2 ELSE 1  \* mutant
StartPosition(k) == IF k.kind = "resume" THEN k.n + 1 ELSE 1

(* claimJobs reads the jobs that are due and then claims them by their     *)
(* lease alone: in between the job may have been done by another worker,   *)
(* and then it is done again.                                              *)
ReadCandidate(w, k) ==
  /\ work[w].step = "idle" /\ job[k].status = "queued" /\ job[k].due
  /\ candidate' = [candidate EXCEPT ![w] = k]
  /\ UNCHANGED <<run, due, done, job, work, faults, again>>

StillQueued(k) == job  \* mutant
Claimed(k) == [job EXCEPT ![k].status = "running"]
Take(w) ==
  LET k == candidate[w] IN
  /\ k # None
  /\ candidate' = [candidate EXCEPT ![w] = None]
  /\ \/ job[k].status = "running" /\ UNCHANGED <<job, work, again>>
     \/ /\ job[k].status # "running"
        /\ IF job[k].status = "over" THEN Mishaps < MaxMishaps /\ again' = again + 1
                                     ELSE UNCHANGED again
        /\ job' = Claimed(k)
        /\ work' = [work EXCEPT ![w] = [step |-> IF k.kind = "run" THEN "count" ELSE "evaluate",
                                        key |-> k, at |-> 0]]
  /\ UNCHANGED <<run, due, done, faults>>

(* A batch that is past its time gives back what it has not begun.         *)
GiveBack(w) ==
  /\ work[w].step \in {"count", "evaluate"}
  /\ job' = [job EXCEPT ![work[w].key].status = "queued"]
  /\ work' = [work EXCEPT ![w] = Idle]
  /\ UNCHANGED <<run, due, done, candidate, faults, again>>

(* The runs of the day are counted, and the run inserted by a second       *)
(* statement; a run that was inserted before breaks its idempotency key.   *)
Started == {e \in Events : run[e] # "none"}
BelowLimit == Cardinality(Started) < MaxRuns
Count(w) ==
  /\ work[w].step = "count"
  /\ IF BelowLimit THEN Goto(w, "insert", 0) /\ UNCHANGED job ELSE Return(w)
  /\ UNCHANGED <<run, due, done, candidate, faults, again>>
Insert(w, matched) ==
  LET e == Of(w) IN
  /\ work[w].step = "insert"
  /\ IF run[e] # "none"
       THEN job' = Failed(work[w].key) /\ work' = [work EXCEPT ![w] = Idle] /\ UNCHANGED run
       ELSE /\ run' = [run EXCEPT ![e] = IF matched THEN "running" ELSE "ended"]
            /\ IF matched THEN Goto(w, "act", 1) /\ UNCHANGED job ELSE Return(w)
  /\ UNCHANGED <<due, done, candidate, faults, again>>

(* A job to resume reads the run and evaluates the conditions again, and   *)
(* does not look at the status.                                            *)
Evaluate(w, matched) ==
  /\ work[w].step = "evaluate"
  /\ IF matched THEN Goto(w, "act", StartPosition(work[w].key)) /\ UNCHANGED <<run, job>>
                ELSE run' = [run EXCEPT ![Of(w)] = "ended"] /\ Return(w)
  /\ UNCHANGED <<due, done, candidate, faults, again>>

AtAction(w, kinds) == work[w].step = "act" /\ work[w].at \in Positions /\ Actions[work[w].at] \in kinds
Counted(w) == done' = [done EXCEPT ![Of(w)][work[w].at] = @ + 1]

Act(w) ==
  /\ AtAction(w, {"plain", "once"})
  /\ Actions[work[w].at] = "once" => done[Of(w)][work[w].at] = 0
  /\ Counted(w)
  /\ Goto(w, "act", work[w].at + 1)
  /\ UNCHANGED <<run, due, job, candidate, faults, again>>

(* A celebration that is there already is found, and nothing is done.      *)
FindDone(w) ==
  /\ AtAction(w, {"once"}) /\ done[Of(w)][work[w].at] > 0
  /\ Goto(w, "act", work[w].at + 1)
  /\ UNCHANGED <<run, due, done, job, candidate, faults, again>>

(* An action that throws ends the run, as does the log of the one before;  *)
(* points that are there already throw, and so may the queue in a wait.    *)
ActionThrows(w) ==
  /\ work[w].step \in {"act", "park"}
  /\ work[w].at \in Positions \/ work[w].at > StartPosition(work[w].key)
  /\ run' = [run EXCEPT ![Of(w)] = "ended"]
  /\ Return(w)
  /\ UNCHANGED <<due, done, candidate, faults, again>>

(* wait: the status is written, then the job is queued, then the run halts.*)
Wait(w) ==
  /\ AtAction(w, {"wait"})
  /\ run' = [run EXCEPT ![Of(w)] = "waiting"]
  /\ due' = [due EXCEPT ![Of(w)] = FALSE]
  /\ Counted(w)
  /\ Goto(w, "park", work[w].at)
  /\ UNCHANGED <<job, candidate, faults, again>>
QueueResume(w) ==
  LET k == JobKey("resume", Of(w), work[w].at) IN
  /\ work[w].step = "park"
  /\ job' = [Enqueued(k, FALSE) EXCEPT ![work[w].key].status = "over"]
  /\ work' = [work EXCEPT ![w] = Idle]
  /\ UNCHANGED <<run, due, done, candidate, faults, again>>

Complete(w) ==
  /\ work[w].step = "act" /\ work[w].at \notin Positions
  /\ run' = [run EXCEPT ![Of(w)] = "ended"]
  /\ Return(w)
  /\ UNCHANGED <<due, done, candidate, faults, again>>

(* The function dies: the job is left running, and no batch takes it again.*)
Crash(w) ==
  /\ work[w].step # "idle" /\ Mishaps < MaxMishaps
  /\ faults' = faults + 1
  /\ work' = [work EXCEPT ![w] = Idle]
  /\ UNCHANGED <<run, due, done, job, candidate, again>>

(* A statement outside the actions throws: the job is tried again, from    *)
(* its first position.                                                     *)
Throw(w) ==
  /\ work[w].step \in {"count", "insert", "evaluate", "act"} /\ Mishaps < MaxMishaps
  /\ work[w].step = "act" => work[w].at \notin Positions
  /\ faults' = faults + 1
  /\ job' = Failed(work[w].key)
  /\ work' = [work EXCEPT ![w] = Idle]
  /\ UNCHANGED <<run, due, done, candidate, again>>

Next ==
  \/ \E e \in Events : DispatchTrigger(e) \/ TimePasses(e) \/ Sweep(e)
  \/ \E w \in Workers :
       \/ \E k \in DOMAIN job : ReadCandidate(w, k)
       \/ Take(w) \/ GiveBack(w)
       \/ Count(w) \/ Act(w) \/ FindDone(w) \/ ActionThrows(w) \/ Wait(w) \/ QueueResume(w)
       \/ Complete(w) \/ Crash(w) \/ Throw(w)
       \/ \E matched \in BOOLEAN : Insert(w, matched) \/ Evaluate(w, matched)

Spec == Init /\ [][Next]_vars

-----------------------------------------------------------------------------
(* Properties *)

(* Types; a job runs for one worker, and there is a run for every job that *)
(* resumes or sweeps one and for every job past its insert.                *)
TypeOK ==
  /\ run \in [Events -> RunStatus]
  /\ due \in [Events -> BOOLEAN]
  /\ done \in [Events -> [Positions -> Nat]]
  /\ DOMAIN job \subseteq Key
  /\ \A k \in DOMAIN job : job[k] \in Job /\ (k.kind # "run" => run[k.event] # "none")
  /\ work \in [Workers -> Work]
  /\ faults \in Nat /\ again \in Nat
  /\ candidate \in [Workers -> Key \cup {None}]
  /\ \A w \in Workers : candidate[w] # None =>
       work[w].step = "idle" /\ candidate[w] \in DOMAIN job
  /\ \A w \in Workers : work[w].step # "idle" =>
       /\ work[w].key \in DOMAIN job /\ job[work[w].key].status = "running"
       /\ \A v \in Workers \ {w} : work[v].step # "idle" => work[v].key # work[w].key
       /\ work[w].step \in {"evaluate", "act", "park"} => run[Of(w)] # "none"

(* However a run is halted, resumed, swept or died: an action is done only *)
(* after all those before it were done or waited out.                      *)
NothingSkipped ==
  \A e \in Events, i \in Positions : done[e][i] > 0 => \A j \in 1..(i - 1) : done[e][j] > 0

(* README.md:34, "loop protection", and docs/operations.md:20, jobs are    *)
(* "safe to run twice": a workflow acts on an entity as often a day as its *)
(* limit says, give or take the jobs that count the runs together; a job   *)
(* to resume does its part once, and once more for every fault that makes  *)
(* it start again and every claim of a job that is over; and the sweep,    *)
(* which starts from the first action, repeats what comes before the first *)
(* wait, and only once.                                                    *)
Behind(i) == \E j \in 1..(i - 1) : Actions[j] = "wait"
MostOften(e, i) ==
  IF Actions[i] = "once" THEN 1
  ELSE Mishaps + IF JobKey("sweep", e, 0) \in DOMAIN job /\ ~Behind(i) THEN 2 ELSE 1
ActsWithinBounds ==
  /\ Cardinality(Started) <= MaxRuns + Cardinality(Workers) - 1
  /\ \A e \in Events, i \in Positions : done[e][i] <= MostOften(e, i)

=============================================================================
