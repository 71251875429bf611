---------------------------- MODULE WorkflowsProofs ----------------------------
(* Proofs about Workflows, for any events, actions, limits and workers.    *)
EXTENDS Workflows, TLAPS, FiniteSetTheorems

-----------------------------------------------------------------------------
(* What the operators on the job table do *)

(* The table but for one row, which stays a job and a key *)
Kept(table, k) ==
  /\ DOMAIN table = DOMAIN job
  /\ \A x \in DOMAIN job : table[x] \in Job
  /\ \A x \in DOMAIN job \ {k} : table[x] = job[x]

LEMMA OverKeeps ==
  ASSUME TypeOK, NEW k \in DOMAIN job
  PROVE  Kept(Over(k), k)
BY DEF Over, Kept, TypeOK, Job

LEMMA FailedKeeps ==
  ASSUME TypeOK, NEW k \in DOMAIN job
  PROVE  Kept(Failed(k), k)
<1>1. CASE job[k].tries + 1 >= MaxTries
  BY <1>1, OverKeeps DEF Failed
<1>2. CASE ~(job[k].tries + 1 >= MaxTries)
  <2> DEFINE row == [status |-> "queued", due |-> TRUE, tries |-> job[k].tries + 1]
  <2>1. row \in Job
    <3>1. job[k] \in Job
      BY DEF TypeOK
    <3>2. job[k].tries + 1 \in Nat
      BY <3>1 DEF Job
    <3>3. QED
      BY <3>2 DEF Job
  <2>2. Failed(k) = [job EXCEPT ![k] = row]
    BY <1>2 DEF Failed
  <2>3. QED
    BY <2>1, <2>2 DEF Kept, TypeOK
<1>3. QED
  BY <1>1, <1>2

LEMMA ClaimedKeeps ==
  ASSUME TypeOK, NEW k \in DOMAIN job
  PROVE  Kept(Claimed(k), k) /\ Claimed(k)[k].status = "running"
BY DEF Claimed, Kept, TypeOK, Job

-----------------------------------------------------------------------------
(* What the steps of a worker keep of the types *)

(* The rows of the runs keep their types, and a run that was inserted stays*)
RunsKept ==
  /\ run' \in [Events -> RunStatus]
  /\ \A e \in Events : run[e] # "none" => run'[e] # "none"
  /\ due' \in [Events -> BOOLEAN]
  /\ done' \in [Events -> [Positions -> Nat]]
  /\ faults' \in Nat
  /\ UNCHANGED <<candidate, again>>
Reading(v) == candidate[v] # None => work[v].step = "idle" /\ candidate[v] \in DOMAIN job

LEMMA WorkerHolds ==
  ASSUME TypeOK, NEW w \in Workers, work[w].step # "idle"
  PROVE  /\ work[w] \in Work /\ work[w].key \in DOMAIN job /\ work[w].key \in Key
         /\ Of(w) \in Events
BY DEF TypeOK, Of, Key

(* A worker that ends its job gives up the key only it holds.              *)
LEMMA Leaves ==
  ASSUME TypeOK, RunsKept, NEW w \in Workers, work[w].step # "idle",
         Kept(job', work[w].key),
         work' = [work EXCEPT ![w] = Idle]
  PROVE  TypeOK'
<1>1. Idle \in Work
  BY DEF Idle, Work, Step
<1>2. work' \in [Workers -> Work]
  BY <1>1 DEF TypeOK
<1>3. DOMAIN job' \subseteq Key
  BY DEF Kept, TypeOK
<1>4. \A k \in DOMAIN job' : job'[k] \in Job /\ (k.kind # "run" => run'[k.event] # "none")
  <2> SUFFICES ASSUME NEW k \in DOMAIN job'
               PROVE  job'[k] \in Job /\ (k.kind # "run" => run'[k.event] # "none")
    OBVIOUS
  <2>1. k \in Key /\ k \in DOMAIN job
    BY <1>3 DEF Kept
  <2>2. k.event \in Events
    BY <2>1 DEF Key
  <2>3. QED
    BY <2>1, <2>2 DEF Kept, RunsKept, TypeOK
<1>5. ASSUME NEW v \in Workers, work'[v].step # "idle"
      PROVE  /\ work'[v].key \in DOMAIN job' /\ job'[work'[v].key].status = "running"
             /\ \A u \in Workers \ {v} : work'[u].step # "idle" => work'[u].key # work'[v].key
             /\ work'[v].step \in {"evaluate", "act", "park"} => run'[Of(v)'] # "none"
  <2>1. v # w /\ work'[v] = work[v] /\ work[v].step # "idle"
    BY <1>5 DEF TypeOK, Idle
  <2>2. work[v].key # work[w].key
    BY <2>1 DEF TypeOK
  <2>3. Of(v)' = Of(v) /\ Of(v) \in Events
    BY <2>1, WorkerHolds DEF Of
  <2>4. \A u \in Workers \ {v} : work'[u].step # "idle" => work'[u] = work[u]
    BY DEF TypeOK, Idle
  <2>5. work'[v].key \in DOMAIN job' /\ job'[work'[v].key].status = "running"
    BY <2>1, <2>2 DEF Kept, TypeOK
  <2>6. \A u \in Workers \ {v} : work'[u].step # "idle" => work'[u].key # work'[v].key
    BY <2>1, <2>4 DEF TypeOK
  <2>7. work'[v].step \in {"evaluate", "act", "park"} => run'[Of(v)'] # "none"
    BY <2>1, <2>3 DEF TypeOK, RunsKept
  <2>8. QED
    BY <2>5, <2>6, <2>7
<1>6. \A v \in Workers : Reading(v)'
  BY <1>2 DEF Reading, Kept, RunsKept, TypeOK, Idle
<1>7. QED
  BY <1>2, <1>3, <1>4, <1>5, <1>6 DEF TypeOK, RunsKept, Reading

(* A worker that goes on keeps its key.                                    *)
LEMMA GoesOn ==
  ASSUME TypeOK, RunsKept, NEW w \in Workers, work[w].step # "idle",
         UNCHANGED job,
         NEW s \in Step, NEW at \in 0..(Len(Actions) + 1),
         s \in {"act", "park"} => run'[Of(w)] # "none",
         s \in {"insert", "act", "park"},
         Goto(w, s, at)
  PROVE  TypeOK'
<1>1. work[w] \in Work
  BY DEF TypeOK
<1>2. work'[w] = [step |-> s, key |-> work[w].key, at |-> at]
  BY <1>1 DEF Goto, Work, TypeOK
<1>3. work' \in [Workers -> Work]
  BY <1>1 DEF TypeOK, Goto, Work
<1>4. \A v \in Workers : work'[v].key = work[v].key /\ (v # w => work'[v] = work[v])
  BY <1>2 DEF TypeOK, Goto
<1>5. \A k \in DOMAIN job' : job'[k] \in Job /\ (k.kind # "run" => run'[k.event] # "none")
  BY DEF RunsKept, TypeOK, Key
<1>6. ASSUME NEW v \in Workers, work'[v].step # "idle"
      PROVE  /\ work'[v].key \in DOMAIN job' /\ job'[work'[v].key].status = "running"
             /\ \A u \in Workers \ {v} : work'[u].step # "idle" => work'[u].key # work'[v].key
             /\ work'[v].step \in {"evaluate", "act", "park"} => run'[Of(v)'] # "none"
  <2>1. work[v].step # "idle" /\ work'[v].key = work[v].key
    BY <1>4, <1>6
  <2>2. \A u \in Workers : work'[u].step # "idle" => work[u].step # "idle"
    BY <1>4
  <2>3. Of(v)' = Of(v) /\ Of(v) \in Events
    BY <2>1, WorkerHolds DEF Of
  <2>4. work'[v].key \in DOMAIN job' /\ job'[work'[v].key].status = "running"
    BY <2>1 DEF TypeOK
  <2>5. \A u \in Workers \ {v} : work'[u].step # "idle" => work'[u].key # work'[v].key
    BY <2>1, <2>2, <1>4 DEF TypeOK
  <2>6. work'[v].step \in {"evaluate", "act", "park"} => run'[Of(v)'] # "none"
    <3>1. CASE v = w
      BY <3>1, <1>2, <2>3
    <3>2. CASE v # w
      BY <3>2, <1>4, <2>1, <2>3 DEF TypeOK, RunsKept
    <3>3. QED
      BY <3>1, <3>2
  <2>7. QED
    BY <2>4, <2>5, <2>6
<1>7. \A v \in Workers : Reading(v)'
  BY <1>4 DEF Reading, RunsKept, TypeOK
<1>8. QED
  BY <1>3, <1>5, <1>6, <1>7 DEF TypeOK, RunsKept, Reading

-----------------------------------------------------------------------------
(* The inductive invariant: a worker at an action has done all before it,  *)
(* one that parks has waited, and what a job resumes behind is done.       *)

Through(e, n) == \A j \in 1..n : done[e][j] > 0
WorkingAt(w) ==
  /\ work[w].step = "act" => Through(Of(w), work[w].at - 1)
  /\ work[w].step = "park" => work[w].at \in Positions /\ Through(Of(w), work[w].at)
Working == \A w \in Workers : WorkingAt(w)
Resumed == \A k \in DOMAIN job : k.kind = "resume" => Through(k.event, k.n)
IInv == TypeOK /\ NothingSkipped /\ Working /\ Resumed

LEMMA InitIInv == ASSUME Init PROVE IInv
<1>1. TypeOK
  <2>1. Idle \in Work
    BY DEF Idle, Work, Step
  <2>2. QED
    BY <2>1 DEF Init, TypeOK, RunStatus, Idle
<1>2. QED
  BY <1>1 DEF Init, IInv, NothingSkipped, Working, WorkingAt, Resumed, Idle, Through

LEMMA LengthIsNat == Len(Actions) \in Nat /\ Positions \subseteq 1..(Len(Actions) + 1)
BY WorkflowsAssumption DEF Positions

LEMMA QueueKeepsTypes ==
  ASSUME TypeOK, NEW k \in Key, NEW now \in BOOLEAN, k.kind # "run" => run[k.event] # "none",
         job' = Enqueued(k, now), UNCHANGED <<run, due, done, work, candidate, faults, again>>
  PROVE  TypeOK'
<1>1. DOMAIN job' = DOMAIN job \cup {k} /\ \A x \in DOMAIN job : job'[x] = job[x]
  BY DEF Enqueued
<1>2. k \notin DOMAIN job => job'[k] \in Job
  BY DEF Enqueued, Job
<1>3. \A x \in DOMAIN job' : job'[x] \in Job /\ (x.kind # "run" => run[x.event] # "none")
  BY <1>1, <1>2 DEF TypeOK
<1>4. QED
  BY <1>1, <1>3 DEF TypeOK, Of

LEMMA TimePassesKeepsTypes ==
  ASSUME TypeOK, NEW e \in Events, TimePasses(e)
  PROVE  TypeOK'
<1>1. DOMAIN job' = DOMAIN job
  BY DEF TimePasses
<1>2. \A k \in DOMAIN job : job'[k] \in Job /\ job'[k].status = job[k].status
  <2> SUFFICES ASSUME NEW k \in DOMAIN job
               PROVE  job'[k] \in Job /\ job'[k].status = job[k].status
    OBVIOUS
  <2>1. job[k] \in Job
    BY DEF TypeOK
  <2>2. job'[k] = IF k.event = e THEN [job[k] EXCEPT !.due = TRUE] ELSE job[k]
    BY DEF TimePasses
  <2>3. QED
    BY <2>1, <2>2 DEF Job
<1>3. due' \in [Events -> BOOLEAN]
  BY DEF TimePasses, TypeOK
<1>4. QED
  BY <1>1, <1>2, <1>3 DEF TimePasses, TypeOK, Of

(* What a claim does if it finds the job free, and if it does not *)
TakeOf(w, k) ==
  /\ k = candidate[w] /\ k # None /\ job[k].status # "running"
  /\ job' = Claimed(k)
  /\ work' = [work EXCEPT ![w] = [step |-> IF k.kind = "run" THEN "count" ELSE "evaluate",
                                  key |-> k, at |-> 0]]
  /\ candidate' = [candidate EXCEPT ![w] = None]
  /\ IF job[k].status = "over" THEN again' = again + 1 ELSE UNCHANGED again
  /\ UNCHANGED <<run, due, done, faults>>
LeftAlone(w) ==
  /\ candidate' = [candidate EXCEPT ![w] = None]
  /\ UNCHANGED <<run, due, done, job, work, faults, again>>

LEMMA TakeIs ==
  ASSUME TypeOK, NEW w \in Workers, Take(w)
  PROVE  LeftAlone(w) \/ \E k \in DOMAIN job : TakeOf(w, k)
BY DEF Take, TakeOf, LeftAlone, TypeOK

LEMMA ReadKeepsTypes ==
  ASSUME TypeOK, NEW w \in Workers,
         LeftAlone(w) \/ \E k \in DOMAIN job : ReadCandidate(w, k)
  PROVE  TypeOK'
<1>1. UNCHANGED <<run, due, done, job, work, faults, again>>
  BY DEF LeftAlone, ReadCandidate
<1>2. candidate' \in [Workers -> Key \cup {None}] /\ \A v \in Workers : Reading(v)'
  <2>1. PICK k : candidate' = [candidate EXCEPT ![w] = k]
                 /\ (k = None \/ (k \in DOMAIN job /\ work[w].step = "idle"))
    BY DEF LeftAlone, ReadCandidate
  <2>2. QED
    BY <1>1, <2>1 DEF TypeOK, Reading
<1>3. QED
  BY <1>1, <1>2 DEF TypeOK, Of, Reading

(* A job that is given back is queued, and nobody works on it.             *)
LEMMA GiveBackKeepsTypes ==
  ASSUME TypeOK, NEW w \in Workers, GiveBack(w)
  PROVE  TypeOK' /\ DOMAIN job' = DOMAIN job
<1>1. work[w].step # "idle" /\ work[w].key \in DOMAIN job
  BY WorkerHolds DEF GiveBack
<1>2. Kept(job', work[w].key)
  BY <1>1 DEF GiveBack, Kept, TypeOK, Job
<1>3. RunsKept /\ work' = [work EXCEPT ![w] = Idle]
  BY DEF GiveBack, RunsKept, TypeOK
<1>4. QED
  BY <1>1, <1>2, <1>3, Leaves DEF Kept

LEMMA TakeKeepsTypes ==
  ASSUME TypeOK, NEW w \in Workers, NEW k, TakeOf(w, k)
  PROVE  TypeOK'
<1> DEFINE taken == [step |-> IF k.kind = "run" THEN "count" ELSE "evaluate", key |-> k, at |-> 0]
<1>0. k \in DOMAIN job
  BY DEF TakeOf, TypeOK
<1>1. Kept(job', k) /\ job'[k].status = "running"
  BY <1>0, ClaimedKeeps DEF TakeOf
<1>2. k \in Key /\ taken \in Work
  BY <1>0, LengthIsNat DEF TypeOK, Work, Step
<1>3. work' = [work EXCEPT ![w] = taken] /\ work' \in [Workers -> Work]
  BY <1>2 DEF TakeOf, TypeOK
<1>4. \A v \in Workers \ {w} : work'[v] = work[v] /\ (work[v].step # "idle" => work[v].key # k)
  BY <1>3 DEF TakeOf, TypeOK
<1>5. ASSUME NEW v \in Workers, work'[v].step # "idle"
      PROVE  /\ work'[v].key \in DOMAIN job' /\ job'[work'[v].key].status = "running"
             /\ \A u \in Workers \ {v} : work'[u].step # "idle" => work'[u].key # work'[v].key
             /\ work'[v].step \in {"evaluate", "act", "park"} => run'[Of(v)'] # "none"
  <2>1. CASE v = w
    <3>1. work'[v] = taken /\ Of(v)' = k.event
      BY <2>1, <1>3 DEF TypeOK, Of
    <3>2. work'[v].key \in DOMAIN job' /\ job'[work'[v].key].status = "running"
      BY <3>1, <1>0, <1>1 DEF Kept
    <3>3. \A u \in Workers \ {v} : work'[u].step # "idle" => work'[u].key # work'[v].key
      BY <3>1, <2>1, <1>4
    <3>4. work'[v].step \in {"evaluate", "act", "park"} => run'[Of(v)'] # "none"
      BY <3>1 DEF TypeOK, TakeOf
    <3>5. QED
      BY <3>2, <3>3, <3>4
  <2>2. CASE v # w
    <3>1. work'[v] = work[v] /\ work[v].step # "idle" /\ work[v].key # k
      BY <2>2, <1>4, <1>5
    <3>2. work'[v].key \in DOMAIN job' /\ job'[work'[v].key].status = "running"
      BY <3>1, <1>1 DEF Kept, TypeOK
    <3>3. \A u \in Workers \ {v} : work'[u].step # "idle" => work'[u].key # work'[v].key
      <4>1. work'[w].key = k
        BY <1>3 DEF TypeOK
      <4>2. QED
        BY <4>1, <3>1, <1>4 DEF TypeOK
    <3>4. Of(v)' = Of(v)
      BY <3>1 DEF Of
    <3>5. QED
      BY <3>1, <3>2, <3>3, <3>4 DEF TypeOK, TakeOf
  <2>3. QED
    BY <2>1, <2>2
<1>6. \A x \in DOMAIN job' : job'[x] \in Job /\ (x.kind # "run" => run'[x.event] # "none")
  BY <1>1 DEF Kept, TypeOK, TakeOf
<1>7. \A v \in Workers : Reading(v)'
  <2>1. \A v \in Workers \ {w} : candidate'[v] = candidate[v]
    BY DEF TakeOf, TypeOK
  <2>2. candidate'[w] = None
    BY DEF TakeOf, TypeOK
  <2>3. QED
    BY <2>1, <2>2, <1>1, <1>4 DEF Reading, Kept, TypeOK
<1>8. candidate' \in [Workers -> Key \cup {None}] /\ again' \in Nat
  BY DEF TakeOf, TypeOK
<1>9. QED
  BY <1>1, <1>3, <1>5, <1>6, <1>7, <1>8 DEF TypeOK, Kept, TakeOf, Reading

LEMMA QueueResumeKeepsTypes ==
  ASSUME TypeOK, Working, NEW w \in Workers, QueueResume(w)
  PROVE  TypeOK'
<1> DEFINE k == JobKey("resume", Of(w), work[w].at)
           all == Enqueued(k, FALSE)
<1>1. /\ work[w].step = "park" /\ work[w].key \in DOMAIN job /\ Of(w) \in Events
      /\ work[w].at \in 1..Len(Actions) /\ run[Of(w)] # "none"
  BY WorkerHolds DEF QueueResume, Working, WorkingAt, Positions, TypeOK
<1>2. k \in Key /\ k.kind = "resume" /\ k.event = Of(w)
  BY <1>1, LengthIsNat DEF JobKey, Key
<1>3. DOMAIN all = DOMAIN job \cup {k} /\ \A x \in DOMAIN job : all[x] = job[x]
  BY DEF Enqueued
<1>4. k \notin DOMAIN job => all[k] \in Job
  BY DEF Enqueued, Job
<1>5. job' = [all EXCEPT ![work[w].key].status = "over"]
  BY DEF QueueResume
<1>6. DOMAIN job' = DOMAIN job \cup {k} /\ \A x \in DOMAIN job \ {work[w].key} : job'[x] = job[x]
  BY <1>3, <1>5
<1>7. \A x \in DOMAIN job' : job'[x] \in Job
  <2>1. \A x \in DOMAIN all : all[x] \in Job
    BY <1>3, <1>4 DEF TypeOK
  <2>2. [all[work[w].key] EXCEPT !.status = "over"] \in Job
    BY <2>1, <1>1, <1>3 DEF Job
  <2>3. job' = [all EXCEPT ![work[w].key] = [all[work[w].key] EXCEPT !.status = "over"]]
    BY <1>5
  <2>4. QED
    BY <2>1, <2>2, <2>3
<1>8. \A x \in DOMAIN job' : x.kind # "run" => run'[x.event] # "none"
  BY <1>1, <1>2, <1>6 DEF TypeOK, QueueResume
<1>9. \A v \in Workers \ {w} : work'[v] = work[v]
  BY DEF QueueResume, TypeOK
<1>10. work'[w] = Idle /\ Idle \in Work /\ work' \in [Workers -> Work]
  BY DEF QueueResume, TypeOK, Idle, Work, Step
<1>11. ASSUME NEW v \in Workers, work'[v].step # "idle"
       PROVE  /\ work'[v].key \in DOMAIN job' /\ job'[work'[v].key].status = "running"
              /\ \A u \in Workers \ {v} : work'[u].step # "idle" => work'[u].key # work'[v].key
              /\ work'[v].step \in {"evaluate", "act", "park"} => run'[Of(v)'] # "none"
  <2>1. v # w /\ work'[v] = work[v] /\ work[v].step # "idle"
    BY <1>9, <1>10, <1>11 DEF Idle
  <2>2. work[v].key # work[w].key /\ work[v].key \in DOMAIN job
    BY <2>1, <1>1 DEF TypeOK
  <2>3. \A u \in Workers \ {v} : work'[u].step # "idle" => work'[u] = work[u]
    BY <1>9, <1>10 DEF Idle
  <2>4. \A u \in Workers \ {v} : work'[u].step # "idle" => work'[u].key # work'[v].key
    BY <2>1, <2>3 DEF TypeOK
  <2>5. Of(v)' = Of(v)
    BY <2>1 DEF Of
  <2>6. work'[v].key \in DOMAIN job' /\ job'[work'[v].key].status = "running"
    BY <2>1, <2>2, <1>6 DEF TypeOK
  <2>7. work'[v].step \in {"evaluate", "act", "park"} => run'[Of(v)'] # "none"
    BY <2>1, <2>5 DEF TypeOK, QueueResume
  <2>8. QED
    BY <2>4, <2>6, <2>7
<1>12. \A v \in Workers : Reading(v)'
  BY <1>6, <1>9, <1>10 DEF Reading, QueueResume, TypeOK, Idle
<1>13. QED
  BY <1>2, <1>6, <1>7, <1>8, <1>10, <1>11, <1>12 DEF TypeOK, QueueResume, Reading

(* The steps of a worker that end its job or go on with it *)
LEMMA WorkKeepsTypes ==
  ASSUME TypeOK, NEW w \in Workers, NEW matched \in BOOLEAN,
         \/ Count(w) \/ Insert(w, matched) \/ Evaluate(w, matched) \/ Act(w) \/ FindDone(w) \/ ActionThrows(w)
         \/ Wait(w) \/ Complete(w) \/ Crash(w) \/ Throw(w)
  PROVE  TypeOK'
<1> DEFINE k == work[w].key
<1>1. work[w].step # "idle"
  BY DEF Count, Insert, Evaluate, Act, FindDone, ActionThrows, Wait, Complete, Crash, Throw, AtAction
<1>2. /\ work[w] \in Work /\ k \in DOMAIN job /\ k \in Key /\ Of(w) \in Events
      /\ work[w].at \in 0..(Len(Actions) + 1) /\ Len(Actions) \in Nat
  BY <1>1, WorkerHolds, LengthIsNat DEF Work
<1>3. Kept(Over(k), k) /\ Kept(Failed(k), k) /\ Kept(job, k)
  BY <1>2, OverKeeps, FailedKeeps DEF Kept, TypeOK
<1>4. run \in [Events -> RunStatus] /\ due \in [Events -> BOOLEAN] /\ faults \in Nat
      /\ done \in [Events -> [Positions -> Nat]]
  BY DEF TypeOK
<1>5. CASE Count(w)
  <2>1. RunsKept
    BY <1>4, <1>5 DEF Count, RunsKept
  <2>2. CASE BelowLimit
    BY <2>1, <2>2, <1>1, <1>2, <1>5, GoesOn DEF Count, Step
  <2>3. CASE ~BelowLimit
    BY <2>1, <2>3, <1>1, <1>3, <1>5, Leaves DEF Count, Return
  <2>4. QED
    BY <2>2, <2>3
<1>6. CASE Insert(w, matched)
  <2>1. RunsKept
    BY <1>2, <1>4, <1>6 DEF Insert, RunsKept, RunStatus
  <2>2. CASE run[Of(w)] # "none"
    BY <2>1, <2>2, <1>1, <1>3, <1>6, Leaves DEF Insert
  <2>3. CASE run[Of(w)] = "none" /\ matched
    <3>1. Goto(w, "act", 1) /\ UNCHANGED job /\ run'[Of(w)] # "none"
      BY <2>3, <1>2, <1>4, <1>6 DEF Insert
    <3>2. QED
      BY <3>1, <2>1, <1>1, <1>2, GoesOn DEF Step
  <2>4. CASE run[Of(w)] = "none" /\ ~matched
    BY <2>1, <2>4, <1>1, <1>3, <1>6, Leaves DEF Insert, Return
  <2>5. QED
    BY <2>2, <2>3, <2>4
<1>7. CASE Evaluate(w, matched)
  <2>1. RunsKept
    BY <1>2, <1>4, <1>7 DEF Evaluate, RunsKept, RunStatus
  <2>2. CASE matched
    <3>1. StartPosition(k) \in 0..(Len(Actions) + 1)
      BY <1>2 DEF StartPosition, Key
    <3>2. run'[Of(w)] # "none"
      BY <2>1, <1>2, <1>7 DEF TypeOK, Evaluate, RunsKept
    <3>3. QED
      BY <3>1, <3>2, <2>1, <2>2, <1>1, <1>7, GoesOn DEF Evaluate, Step
  <2>3. CASE ~matched
    BY <2>1, <2>3, <1>1, <1>3, <1>7, Leaves DEF Evaluate, Return
  <2>4. QED
    BY <2>2, <2>3
<1>8. CASE Act(w)
  <2>1. done' \in [Events -> [Positions -> Nat]]
    BY <1>2, <1>4, <1>8 DEF Act, Counted, AtAction
  <2>2. RunsKept
    BY <2>1, <1>4, <1>8 DEF Act, RunsKept
  <2>3. run'[Of(w)] # "none"
    BY <1>8 DEF Act, AtAction, TypeOK
  <2>4. work[w].at + 1 \in 0..(Len(Actions) + 1)
    BY <1>2, <1>8 DEF Act, AtAction, Positions
  <2>5. QED
    BY <2>2, <2>3, <2>4, <1>1, <1>8, GoesOn DEF Act, Step
<1>9. CASE FindDone(w)
  <2>1. RunsKept
    BY <1>4, <1>9 DEF FindDone, RunsKept, TypeOK
  <2>2. run'[Of(w)] # "none"
    BY <1>9 DEF FindDone, AtAction, TypeOK
  <2>3. work[w].at + 1 \in 0..(Len(Actions) + 1)
    BY <1>2, <1>9 DEF FindDone, AtAction, Positions
  <2>4. QED
    BY <2>1, <2>2, <2>3, <1>1, <1>9, GoesOn DEF FindDone, Step
<1>10. CASE ActionThrows(w)
  <2>1. RunsKept
    BY <1>2, <1>4, <1>10 DEF ActionThrows, RunsKept, RunStatus
  <2>2. QED
    BY <2>1, <1>1, <1>3, <1>10, Leaves DEF ActionThrows, Return
<1>11. CASE Wait(w)
  <2>1. done' \in [Events -> [Positions -> Nat]]
    BY <1>2, <1>4, <1>11 DEF Wait, Counted, AtAction
  <2>2. RunsKept
    BY <2>1, <1>2, <1>4, <1>11 DEF Wait, RunsKept, RunStatus
  <2>3. run'[Of(w)] # "none"
    BY <1>2, <1>4, <1>11 DEF Wait
  <2>4. QED
    BY <2>2, <2>3, <1>1, <1>2, <1>11, GoesOn DEF Wait, Step
<1>12. CASE Complete(w)
  <2>1. RunsKept
    BY <1>2, <1>4, <1>12 DEF Complete, RunsKept, RunStatus
  <2>2. QED
    BY <2>1, <1>1, <1>3, <1>12, Leaves DEF Complete, Return
<1>13. CASE Crash(w)
  <2>1. RunsKept
    BY <1>4, <1>13 DEF Crash, RunsKept
  <2>2. QED
    BY <2>1, <1>1, <1>3, <1>13, Leaves DEF Crash
<1>14. CASE Throw(w)
  <2>1. RunsKept
    BY <1>4, <1>14 DEF Throw, RunsKept
  <2>2. QED
    BY <2>1, <1>1, <1>3, <1>14, Leaves DEF Throw
<1>15. QED
  BY <1>5, <1>6, <1>7, <1>8, <1>9, <1>10, <1>11, <1>12, <1>13, <1>14

LEMMA TypesKept == ASSUME TypeOK, Working, [Next]_vars PROVE TypeOK'
<1>1. ASSUME NEW e \in Events, DispatchTrigger(e) PROVE TypeOK'
  <2>1. JobKey("run", e, 0) \in Key /\ JobKey("run", e, 0).kind = "run"
    BY LengthIsNat DEF JobKey, Key
  <2>2. QED
    BY <1>1, <2>1, QueueKeepsTypes DEF DispatchTrigger
<1>2. ASSUME NEW e \in Events, TimePasses(e) PROVE TypeOK'
  BY <1>2, TimePassesKeepsTypes
<1>3. ASSUME NEW e \in Events, Sweep(e) PROVE TypeOK'
  <2>1. SweepKey(e) \in Key /\ SweepKey(e).event = e /\ run[e] # "none"
    BY <1>3, LengthIsNat DEF SweepKey, JobKey, Key, Sweep
  <2>2. QED
    BY <1>3, <2>1, QueueKeepsTypes DEF Sweep
<1>4. ASSUME NEW w \in Workers,
             Take(w) \/ GiveBack(w) \/ \E k \in DOMAIN job : ReadCandidate(w, k)
      PROVE  TypeOK'
  BY <1>4, TakeIs, ReadKeepsTypes, TakeKeepsTypes, GiveBackKeepsTypes
<1>5. ASSUME NEW w \in Workers, QueueResume(w) PROVE TypeOK'
  BY <1>5, QueueResumeKeepsTypes
<1>6. ASSUME NEW w \in Workers,
             \/ Count(w) \/ Act(w) \/ FindDone(w) \/ ActionThrows(w) \/ Wait(w)
             \/ Complete(w) \/ Crash(w) \/ Throw(w)
             \/ \E matched \in BOOLEAN : Insert(w, matched) \/ Evaluate(w, matched)
      PROVE  TypeOK'
  BY <1>6, WorkKeepsTypes
<1>7. CASE UNCHANGED vars
  BY <1>7 DEF vars, TypeOK, Of
<1>8. QED
  BY <1>1, <1>2, <1>3, <1>4, <1>5, <1>6, <1>7 DEF Next

-----------------------------------------------------------------------------
(* The order of the actions *)

(* What is done stays done.                                                *)
DoneGrows == \A e \in Events, i \in Positions : done'[e][i] >= done[e][i]

LEMMA CountedGrows ==
  ASSUME TypeOK, NEW w \in Workers, Of(w) \in Events, work[w].at \in Positions, Counted(w)
  PROVE  /\ DoneGrows
         /\ done'[Of(w)][work[w].at] > 0
         /\ \A e \in Events, i \in Positions :
              done'[e][i] # done[e][i] => e = Of(w) /\ i = work[w].at
<1>1. done \in [Events -> [Positions -> Nat]]
  BY DEF TypeOK
<1>2. done' = [done EXCEPT ![Of(w)][work[w].at] = done[Of(w)][work[w].at] + 1]
  BY DEF Counted
<1>3. \A e \in Events, i \in Positions :
        done'[e][i] = IF e = Of(w) /\ i = work[w].at THEN done[e][i] + 1 ELSE done[e][i]
  BY <1>1, <1>2
<1>4. \A e \in Events, i \in Positions : done[e][i] \in Nat
  BY <1>1
<1>5. QED
  BY <1>3, <1>4 DEF DoneGrows

LEMMA ThroughStays ==
  ASSUME TypeOK, TypeOK', DoneGrows, NEW e \in Events, NEW n \in Nat, n <= Len(Actions), Through(e, n)
  PROVE  Through(e, n)'
<1>1. \A j \in 1..n : j \in Positions
  BY LengthIsNat DEF Positions
<1>2. \A j \in Positions : done[e][j] \in Nat /\ done'[e][j] \in Nat
  BY DEF TypeOK
<1>3. \A j \in 1..n : done[e][j] > 0 /\ done'[e][j] >= done[e][j]
  BY <1>1 DEF Through, DoneGrows
<1>4. QED
  BY <1>1, <1>2, <1>3 DEF Through

(* An invariant step: nothing is done out of order, each worker that       *)
(* changes is where it may be, and each new job resumes behind what is done*)
LEMMA OrderKept ==
  ASSUME IInv, TypeOK', DoneGrows,
         \A e \in Events, i \in Positions : done'[e][i] > 0 => done[e][i] > 0 \/ Through(e, i - 1),
         \A w \in Workers : work'[w] # work[w] => WorkingAt(w)',
         \A k \in DOMAIN job' \ DOMAIN job : k.kind = "resume" => Through(k.event, k.n)
  PROVE  IInv'
<1> USE LengthIsNat
<1>1. NothingSkipped'
  <2> SUFFICES ASSUME NEW e \in Events, NEW i \in Positions, done'[e][i] > 0, NEW j \in 1..(i - 1)
               PROVE  done'[e][j] > 0
    BY DEF NothingSkipped
  <2>1. done[e][j] > 0
    BY DEF IInv, NothingSkipped, Through
  <2>2. j \in Positions
    BY DEF Positions
  <2>3. done[e][j] \in Nat /\ done'[e][j] \in Nat
    BY <2>2 DEF IInv, TypeOK
  <2>4. QED
    BY <2>1, <2>2, <2>3 DEF DoneGrows
<1>2. Working'
  <2> SUFFICES ASSUME NEW w \in Workers, work'[w] = work[w]
               PROVE  WorkingAt(w)'
    BY DEF Working
  <2>1. WorkingAt(w)
    BY DEF IInv, Working
  <2>2. CASE work[w].step \in {"act", "park"}
    <3>1. Of(w)' = Of(w) /\ Of(w) \in Events /\ work[w].at \in 0..(Len(Actions) + 1)
      BY <2>2, WorkerHolds DEF IInv, Of, Work
    <3>2. ASSUME NEW e, e = Of(w), NEW n, n = work[w].at, work[w].step = "act"
          PROVE  Through(e, n - 1)'
      <4>1. Through(e, n - 1) /\ n \in 0..(Len(Actions) + 1)
        BY <3>1, <3>2, <2>1 DEF WorkingAt
      <4>2. CASE n = 0
        BY <4>2 DEF Through
      <4>3. CASE n > 0
        <5>1. n - 1 \in Nat /\ n - 1 <= Len(Actions)
          BY <4>1, <4>3
        <5>2. QED
          BY <5>1, <4>1, <3>1, <3>2, ThroughStays DEF IInv
      <4>4. QED
        BY <4>1, <4>2, <4>3
    <3>3. ASSUME NEW e, e = Of(w), NEW n, n = work[w].at, work[w].step = "park"
          PROVE  n \in Positions /\ Through(e, n)'
      <4>1. Through(e, n) /\ n \in Positions
        BY <3>3, <2>1 DEF WorkingAt
      <4>2. n \in Nat /\ n <= Len(Actions)
        BY <4>1 DEF Positions
      <4>3. QED
        BY <4>1, <4>2, <3>1, <3>3, ThroughStays DEF IInv
    <3>4. QED
      BY <3>1, <3>2, <3>3 DEF WorkingAt
  <2>3. QED
    BY <2>2 DEF WorkingAt
<1>3. Resumed'
  <2> SUFFICES ASSUME NEW k \in DOMAIN job', k.kind = "resume"
               PROVE  Through(k.event, k.n)'
    BY DEF Resumed
  <2>1. k \in Key
    BY DEF TypeOK
  <2>2. k.event \in Events /\ k.n \in Nat /\ k.n <= Len(Actions)
    BY <2>1 DEF Key
  <2>3. Through(k.event, k.n)
    BY DEF IInv, Resumed
  <2>4. QED
    BY <2>2, <2>3, ThroughStays DEF IInv
<1>4. QED
  BY <1>1, <1>2, <1>3 DEF IInv

(* Steps after which nothing more is done, and only a worker that goes to  *)
(* its first action or to none changes                                     *)
LEMMA QuietStep ==
  ASSUME IInv, TypeOK', UNCHANGED done,
         \A w \in Workers : work'[w] # work[w] => WorkingAt(w)',
         \A k \in DOMAIN job' \ DOMAIN job : k.kind = "resume" => Through(k.event, k.n)
  PROVE  IInv'
<1>1. \A e \in Events, i \in Positions : done[e][i] \in Nat
  BY DEF IInv, TypeOK
<1>2. DoneGrows
  BY <1>1 DEF DoneGrows
<1>3. \A e \in Events, i \in Positions : done'[e][i] > 0 => done[e][i] > 0 \/ Through(e, i - 1)
  OBVIOUS
<1>4. QED
  BY <1>2, <1>3, OrderKept

LEMMA CountingStep ==
  ASSUME IInv, TypeOK', UNCHANGED job, NEW w \in Workers, NEW kinds, AtAction(w, kinds), Counted(w),
         \/ Goto(w, "act", work[w].at + 1)
         \/ Goto(w, "park", work[w].at)
  PROVE  IInv'
<1> DEFINE i == work[w].at
           e == Of(w)
<1>1. e \in Events /\ i \in Positions /\ work[w].step = "act" /\ i \in Nat
  BY WorkerHolds, LengthIsNat DEF AtAction, IInv, Positions
<1>2. DoneGrows /\ done'[e][i] > 0
  BY <1>1, CountedGrows DEF IInv
<1>3. \A f \in Events, j \in Positions : done'[f][j] # done[f][j] => f = e /\ j = i
  BY <1>1, CountedGrows DEF IInv
<1>4. Through(e, i - 1)
  BY <1>1 DEF IInv, Working, WorkingAt
<1>5. \A f \in Events, j \in Positions : done'[f][j] > 0 => done[f][j] > 0 \/ Through(f, j - 1)
  BY <1>3, <1>4
<1>6. \A j \in 1..i : done'[e][j] > 0
  <2> SUFFICES ASSUME NEW j \in 1..i, j # i PROVE done'[e][j] > 0
    BY <1>2
  <2>1. j \in 1..(i - 1) /\ j \in Positions
    BY <1>1 DEF Positions
  <2>2. done[e][j] > 0
    BY <1>4, <2>1 DEF Through
  <2>3. done'[e][j] >= done[e][j] /\ done'[e][j] \in Nat /\ done[e][j] \in Nat
    BY <1>1, <1>2, <2>1 DEF DoneGrows, IInv, TypeOK
  <2>4. QED
    BY <2>2, <2>3
<1>7. \A v \in Workers : work'[v] # work[v] => WorkingAt(v)'
  <2>1. \A v \in Workers \ {w} : work'[v] = work[v]
    BY DEF Goto, IInv, TypeOK
  <2>2. work'[w].key = work[w].key /\ \/ work'[w].step = "act" /\ work'[w].at = i + 1
                                      \/ work'[w].step = "park" /\ work'[w].at = i
    BY DEF Goto, IInv, TypeOK, Work
  <2>3. Of(w)' = e /\ (i + 1) - 1 = i
    BY <2>2, <1>1 DEF Of
  <2>4. WorkingAt(w)'
    BY <2>2, <2>3, <1>1, <1>6 DEF WorkingAt, Through
  <2>5. QED
    BY <2>1, <2>4
<1>8. QED
  BY <1>2, <1>5, <1>7, OrderKept

LEMMA IInvKept == ASSUME IInv, [Next]_vars PROVE IInv'
<1>1. TypeOK'
  BY TypesKept DEF IInv
<1>2. TypeOK /\ Working /\ Resumed
  BY DEF IInv
<1>3. ASSUME NEW e \in Events, DispatchTrigger(e) \/ TimePasses(e) \/ Sweep(e) PROVE IInv'
  <2>1. UNCHANGED done /\ UNCHANGED work
    BY <1>3 DEF DispatchTrigger, TimePasses, Sweep
  <2>2. \A k \in DOMAIN job' \ DOMAIN job : k.kind # "resume"
    BY <1>3 DEF DispatchTrigger, TimePasses, Sweep, Enqueued, SweepKey, JobKey
  <2>3. QED
    BY <2>1, <2>2, <1>1, QuietStep
<1>4. ASSUME NEW w \in Workers,
             Take(w) \/ GiveBack(w) \/ \E k \in DOMAIN job : ReadCandidate(w, k)
      PROVE  IInv'
  <2>1. CASE LeftAlone(w) \/ \E k \in DOMAIN job : ReadCandidate(w, k)
    <3>1. UNCHANGED <<done, work, job>>
      BY <2>1 DEF LeftAlone, ReadCandidate
    <3>2. QED
      BY <3>1, <1>1, QuietStep
  <2>2. ASSUME NEW k \in DOMAIN job, TakeOf(w, k) PROVE IInv'
    <3>1. UNCHANGED done /\ DOMAIN job' = DOMAIN job
      BY <1>2, <2>2, ClaimedKeeps DEF TakeOf, Kept
    <3>2. \A v \in Workers : work'[v] # work[v] => work'[v].step \in {"count", "evaluate"}
      BY <1>2, <2>2 DEF TakeOf, TypeOK
    <3>3. QED
      BY <3>1, <3>2, <1>1, QuietStep DEF WorkingAt
  <2>3. CASE GiveBack(w)
    <3>1. UNCHANGED done /\ DOMAIN job' = DOMAIN job
      BY <1>2, <2>3, GiveBackKeepsTypes DEF GiveBack
    <3>2. \A v \in Workers : work'[v] # work[v] => work'[v].step = "idle"
      BY <1>2, <2>3 DEF GiveBack, TypeOK, Idle
    <3>3. QED
      BY <3>1, <3>2, <1>1, QuietStep DEF WorkingAt
  <2>4. QED
    BY <1>2, <1>4, <2>1, <2>2, <2>3, TakeIs
<1>5. ASSUME NEW w \in Workers, QueueResume(w) PROVE IInv'
  <2>1. UNCHANGED done
    BY <1>5 DEF QueueResume
  <2>2. \A v \in Workers : work'[v] # work[v] => work'[v].step = "idle"
    BY <1>2, <1>5 DEF QueueResume, TypeOK, Idle
  <2>3. \A k \in DOMAIN job' \ DOMAIN job : k = JobKey("resume", Of(w), work[w].at)
    BY <1>5 DEF QueueResume, Enqueued
  <2>4. Through(Of(w), work[w].at)
    BY <1>2, <1>5 DEF QueueResume, Working, WorkingAt
  <2>5. \A k \in DOMAIN job' \ DOMAIN job : k.kind = "resume" => Through(k.event, k.n)
    BY <2>3, <2>4 DEF JobKey
  <2>6. QED
    BY <2>1, <2>2, <2>5, <1>1, QuietStep DEF WorkingAt
<1>6. ASSUME NEW w \in Workers,
             Count(w) \/ ActionThrows(w) \/ Complete(w) \/ Crash(w) \/ Throw(w)
      PROVE  IInv'
  <2>1. work[w].step # "idle" /\ UNCHANGED done
    BY <1>6 DEF Count, ActionThrows, Complete, Crash, Throw, AtAction
  <2>2. work[w].key \in DOMAIN job
    BY <1>2, <2>1, WorkerHolds
  <2>3. DOMAIN job' = DOMAIN job
    BY <1>2, <1>6, <2>2, OverKeeps, FailedKeeps
       DEF Count, ActionThrows, Complete, Crash, Throw, Return, Kept
  <2>4. \A v \in Workers : work'[v] # work[v] => work'[v].step \in {"idle", "insert"}
    BY <1>2, <1>6 DEF Count, ActionThrows, Complete, Crash, Throw, Return, Goto, TypeOK, Idle, Work
  <2>5. QED
    BY <2>1, <2>3, <2>4, <1>1, QuietStep DEF WorkingAt
<1>7. ASSUME NEW w \in Workers, NEW matched \in BOOLEAN, Insert(w, matched) PROVE IInv'
  <2>1. work[w].step # "idle" /\ UNCHANGED done
    BY <1>7 DEF Insert
  <2>2. work[w].key \in DOMAIN job
    BY <1>2, <2>1, WorkerHolds
  <2>3. DOMAIN job' = DOMAIN job
    BY <1>2, <1>7, <2>2, OverKeeps, FailedKeeps DEF Insert, Return, Kept
  <2>4. \A v \in Workers : work'[v] # work[v] =>
          work'[v].step = "idle" \/ (work'[v].step = "act" /\ work'[v].at = 1)
    BY <1>2, <1>7 DEF Insert, Return, Goto, TypeOK, Idle, Work
  <2>5. QED
    BY <2>1, <2>3, <2>4, <1>1, QuietStep DEF WorkingAt, Through
<1>8. ASSUME NEW w \in Workers, NEW matched \in BOOLEAN, Evaluate(w, matched) PROVE IInv'
  <2>1. work[w].step # "idle" /\ UNCHANGED done
    BY <1>8 DEF Evaluate
  <2>2. work[w].key \in DOMAIN job /\ work[w].key \in Key
    BY <1>2, <2>1, WorkerHolds
  <2>3. DOMAIN job' = DOMAIN job
    BY <1>2, <1>8, <2>2, OverKeeps DEF Evaluate, Return, Kept
  <2>4. \A v \in Workers : work'[v] # work[v] =>
          \/ work'[v].step = "idle"
          \/ v = w /\ work'[v] = [step |-> "act", key |-> work[w].key, at |-> StartPosition(work[w].key)]
    BY <1>2, <1>8 DEF Evaluate, Return, Goto, TypeOK, Idle, Work
  <2>5. Through(Of(w), StartPosition(work[w].key) - 1)
    <3>1. CASE work[w].key.kind = "resume"
      <4>1. Through(work[w].key.event, work[w].key.n)
        BY <1>2, <2>2, <3>1 DEF Resumed
      <4>2. StartPosition(work[w].key) - 1 = work[w].key.n
        BY <2>2, <3>1 DEF StartPosition, Key
      <4>3. QED
        BY <4>1, <4>2 DEF Of
    <3>2. CASE work[w].key.kind # "resume"
      BY <3>2 DEF StartPosition, Through
    <3>3. QED
      BY <3>1, <3>2
  <2>6. \A v \in Workers : work'[v] # work[v] => WorkingAt(v)'
    BY <2>1, <2>4, <2>5 DEF WorkingAt, Through, Of
  <2>7. QED
    BY <2>1, <2>3, <2>6, <1>1, QuietStep
<1>9. ASSUME NEW w \in Workers, Act(w) PROVE IInv'
  BY <1>1, <1>9, CountingStep DEF Act
<1>10. ASSUME NEW w \in Workers, Wait(w) PROVE IInv'
  BY <1>1, <1>10, CountingStep DEF Wait
<1>11. ASSUME NEW w \in Workers, FindDone(w) PROVE IInv'
  <2>1. /\ UNCHANGED <<done, job>> /\ work[w].step = "act" /\ work[w].at \in Positions
        /\ done[Of(w)][work[w].at] > 0
    BY <1>11 DEF FindDone, AtAction
  <2>2. Through(Of(w), work[w].at - 1) /\ work[w].at \in Nat
    BY <1>2, <2>1, LengthIsNat DEF Working, WorkingAt, Positions
  <2>3. \A j \in 1..work[w].at : done[Of(w)][j] > 0
    <3> SUFFICES ASSUME NEW j \in 1..work[w].at, j # work[w].at PROVE done[Of(w)][j] > 0
      BY <2>1
    <3>1. j \in 1..(work[w].at - 1)
      BY <2>2
    <3>2. QED
      BY <2>2, <3>1 DEF Through
  <2>4. \A v \in Workers \ {w} : work'[v] = work[v]
    BY <1>2, <1>11 DEF FindDone, Goto, TypeOK
  <2>5. work'[w].step = "act" /\ work'[w].key = work[w].key /\ work'[w].at = work[w].at + 1
    BY <1>2, <1>11 DEF FindDone, Goto, TypeOK, Work
  <2>6. Of(w)' = Of(w) /\ work'[w].at - 1 = work[w].at
    BY <2>2, <2>5 DEF Of
  <2>7. WorkingAt(w)'
    BY <2>1, <2>3, <2>5, <2>6 DEF WorkingAt, Through
  <2>8. QED
    BY <2>1, <2>4, <2>7, <1>1, QuietStep
<1>12. CASE UNCHANGED vars
  <2>1. UNCHANGED <<done, work, job>>
    BY <1>12 DEF vars
  <2>2. QED
    BY <2>1, <1>1, QuietStep
<1>13. QED
  BY <1>3, <1>4, <1>5, <1>6, <1>7, <1>8, <1>9, <1>10, <1>11, <1>12 DEF Next

-----------------------------------------------------------------------------
(* What a worker does, field by field *)

Others(w) == \A v \in Workers \ {w} : work'[v] = work[v]

LEMMA GotoDoes ==
  ASSUME TypeOK, NEW w \in Workers, NEW s, NEW at, Goto(w, s, at)
  PROVE  /\ Others(w) /\ work'[w].key = work[w].key
         /\ work'[w].step = s /\ work'[w].at = at
BY DEF TypeOK, Goto, Others, Work

LEMMA RestDoes ==
  ASSUME TypeOK, NEW w \in Workers, work' = [work EXCEPT ![w] = Idle]
  PROVE  Others(w) /\ work'[w].step = "idle"
BY DEF TypeOK, Others, Idle

(* The table after a job went over or was queued for another try           *)
Gone(k) ==
  /\ DOMAIN job' = DOMAIN job
  /\ \A x \in DOMAIN job : job'[x].status = "queued" => job[x].status = "queued"
Retried(k) ==
  /\ DOMAIN job' = DOMAIN job
  /\ \A x \in DOMAIN job \ {k} : job'[x] = job[x]

LEMMA ReturnDoes ==
  ASSUME TypeOK, NEW w \in Workers, work[w].step # "idle", Return(w)
  PROVE  Gone(work[w].key) /\ Others(w) /\ work'[w].step = "idle"
<1>1. work[w].key \in DOMAIN job /\ job' = Over(work[w].key)
  BY DEF TypeOK, Return
<1>2. Gone(work[w].key)
  BY <1>1 DEF Over, Gone
<1>3. QED
  BY <1>2, RestDoes DEF Return

LEMMA FailedDoes ==
  ASSUME TypeOK, NEW w \in Workers, work[w].step # "idle", job' = Failed(work[w].key)
  PROVE  Retried(work[w].key)
BY WorkerHolds, FailedKeeps DEF Retried, Kept

-----------------------------------------------------------------------------
(* The way of a worker: only the job of the event counts and inserts, only *)
(* the others evaluate, and no worker passes a wait.                       *)

RouteOf(x) ==
  /\ x.step \in {"count", "insert"} => x.key.kind = "run"
  /\ x.step = "evaluate" => x.key.kind # "run"
  /\ x.step \in {"act", "park"} =>
       /\ x.at >= StartPosition(x.key)
       /\ \A j \in StartPosition(x.key)..(x.at - 1) : Actions[j] # "wait"
  /\ x.step = "park" => x.at \in Positions /\ Actions[x.at] = "wait"
KeyRoute(k) ==
  IF k.kind = "resume" THEN k.n \in Positions /\ Actions[k.n] = "wait" ELSE k.n = 0
Routes == (\A w \in Workers : RouteOf(work[w])) /\ \A k \in DOMAIN job : KeyRoute(k)

LEMMA RoutesStep ==
  ASSUME Routes,
         \A v \in Workers : work'[v] = work[v] \/ work'[v].step = "idle" \/ RouteOf(work'[v]),
         \A k \in DOMAIN job' \ DOMAIN job : KeyRoute(k)
  PROVE  Routes'
<1>1. \A v \in Workers : RouteOf(work'[v])
  BY DEF Routes, RouteOf
<1>2. \A k \in DOMAIN job' : KeyRoute(k)
  BY DEF Routes
<1>3. QED
  BY <1>1, <1>2 DEF Routes

LEMMA StartIs ==
  ASSUME NEW k \in Key
  PROVE  StartPosition(k) \in Nat /\ StartPosition(k) >= 1
BY LengthIsNat DEF StartPosition, Key

LEMMA RoutesKept == ASSUME IInv, Routes, [Next]_vars PROVE Routes'
<1>1. TypeOK /\ Working
  BY DEF IInv
<1>2. CASE UNCHANGED vars
  <2>1. UNCHANGED <<work, job>>
    BY <1>2 DEF vars
  <2>2. QED
    BY <2>1, RoutesStep
<1>3. ASSUME NEW e \in Events, DispatchTrigger(e) \/ Sweep(e) \/ TimePasses(e) PROVE Routes'
  <2>1. UNCHANGED work /\ \A k \in DOMAIN job' \ DOMAIN job : k.kind # "resume" /\ k.n = 0
    BY <1>3 DEF DispatchTrigger, Sweep, SweepKey, TimePasses, Enqueued, JobKey
  <2>2. QED
    BY <2>1, RoutesStep DEF KeyRoute
<1>4. ASSUME NEW w \in Workers,
             Take(w) \/ GiveBack(w) \/ \E k \in DOMAIN job : ReadCandidate(w, k)
      PROVE  Routes'
  <2>1. CASE LeftAlone(w) \/ \E k \in DOMAIN job : ReadCandidate(w, k)
    <3>1. UNCHANGED <<work, job>>
      BY <2>1 DEF LeftAlone, ReadCandidate
    <3>2. QED
      BY <3>1, RoutesStep
  <2>2. ASSUME NEW k \in DOMAIN job, TakeOf(w, k) PROVE Routes'
    <3>1. DOMAIN job' = DOMAIN job
      BY <2>2 DEF TakeOf, Claimed
    <3>2. work' = [work EXCEPT ![w] = [step |-> IF k.kind = "run" THEN "count" ELSE "evaluate",
                                       key |-> k, at |-> 0]]
      BY <2>2 DEF TakeOf
    <3>3. \A v \in Workers : work'[v] = work[v] \/ RouteOf(work'[v])
      BY <1>1, <3>2 DEF TypeOK, RouteOf
    <3>4. QED
      BY <3>1, <3>3, RoutesStep
  <2>3. CASE GiveBack(w)
    <3>1. DOMAIN job' = DOMAIN job /\ Others(w) /\ work'[w].step = "idle"
      BY <1>1, <2>3, GiveBackKeepsTypes, RestDoes DEF GiveBack
    <3>2. QED
      BY <3>1, RoutesStep DEF Others
  <2>4. QED
    BY <1>1, <1>4, <2>1, <2>2, <2>3, TakeIs
<1>5. ASSUME NEW w \in Workers, QueueResume(w) PROVE Routes'
  <2>1. \A k \in DOMAIN job' \ DOMAIN job : k = JobKey("resume", Of(w), work[w].at)
    BY <1>5 DEF QueueResume, Enqueued
  <2>2. work[w].at \in Positions /\ Actions[work[w].at] = "wait"
    BY <1>5 DEF QueueResume, Routes, RouteOf
  <2>3. Others(w) /\ work'[w].step = "idle"
    BY <1>1, <1>5, RestDoes DEF QueueResume
  <2>4. \A k \in DOMAIN job' \ DOMAIN job : KeyRoute(k)
    BY <2>1, <2>2 DEF KeyRoute, JobKey
  <2>5. QED
    BY <2>3, <2>4, RoutesStep DEF Others
<1>6. ASSUME NEW w \in Workers, Others(w), DOMAIN job' = DOMAIN job,
             work'[w].step = "idle" \/ RouteOf(work'[w])
      PROVE  Routes'
  BY <1>6, RoutesStep DEF Others
<1>7. ASSUME NEW w \in Workers, NEW matched \in BOOLEAN,
             \/ Count(w) \/ Insert(w, matched) \/ Evaluate(w, matched) \/ ActionThrows(w)
             \/ Complete(w) \/ Crash(w) \/ Throw(w) \/ Act(w) \/ FindDone(w) \/ Wait(w)
      PROVE  Routes'
  <2> DEFINE k == work[w].key
             at == work[w].at
  <2>1. work[w].step # "idle"
    BY <1>7 DEF Count, Insert, Evaluate, ActionThrows, Complete, Crash, Throw, Act, FindDone, Wait, AtAction
  <2>2. k \in Key /\ at \in 0..(Len(Actions) + 1) /\ RouteOf(work[w]) /\ Len(Actions) \in Nat
    BY <1>1, <2>1, WorkerHolds, LengthIsNat DEF Work, Routes
  <2>3. StartPosition(k) \in Nat /\ StartPosition(k) >= 1
    BY <2>2, StartIs
  <2>4. CASE Return(w)
    BY <1>1, <1>6, <2>1, <2>4, ReturnDoes DEF Gone
  <2>5. CASE /\ work' = [work EXCEPT ![w] = Idle]
             /\ UNCHANGED job \/ job' = Failed(k)
    BY <1>1, <1>6, <2>1, <2>5, RestDoes, FailedDoes DEF Retried
  <2>6. CASE UNCHANGED job /\ Goto(w, "insert", 0) /\ work[w].step = "count"
    BY <1>1, <1>6, <2>2, <2>6, GotoDoes DEF RouteOf
  <2>7. CASE UNCHANGED job /\ Goto(w, "act", 1) /\ work[w].step = "insert"
    <3>1. Others(w) /\ work'[w].key = k /\ work'[w].step = "act" /\ work'[w].at = 1
      BY <1>1, <2>7, GotoDoes
    <3>2. StartPosition(k) = 1
      BY <2>2, <2>7 DEF RouteOf, StartPosition
    <3>3. RouteOf(work'[w])
      BY <3>1, <3>2 DEF RouteOf
    <3>4. QED
      BY <1>6, <2>7, <3>1, <3>3
  <2>8. CASE UNCHANGED job /\ Goto(w, "act", StartPosition(k))
    <3>1. Others(w) /\ work'[w].key = k /\ work'[w].step = "act" /\ work'[w].at = StartPosition(k)
      BY <1>1, <2>8, GotoDoes
    <3>2. RouteOf(work'[w])
      BY <2>3, <3>1 DEF RouteOf
    <3>3. QED
      BY <1>6, <2>8, <3>1, <3>2
  <2>9. CASE UNCHANGED job /\ Goto(w, "act", at + 1) /\ work[w].step = "act" /\ at \in Positions
             /\ Actions[at] # "wait"
    <3>1. Others(w) /\ work'[w].key = k /\ work'[w].step = "act" /\ work'[w].at = at + 1
      BY <1>1, <2>9, GotoDoes
    <3>2. at + 1 >= StartPosition(k) /\ \A j \in StartPosition(k)..at : Actions[j] # "wait"
      BY <2>2, <2>3, <2>9 DEF RouteOf
    <3>3. RouteOf(work'[w])
      BY <2>2, <3>1, <3>2 DEF RouteOf
    <3>4. QED
      BY <1>6, <2>9, <3>1, <3>3
  <2>10. CASE UNCHANGED job /\ Goto(w, "park", at) /\ work[w].step = "act" /\ at \in Positions
              /\ Actions[at] = "wait"
    <3>1. Others(w) /\ work'[w].key = k /\ work'[w].step = "park" /\ work'[w].at = at
      BY <1>1, <2>10, GotoDoes
    <3>2. RouteOf(work'[w])
      BY <2>2, <2>10, <3>1 DEF RouteOf
    <3>3. QED
      BY <1>6, <2>10, <3>1, <3>2
  <2>11. \/ Return(w)
         \/ work' = [work EXCEPT ![w] = Idle] /\ (UNCHANGED job \/ job' = Failed(k))
         \/ UNCHANGED job /\ Goto(w, "insert", 0) /\ work[w].step = "count"
         \/ UNCHANGED job /\ Goto(w, "act", 1) /\ work[w].step = "insert"
         \/ UNCHANGED job /\ Goto(w, "act", StartPosition(k))
         \/ UNCHANGED job /\ Goto(w, "act", at + 1) /\ work[w].step = "act" /\ at \in Positions
            /\ Actions[at] # "wait"
         \/ UNCHANGED job /\ Goto(w, "park", at) /\ work[w].step = "act" /\ at \in Positions
            /\ Actions[at] = "wait"
    BY <1>7 DEF Count, Insert, Evaluate, ActionThrows, Complete, Crash, Throw, Act, FindDone, Wait, AtAction
  <2>12. QED
    BY <2>4, <2>5, <2>6, <2>7, <2>8, <2>9, <2>10, <2>11
<1>8. QED
  BY <1>2, <1>3, <1>4, <1>5, <1>7 DEF Next

-----------------------------------------------------------------------------
(* How many runs: those started and those about to be inserted             *)

Inserting == {w \in Workers : work[w].step = "insert"}
RunsBounded ==
  /\ IsFiniteSet(Started)
  /\ Cardinality(Started) + Cardinality(Inserting) <= MaxRuns + Cardinality(Workers) - 1

LEMMA Finite ==
  /\ IsFiniteSet(Inserting) /\ Cardinality(Inserting) \in Nat
  /\ Cardinality(Inserting) <= Cardinality(Workers)
  /\ Cardinality(Workers) \in Nat /\ Cardinality(Workers) >= 1
<1>1. IsFiniteSet(Workers) /\ Workers # {}
  BY WorkflowsAssumption
<1>2. IsFiniteSet(Inserting) /\ Cardinality(Inserting) <= Cardinality(Workers)
  BY <1>1, FS_Subset DEF Inserting
<1>3. Cardinality(Workers) \in Nat /\ Cardinality(Inserting) \in Nat
  BY <1>1, <1>2, FS_CardinalityType
<1>4. Cardinality(Workers) # 0
  BY <1>1, FS_EmptySet
<1>5. QED
  BY <1>2, <1>3, <1>4

LEMMA NoneStarts ==
  ASSUME RunsBounded, Started' = Started, Inserting' \subseteq Inserting
  PROVE  RunsBounded'
<1>1. Cardinality(Inserting') <= Cardinality(Inserting) /\ Cardinality(Inserting') \in Nat
  BY Finite, FS_Subset, FS_CardinalityType
<1>2. Cardinality(Started) \in Nat
  BY FS_CardinalityType DEF RunsBounded
<1>3. QED
  BY <1>1, <1>2, Finite, WorkflowsAssumption DEF RunsBounded

LEMMA RunsKeptBounded ==
  ASSUME IInv, Routes, RunsBounded, [Next]_vars
  PROVE  RunsBounded'
<1>1. TypeOK
  BY DEF IInv
<1>2. Cardinality(Started) \in Nat /\ MaxRuns \in Nat
  BY FS_CardinalityType, WorkflowsAssumption DEF RunsBounded
<1>3. ASSUME UNCHANGED run, NEW w \in Workers, Others(w), work'[w].step # "insert"
      PROVE  RunsBounded'
  <2>1. Started' = Started /\ Inserting' \subseteq Inserting
    BY <1>3 DEF Started, Inserting, Others
  <2>2. QED
    BY <2>1, NoneStarts
<1>4. ASSUME NEW w \in Workers, Others(w), work'[w].step # "insert", run[Of(w)] # "none",
             NEW s \in RunStatus \ {"none"}, run' = [run EXCEPT ![Of(w)] = s]
      PROVE  RunsBounded'
  <2>1. Started' = Started
    BY <1>1, <1>4 DEF Started, TypeOK
  <2>2. Inserting' \subseteq Inserting
    BY <1>4 DEF Inserting, Others
  <2>3. QED
    BY <2>1, <2>2, NoneStarts
<1>5. CASE UNCHANGED vars \/ \E e \in Events : DispatchTrigger(e) \/ TimePasses(e) \/ Sweep(e)
  <2>1. UNCHANGED <<run, work>>
    BY <1>5 DEF vars, DispatchTrigger, TimePasses, Sweep
  <2>2. Started' = Started /\ Inserting' \subseteq Inserting
    BY <2>1 DEF Started, Inserting
  <2>3. QED
    BY <2>2, NoneStarts
<1>6. ASSUME NEW w \in Workers,
             Take(w) \/ GiveBack(w) \/ \E k \in DOMAIN job : ReadCandidate(w, k)
      PROVE  RunsBounded'
  <2>1. CASE LeftAlone(w) \/ \E k \in DOMAIN job : ReadCandidate(w, k)
    <3>1. UNCHANGED <<run, work>>
      BY <2>1 DEF LeftAlone, ReadCandidate
    <3>2. Started' = Started /\ Inserting' \subseteq Inserting
      BY <3>1 DEF Started, Inserting
    <3>3. QED
      BY <3>2, NoneStarts
  <2>2. ASSUME NEW k \in DOMAIN job, TakeOf(w, k) PROVE RunsBounded'
    <3>1. Others(w) /\ work'[w].step # "insert" /\ UNCHANGED run
      BY <1>1, <2>2 DEF TakeOf, TypeOK, Others
    <3>2. QED
      BY <1>3, <3>1
  <2>3. CASE GiveBack(w)
    <3>1. Others(w) /\ work'[w].step = "idle" /\ UNCHANGED run
      BY <1>1, <2>3, RestDoes DEF GiveBack
    <3>2. QED
      BY <1>3, <3>1
  <2>4. QED
    BY <1>1, <1>6, <2>1, <2>2, <2>3, TakeIs
<1>7. ASSUME NEW w \in Workers, QueueResume(w) \/ Crash(w) \/ Throw(w) PROVE RunsBounded'
  <2>1. Others(w) /\ work'[w].step = "idle" /\ UNCHANGED run
    BY <1>1, <1>7, RestDoes DEF QueueResume, Crash, Throw
  <2>2. QED
    BY <1>3, <2>1
<1>8. ASSUME NEW w \in Workers, Act(w) \/ FindDone(w) PROVE RunsBounded'
  <2>1. Others(w) /\ work'[w].step = "act" /\ UNCHANGED run
    BY <1>1, <1>8, GotoDoes DEF Act, FindDone
  <2>2. QED
    BY <1>3, <2>1
<1>9. ASSUME NEW w \in Workers, ActionThrows(w) \/ Wait(w) \/ Complete(w) PROVE RunsBounded'
  <2>1. work[w].step \in {"act", "park"} /\ \E s \in RunStatus \ {"none"} : run' = [run EXCEPT ![Of(w)] = s]
    BY <1>9 DEF ActionThrows, Wait, Complete, AtAction, RunStatus
  <2>2. run[Of(w)] # "none"
    BY <1>1, <2>1 DEF TypeOK
  <2>3. Others(w) /\ work'[w].step # "insert"
    BY <1>1, <1>9, <2>1, ReturnDoes, GotoDoes DEF ActionThrows, Wait, Complete
  <2>4. QED
    BY <1>4, <2>1, <2>2, <2>3
<1>10. ASSUME NEW w \in Workers, NEW matched \in BOOLEAN, Evaluate(w, matched) PROVE RunsBounded'
  <2>1. work[w].step = "evaluate" /\ run[Of(w)] # "none"
    BY <1>1, <1>10 DEF Evaluate, TypeOK
  <2>2. Others(w) /\ work'[w].step # "insert"
    BY <1>1, <1>10, <2>1, ReturnDoes, GotoDoes DEF Evaluate
  <2>3. UNCHANGED run \/ run' = [run EXCEPT ![Of(w)] = "ended"]
    BY <1>10 DEF Evaluate
  <2>4. "ended" \in RunStatus \ {"none"}
    BY DEF RunStatus
  <2>5. QED
    BY <1>3, <1>4, <2>1, <2>2, <2>3, <2>4
<1>11. ASSUME NEW w \in Workers, Count(w) PROVE RunsBounded'
  <2>1. CASE ~BelowLimit
    <3>1. Others(w) /\ work'[w].step = "idle" /\ UNCHANGED run
      BY <1>1, <1>11, <2>1, ReturnDoes DEF Count
    <3>2. QED
      BY <1>3, <3>1
  <2>2. CASE BelowLimit
    <3>1. Started' = Started /\ Cardinality(Started) < MaxRuns
      BY <1>11, <2>2 DEF Count, Started, BelowLimit
    <3>2. Cardinality(Inserting)' <= Cardinality(Workers) /\ Cardinality(Inserting)' \in Nat
      <4>1. Inserting' \subseteq Workers
        BY DEF Inserting
      <4>2. QED
        BY <4>1, WorkflowsAssumption, FS_Subset, FS_CardinalityType
    <3>3. QED
      BY <1>2, <3>1, <3>2, Finite DEF RunsBounded
  <2>3. QED
    BY <2>1, <2>2
<1>12. ASSUME NEW w \in Workers, NEW matched \in BOOLEAN, Insert(w, matched) PROVE RunsBounded'
  <2>1. w \in Inserting /\ Of(w) \in Events
    BY <1>1, <1>12, WorkerHolds DEF Insert, Inserting
  <2>2. Others(w) /\ work'[w].step # "insert"
    BY <1>1, <1>12, ReturnDoes, RestDoes, GotoDoes DEF Insert
  <2>3. Inserting' = Inserting \ {w}
    BY <2>2 DEF Inserting, Others
  <2>4. Cardinality(Inserting') = Cardinality(Inserting) - 1
    BY <2>1, <2>3, Finite, FS_RemoveElement
  <2>5. Started' \subseteq Started \cup {Of(w)}
    BY <1>1, <1>12, <2>1 DEF Started, Insert, TypeOK
  <2>6. /\ IsFiniteSet(Started \cup {Of(w)})
        /\ Cardinality(Started \cup {Of(w)}) <= Cardinality(Started) + 1
    <3>1. IsFiniteSet(Started)
      BY DEF RunsBounded
    <3>2. /\ IsFiniteSet(Started \cup {Of(w)})
          /\ Cardinality(Started \cup {Of(w)}) =
               IF Of(w) \in Started THEN Cardinality(Started) ELSE Cardinality(Started) + 1
      BY <3>1, FS_AddElement
    <3>3. QED
      BY <1>2, <3>2
  <2>7. IsFiniteSet(Started') /\ Cardinality(Started') <= Cardinality(Started \cup {Of(w)})
    BY <2>5, <2>6, FS_Subset
  <2>8. Cardinality(Started') \in Nat /\ Cardinality(Started \cup {Of(w)}) \in Nat
    BY <2>6, <2>7, FS_CardinalityType
  <2>9. QED
    BY <1>2, <2>4, <2>6, <2>7, <2>8, Finite DEF RunsBounded
<1>13. QED
  BY <1>5, <1>6, <1>7, <1>8, <1>9, <1>10, <1>11, <1>12 DEF Next

-----------------------------------------------------------------------------
(* How often each action: what was done and what may still be done once    *)
(* more, by the job of the event, by the sweep or behind the wait, is      *)
(* bounded, and a job spends its turn with the action.                     *)

One(P) == IF P THEN 1 ELSE 0
(* The wait that an action is behind, with none between *)
Opens(n, i) == n < i /\ Actions[n] = "wait" /\ \A j \in (n + 1)..(i - 1) : Actions[j] # "wait"
(* The job of a key may come to an action *)
May(k, i) ==
  \/ k \notin DOMAIN job
  \/ job[k].status = "queued"
  \/ \E w \in Workers : /\ work[w].key = k
                        /\ work[w].step = "evaluate" \/ (work[w].step = "act" /\ work[w].at <= i)
MayRun(e, i) ==
  \/ run[e] = "none"
  \/ \E w \in Workers : work[w].key = JobKey("run", e, 0) /\ work[w].step = "act" /\ work[w].at <= i
MayResume(e, n, i) == May(JobKey("resume", e, n), i)
MaySweep(e, i) == May(SweepKey(e), i)

BudgetOf(e, i) ==
  /\ ~Behind(i) => done[e][i] + One(MayRun(e, i)) + One(MaySweep(e, i)) <= Mishaps + 2
  /\ \A n \in Positions : Opens(n, i) => done[e][i] + One(MayResume(e, n, i)) <= Mishaps + 1
  /\ Behind(i) /\ done[e][i] > 0 => \E n \in Positions : Opens(n, i)
  /\ Actions[i] = "once" => done[e][i] <= 1
Budget == \A e \in Events, i \in Positions : BudgetOf(e, i)

(* A step after which no job may come where it could not before *)
NoMoreRuns == \A e \in Events, i \in Positions : MayRun(e, i)' => MayRun(e, i)
NoMore ==
  /\ NoMoreRuns
  /\ \A k \in Key, i \in Positions : k.kind # "run" /\ May(k, i)' => May(k, i)

LEMMA ResumeKeyIs ==
  ASSUME NEW e \in Events, NEW n \in Positions
  PROVE  JobKey("resume", e, n) \in Key /\ JobKey("resume", e, n).kind = "resume"
BY LengthIsNat DEF JobKey, Key, Positions

LEMMA SweepKeyIs ==
  ASSUME NEW e \in Events
  PROVE  SweepKey(e) \in Key /\ SweepKey(e).kind = "sweep"
BY LengthIsNat DEF SweepKey, JobKey, Key

LEMMA QuietKeepsBudget ==
  ASSUME TypeOK, Budget, NoMore, UNCHANGED done, Mishaps' = Mishaps \/ Mishaps' = Mishaps + 1
  PROVE  Budget'
<1> SUFFICES ASSUME NEW e \in Events, NEW i \in Positions PROVE BudgetOf(e, i)'
  BY DEF Budget
<1>1. BudgetOf(e, i) /\ Mishaps \in Nat /\ done[e][i] \in Nat /\ done'[e][i] = done[e][i]
  BY DEF Budget, TypeOK, Mishaps
<1>2. MayRun(e, i)' => MayRun(e, i)
  BY DEF NoMore, NoMoreRuns
<1>3. MaySweep(e, i)' => MaySweep(e, i)
  BY SweepKeyIs DEF NoMore, MaySweep, SweepKey
<1>4. \A n \in Positions : MayResume(e, n, i)' => MayResume(e, n, i)
  BY ResumeKeyIs DEF NoMore, MayResume
<1>5. ~Behind(i)' => done'[e][i] + One(MayRun(e, i)') + One(MaySweep(e, i)') <= Mishaps' + 2
  <2>1. One(MayRun(e, i)') <= One(MayRun(e, i)) /\ One(MaySweep(e, i)') <= One(MaySweep(e, i))
    BY <1>2, <1>3 DEF One
  <2>2. One(MayRun(e, i)') \in Int /\ One(MaySweep(e, i)') \in Int
        /\ One(MayRun(e, i)) \in Int /\ One(MaySweep(e, i)) \in Int
    BY DEF One
  <2>3. QED
    BY <1>1, <2>1, <2>2 DEF BudgetOf, Behind
<1>6. ASSUME NEW n \in Positions, Opens(n, i)
      PROVE  done'[e][i] + One(MayResume(e, n, i)') <= Mishaps' + 1
  <2>1. One(MayResume(e, n, i)') <= One(MayResume(e, n, i))
        /\ One(MayResume(e, n, i)') \in Int /\ One(MayResume(e, n, i)) \in Int
    BY <1>4 DEF One
  <2>2. QED
    BY <1>1, <1>6, <2>1 DEF BudgetOf
<1>7. QED
  BY <1>1, <1>5, <1>6 DEF BudgetOf, Behind, Opens, One

LEMMA FaultKeepsBudget ==
  ASSUME TypeOK, Budget, NoMoreRuns, UNCHANGED done, Mishaps' = Mishaps + 1
  PROVE  Budget'
<1> SUFFICES ASSUME NEW e \in Events, NEW i \in Positions PROVE BudgetOf(e, i)'
  BY DEF Budget
<1>1. BudgetOf(e, i) /\ Mishaps \in Nat /\ done[e][i] \in Nat /\ done'[e][i] = done[e][i]
  BY DEF Budget, TypeOK, Mishaps
<1>2. MayRun(e, i)' => MayRun(e, i)
  BY DEF NoMoreRuns
<1>5. ~Behind(i)' => done'[e][i] + One(MayRun(e, i)') + One(MaySweep(e, i)') <= Mishaps' + 2
  <2>1. One(MayRun(e, i)') <= One(MayRun(e, i)) /\ One(MaySweep(e, i)') <= One(MaySweep(e, i)) + 1
    BY <1>2 DEF One
  <2>2. One(MayRun(e, i)') \in Int /\ One(MaySweep(e, i)') \in Int
        /\ One(MayRun(e, i)) \in Int /\ One(MaySweep(e, i)) \in Int
    BY DEF One
  <2>3. QED
    BY <1>1, <2>1, <2>2 DEF BudgetOf, Behind
<1>6. ASSUME NEW n \in Positions, Opens(n, i)
      PROVE  done'[e][i] + One(MayResume(e, n, i)') <= Mishaps' + 1
  <2>1. One(MayResume(e, n, i)') <= One(MayResume(e, n, i)) + 1
        /\ One(MayResume(e, n, i)') \in Int /\ One(MayResume(e, n, i)) \in Int
    BY DEF One
  <2>2. QED
    BY <1>1, <1>6, <2>1 DEF BudgetOf
<1>7. QED
  BY <1>1, <1>5, <1>6 DEF BudgetOf, Behind, Opens, One

-----------------------------------------------------------------------------
(* What the steps do to the turns *)

(* A worker goes on with its job, takes one that was queued or leaves it   *)
OnwardOf(v) ==
  \/ work'[v] = work[v]
  \/ work'[v].step \notin {"evaluate", "act"}
  \/ /\ work'[v].key = work[v].key /\ work'[v].step = "act"
     /\ \/ work[v].step = "evaluate"
        \/ work[v].step = "act" /\ \A i \in Positions : work'[v].at <= i => work[v].at <= i
        \/ work[v].step = "insert" /\ run[Of(v)] = "none"
  \/ /\ work'[v].step = "evaluate" /\ work'[v].key \in DOMAIN job /\ work'[v].key.kind # "run"
     /\ job[work'[v].key].status = "queued"
Onward ==
  /\ \A v \in Workers : OnwardOf(v)
  /\ DOMAIN job \subseteq DOMAIN job'
  /\ \A k \in DOMAIN job : k.kind # "run" /\ job'[k].status = "queued" => job[k].status = "queued"
  /\ \A e \in Events : run'[e] = "none" => run[e] = "none"

LEMMA OnwardRuns ==
  ASSUME TypeOK, Routes, \A v \in Workers : OnwardOf(v),
         \A e \in Events : run'[e] = "none" => run[e] = "none"
  PROVE  NoMoreRuns
<1> SUFFICES ASSUME NEW e \in Events, NEW i \in Positions, MayRun(e, i)', run'[e] # "none"
             PROVE  MayRun(e, i)
  BY DEF NoMoreRuns, MayRun
<1> DEFINE k == JobKey("run", e, 0)
<1>1. k.kind = "run" /\ k.event = e
  BY DEF JobKey
<1>2. PICK v \in Workers : work'[v].key = k /\ work'[v].step = "act" /\ work'[v].at <= i
  BY DEF MayRun
<1>3. RouteOf(work[v]) /\ OnwardOf(v)
  BY DEF Routes
<1>4. CASE work'[v] = work[v]
  BY <1>2, <1>4 DEF MayRun
<1>5. CASE work[v].key = k /\ work[v].step = "act" /\ work[v].at <= i
  BY <1>5 DEF MayRun
<1>6. CASE work[v].key = k /\ work[v].step = "insert" /\ run[Of(v)] = "none"
  BY <1>1, <1>6 DEF MayRun, Of
<1>7. work[v].step = "evaluate" => work[v].key # k
  BY <1>1, <1>3 DEF RouteOf
<1>8. QED
  BY <1>2, <1>3, <1>4, <1>5, <1>6, <1>7 DEF OnwardOf

LEMMA OnwardNoMore == ASSUME TypeOK, Routes, Onward PROVE NoMore
<1>1. NoMoreRuns
  BY OnwardRuns DEF Onward
<1>2. ASSUME NEW k \in Key, NEW i \in Positions, k.kind # "run", May(k, i)'
      PROVE  May(k, i)
  <2>1. CASE k \notin DOMAIN job' \/ job'[k].status = "queued"
    BY <1>2, <2>1 DEF May, Onward
  <2>2. ASSUME NEW v \in Workers, work'[v].key = k,
               work'[v].step = "evaluate" \/ (work'[v].step = "act" /\ work'[v].at <= i)
        PROVE  May(k, i)
    <3>1. OnwardOf(v) /\ RouteOf(work[v])
      BY DEF Onward, Routes
    <3>2. CASE work'[v] = work[v]
      BY <2>2, <3>2 DEF May
    <3>3. CASE work[v].key = k /\ (work[v].step = "evaluate" \/ (work[v].step = "act" /\ work[v].at <= i))
      BY <3>3 DEF May
    <3>4. CASE k \in DOMAIN job /\ job[k].status = "queued"
      BY <3>4 DEF May
    <3>5. work[v].key = k => work[v].step # "insert"
      BY <1>2, <3>1 DEF RouteOf
    <3>6. QED
      BY <2>2, <3>1, <3>2, <3>3, <3>4, <3>5 DEF OnwardOf
  <2>3. QED
    BY <1>2, <2>1, <2>2 DEF May
<1>3. QED
  BY <1>1, <1>2 DEF NoMore

(* The step that does an action spends the turn of its job.                *)
LEMMA KeyIs ==
  ASSUME TypeOK, Routes, NEW w \in Workers, work[w].step = "act"
  PROVE  LET k == work[w].key IN
         /\ k \in Key /\ k \in DOMAIN job /\ k.event = Of(w) /\ Of(w) \in Events
         /\ k.kind = "run" => k = JobKey("run", Of(w), 0)
         /\ k.kind = "sweep" => k = SweepKey(Of(w))
         /\ k.kind = "resume" => k = JobKey("resume", Of(w), k.n) /\ k.n \in Positions
                                 /\ Actions[k.n] = "wait"
<1> DEFINE k == work[w].key
<1>1. k \in Key /\ k \in DOMAIN job /\ k.event = Of(w) /\ Of(w) \in Events
  BY WorkerHolds DEF Of
<1>2. k = [kind |-> k.kind, event |-> k.event, n |-> k.n]
  BY <1>1 DEF Key
<1>3. KeyRoute(k)
  BY <1>1 DEF Routes
<1>4. QED
  BY <1>1, <1>2, <1>3 DEF KeyRoute, JobKey, SweepKey

LEMMA PlaceIs ==
  ASSUME TypeOK, Routes, NEW w \in Workers, work[w].step = "act", work[w].at \in Positions
  PROVE  LET k == work[w].key
             i == work[w].at
         IN  /\ k.kind \in {"run", "sweep"} <=> ~Behind(i)
             /\ k.kind = "resume" => Opens(k.n, i) /\ \A n \in Positions : Opens(n, i) => n = k.n
<1> DEFINE k == work[w].key
           i == work[w].at
<1>1. RouteOf(work[w]) /\ k \in Key /\ Len(Actions) \in Nat /\ i \in 1..Len(Actions)
  BY KeyIs, LengthIsNat DEF Routes, Positions
<1>2. /\ i >= StartPosition(k)
      /\ \A j \in StartPosition(k)..(i - 1) : Actions[j] # "wait"
  BY <1>1 DEF RouteOf
<1>3. k.kind \in {"run", "sweep"} => ~Behind(i)
  BY <1>2 DEF StartPosition, Behind
<1>4. ASSUME k.kind = "resume"
      PROVE  Behind(i) /\ Opens(k.n, i) /\ \A n \in Positions : Opens(n, i) => n = k.n
  <2>1. k.n \in Positions /\ Actions[k.n] = "wait" /\ k.n + 1 <= i
        /\ \A j \in (k.n + 1)..(i - 1) : Actions[j] # "wait"
    BY <1>2, <1>4, KeyIs DEF StartPosition
  <2>2. k.n \in 1..(i - 1)
    BY <1>1, <2>1 DEF Positions
  <2>3. Behind(i) /\ Opens(k.n, i)
    <3>1. Behind(i)
      BY <2>1, <2>2 DEF Behind
    <3>2. k.n < i
      BY <1>1, <2>2
    <3>3. Opens(k.n, i)
      BY <2>1, <3>2 DEF Opens
    <3>4. QED
      BY <3>1, <3>3
  <2>4. ASSUME NEW n \in Positions, Opens(n, i) PROVE n = k.n
    <3>1. n \in Int /\ k.n \in Int /\ i \in Int /\ n < i /\ k.n < i
      BY <1>1, <2>2, <2>4 DEF Opens, Positions
    <3>2. ~(n < k.n)
      BY <2>1, <2>4, <3>1 DEF Opens
    <3>3. ~(k.n < n)
      BY <2>1, <2>4, <3>1 DEF Opens
    <3>4. QED
      BY <3>1, <3>2, <3>3
  <2>5. QED
    BY <2>3, <2>4
<1>5. k.kind \in {"run", "sweep", "resume"}
  BY <1>1 DEF Key
<1>6. QED
  BY <1>3, <1>4, <1>5

LEMMA TurnIsSpent ==
  ASSUME TypeOK, Routes, NEW w \in Workers, work[w].step = "act",
         NEW k, k = work[w].key, NEW e, e = Of(w), NEW i \in Positions, i = work[w].at,
         Others(w), UNCHANGED job, work'[w].key = k, run'[e] # "none",
         work'[w].step = "park" \/ (work'[w].step = "act" /\ work'[w].at = i + 1)
  PROVE  /\ k.kind = "run" => MayRun(e, i) /\ ~MayRun(e, i)'
         /\ k.kind # "run" => May(k, i) /\ ~May(k, i)'
<1>1. k \in DOMAIN job' /\ job'[k].status # "queued" /\ i \in Nat
  BY LengthIsNat DEF TypeOK, Positions
<1>2. ASSUME NEW v \in Workers, work'[v].key = k, work'[v].step \in {"evaluate", "act"},
             work'[v].step = "act" => work'[v].at <= i
      PROVE  FALSE
  <2>1. CASE v = w
    BY <1>1, <1>2, <2>1
  <2>2. CASE v # w
    BY <1>2, <2>2 DEF Others, TypeOK
  <2>3. QED
    BY <2>1, <2>2
<1>3. k.kind = "run" => k = JobKey("run", e, 0)
  BY KeyIs
<1>4. QED
  BY <1>1, <1>2, <1>3 DEF MayRun, May

(* What an action adds to, and takes from, the account of its run *)
LEMMA CountKeepsBudget ==
  ASSUME TypeOK, Routes, Budget, NEW w \in Workers, Act(w) \/ Wait(w)
  PROVE  Budget'
<1>1. PICK k, e, i : k = work[w].key /\ e = Of(w) /\ i = work[w].at
  OBVIOUS
<1>2. work[w].step = "act" /\ i \in Positions /\ i \in Nat
  BY <1>1, LengthIsNat DEF Act, Wait, AtAction, Positions
<1>3. /\ Others(w) /\ UNCHANGED job /\ Mishaps' = Mishaps /\ work'[w].key = k
      /\ work'[w].step = "park" \/ (work'[w].step = "act" /\ work'[w].at = i + 1)
  BY <1>1, GotoDoes DEF Act, Wait, Mishaps
<1>4. e \in Events /\ run[e] # "none"
  BY <1>1, <1>2, KeyIs DEF TypeOK
<1>5. \A d \in Events : run'[d] = "none" => run[d] = "none"
  BY <1>1, <1>4 DEF Act, Wait, TypeOK
<1>6. /\ k.kind = "run" => MayRun(e, i) /\ ~MayRun(e, i)'
      /\ k.kind # "run" => May(k, i) /\ ~May(k, i)'
  BY <1>1, <1>2, <1>3, <1>4, <1>5, TurnIsSpent
<1>7. NoMore
  <2>1. OnwardOf(w)
    BY <1>1, <1>2, <1>3 DEF OnwardOf, Positions
  <2>2. Onward
    BY <1>3, <1>5, <2>1 DEF Onward, OnwardOf, Others
  <2>3. QED
    BY <2>2, OnwardNoMore
<1>8. /\ done'[e][i] = done[e][i] + 1
      /\ \A d \in Events, j \in Positions : d # e \/ j # i => done'[d][j] = done[d][j]
  BY <1>1, <1>2, <1>4 DEF Act, Wait, Counted, TypeOK
<1>9. Mishaps \in Nat /\ \A d \in Events, j \in Positions : done[d][j] \in Nat
  BY DEF TypeOK, Mishaps
<1>10. /\ k.kind \in {"run", "sweep"} <=> ~Behind(i)
       /\ k.kind = "resume" => k.n \in Positions /\ Opens(k.n, i)
                                /\ \A n \in Positions : Opens(n, i) => n = k.n
       /\ k.kind = "run" => k = JobKey("run", e, 0)
       /\ k.kind = "sweep" => k = SweepKey(e)
       /\ k.kind = "resume" => k = JobKey("resume", e, k.n)
       /\ k.kind \in {"run", "sweep", "resume"}
  BY <1>1, <1>2, PlaceIs, KeyIs DEF Key
<1>11. ASSUME NEW d \in Events, NEW j \in Positions, ~Behind(j)
       PROVE  done'[d][j] + One(MayRun(d, j)') + One(MaySweep(d, j)') <= Mishaps' + 2
  <2>1. (MayRun(d, j)' => MayRun(d, j)) /\ (MaySweep(d, j)' => MaySweep(d, j))
    BY <1>7, SweepKeyIs DEF NoMore, NoMoreRuns, MaySweep, SweepKey
  <2>2. done[d][j] + One(MayRun(d, j)) + One(MaySweep(d, j)) <= Mishaps + 2
    BY <1>11 DEF Budget, BudgetOf
  <2>3. CASE d = e /\ j = i
    <3>1. \/ MayRun(d, j) /\ ~MayRun(d, j)'
          \/ MaySweep(d, j) /\ ~MaySweep(d, j)'
      BY <1>6, <1>10, <1>11, <2>3 DEF MaySweep, SweepKey
    <3>2. done'[d][j] = done[d][j] + 1
      BY <1>8, <2>3
    <3>3. QED
      BY <1>3, <1>9, <2>1, <2>2, <3>1, <3>2 DEF One
  <2>4. CASE d # e \/ j # i
    BY <1>3, <1>8, <1>9, <2>1, <2>2, <2>4 DEF One
  <2>5. QED
    BY <2>3, <2>4
<1>12. ASSUME NEW d \in Events, NEW j \in Positions, NEW n \in Positions, Opens(n, j)
       PROVE  done'[d][j] + One(MayResume(d, n, j)') <= Mishaps' + 1
  <2>1. MayResume(d, n, j)' => MayResume(d, n, j)
    BY <1>7, ResumeKeyIs DEF NoMore, MayResume
  <2>2. done[d][j] + One(MayResume(d, n, j)) <= Mishaps + 1
    BY <1>12 DEF Budget, BudgetOf
  <2>3. CASE d = e /\ j = i
    <3>1. Behind(j)
      BY <1>12, LengthIsNat DEF Opens, Behind, Positions
    <3>2. k = JobKey("resume", e, n) /\ k.kind # "run"
      BY <1>10, <1>12, <2>3, <3>1
    <3>3. MayResume(d, n, j) /\ ~MayResume(d, n, j)'
      BY <1>6, <2>3, <3>2 DEF MayResume
    <3>4. QED
      BY <1>3, <1>8, <1>9, <2>2, <2>3, <3>3 DEF One
  <2>4. CASE d # e \/ j # i
    BY <1>3, <1>8, <1>9, <2>1, <2>2, <2>4 DEF One
  <2>5. QED
    BY <2>3, <2>4
<1>13. ASSUME NEW d \in Events, NEW j \in Positions, Behind(j), done'[d][j] > 0
       PROVE  \E n \in Positions : Opens(n, j)
  <2>1. CASE d = e /\ j = i
    BY <1>10, <1>13, <2>1
  <2>2. CASE d # e \/ j # i
    BY <1>8, <1>13, <2>2 DEF Budget, BudgetOf
  <2>3. QED
    BY <2>1, <2>2
<1>14. ASSUME NEW d \in Events, NEW j \in Positions, Actions[j] = "once"
       PROVE  done'[d][j] <= 1
  <2>1. CASE d = e /\ j = i
    <3>1. done[e][i] = 0
      BY <1>1, <1>14, <2>1 DEF Act, Wait, AtAction
    <3>2. QED
      BY <1>8, <2>1, <3>1
  <2>2. CASE d # e \/ j # i
    BY <1>8, <1>14, <2>2 DEF Budget, BudgetOf
  <2>3. QED
    BY <2>1, <2>2
<1>15. QED
  BY <1>11, <1>12, <1>13, <1>14 DEF Budget, BudgetOf, Behind, Opens, One

LEMMA BudgetKept == ASSUME IInv, Routes, Budget, [Next]_vars PROVE Budget'
<1>1. TypeOK /\ Working
  BY DEF IInv
<1>2. ASSUME Onward, UNCHANGED done, Mishaps' = Mishaps \/ Mishaps' = Mishaps + 1
      PROVE  Budget'
  BY <1>1, <1>2, OnwardNoMore, QuietKeepsBudget
<1>3. CASE UNCHANGED vars
  BY <1>2, <1>3 DEF vars, Onward, OnwardOf, Mishaps
<1>4. ASSUME NEW e \in Events, DispatchTrigger(e) \/ Sweep(e) PROVE Budget'
  <2>1. UNCHANGED <<run, done, work, Mishaps>> /\ DOMAIN job \subseteq DOMAIN job'
        /\ \A k \in DOMAIN job : job'[k] = job[k]
    BY <1>4 DEF DispatchTrigger, Sweep, Enqueued, Mishaps
  <2>2. QED
    BY <1>2, <2>1 DEF Onward, OnwardOf
<1>5. ASSUME NEW e \in Events, TimePasses(e) PROVE Budget'
  <2>1. UNCHANGED <<run, done, work, Mishaps>> /\ DOMAIN job' = DOMAIN job
    BY <1>5 DEF TimePasses, Mishaps
  <2>2. \A k \in DOMAIN job : job'[k].status = job[k].status
    BY <1>1, <1>5 DEF TimePasses, TypeOK, Job
  <2>3. QED
    BY <1>2, <2>1, <2>2 DEF Onward, OnwardOf
<1>6. ASSUME NEW w \in Workers,
             Take(w) \/ GiveBack(w) \/ \E k \in DOMAIN job : ReadCandidate(w, k)
      PROVE  Budget'
  <2>1. CASE LeftAlone(w) \/ \E k \in DOMAIN job : ReadCandidate(w, k)
    <3>1. UNCHANGED <<run, done, work, job, Mishaps>>
      BY <2>1 DEF LeftAlone, ReadCandidate, Mishaps
    <3>2. QED
      BY <1>2, <3>1 DEF Onward, OnwardOf
  <2>2. ASSUME NEW k \in DOMAIN job, TakeOf(w, k) PROVE Budget'
    <3>1. UNCHANGED <<run, done, faults>> /\ Kept(job', k) /\ job'[k].status = "running"
      BY <1>1, <2>2, ClaimedKeeps DEF TakeOf
    <3>2. Others(w) /\ work'[w] = [step |-> IF k.kind = "run" THEN "count" ELSE "evaluate",
                                    key |-> k, at |-> 0]
      BY <1>1, <2>2 DEF TakeOf, TypeOK, Others
    <3>3. CASE job[k].status = "queued"
      <4>1. OnwardOf(w)
        BY <3>2, <3>3 DEF OnwardOf
      <4>2. Onward
        BY <3>1, <3>2, <4>1 DEF Onward, OnwardOf, Others, Kept
      <4>3. Mishaps' = Mishaps
        BY <2>2, <3>1, <3>3 DEF TakeOf, Mishaps
      <4>4. QED
        BY <1>2, <3>1, <4>2, <4>3
    <3>4. CASE job[k].status = "over"
      <4>1. again' = again + 1
        BY <2>2, <3>4 DEF TakeOf
      <4>2. Mishaps' = Mishaps + 1
        BY <1>1, <3>1, <4>1 DEF TypeOK, Mishaps
      <4>3. NoMoreRuns
        <5> SUFFICES ASSUME NEW e \in Events, NEW i \in Positions, MayRun(e, i)'
                     PROVE  MayRun(e, i)
          BY DEF NoMoreRuns
        <5>1. \A v \in Workers : work'[v].step = "act" => work'[v] = work[v]
          BY <3>2 DEF Others
        <5>2. QED
          BY <3>1, <5>1 DEF MayRun
      <4>4. QED
        BY <1>1, <3>1, <4>2, <4>3, FaultKeepsBudget
    <3>5. job[k].status \in {"queued", "running", "over"}
      BY <1>1 DEF TypeOK, Job
    <3>6. QED
      BY <2>2, <3>3, <3>4, <3>5 DEF TakeOf
  <2>3. CASE GiveBack(w)
    <3>1. UNCHANGED <<run, done, Mishaps>> /\ Others(w) /\ work'[w].step = "idle"
      BY <1>1, <2>3, RestDoes DEF GiveBack, Mishaps
    <3>2. DOMAIN job' = DOMAIN job /\ \A x \in DOMAIN job \ {work[w].key} : job'[x] = job[x]
      BY <2>3 DEF GiveBack
    <3>3. NoMoreRuns
      BY <3>1 DEF NoMoreRuns, MayRun, Others
    <3>4. ASSUME NEW x \in Key, NEW i \in Positions, x.kind # "run", May(x, i)'
          PROVE  May(x, i)
      <4>1. CASE x = work[w].key
        <5>1. work[w].step = "evaluate"
          BY <2>3, <3>4, <4>1 DEF GiveBack, Routes, RouteOf
        <5>2. QED
          BY <4>1, <5>1 DEF May
      <4>2. CASE x # work[w].key
        BY <3>1, <3>2, <3>4, <4>2 DEF May, Others
      <4>3. QED
        BY <4>1, <4>2
    <3>5. QED
      BY <1>1, <3>1, <3>3, <3>4, QuietKeepsBudget DEF NoMore
  <2>4. QED
    BY <1>1, <1>6, <2>1, <2>2, <2>3, TakeIs
<1>7. ASSUME NEW w \in Workers, Act(w) \/ Wait(w) PROVE Budget'
  BY <1>1, <1>7, CountKeepsBudget
<1>8. ASSUME NEW w \in Workers, Throw(w) PROVE Budget'
  <2>1. Others(w) /\ work'[w].step = "idle" /\ UNCHANGED <<run, done>>
    BY <1>1, <1>8, RestDoes DEF Throw
  <2>2. \A v \in Workers : OnwardOf(v)
    BY <2>1 DEF Others, OnwardOf
  <2>3. Mishaps' = Mishaps + 1
    BY <1>1, <1>8 DEF Throw, TypeOK, Mishaps
  <2>4. QED
    BY <1>1, <2>1, <2>2, <2>3, OnwardRuns, FaultKeepsBudget
<1>9. ASSUME NEW w \in Workers, QueueResume(w) PROVE Budget'
  <2>1. UNCHANGED <<run, done, Mishaps>> /\ Others(w) /\ work'[w].step = "idle"
    BY <1>1, <1>9, RestDoes DEF QueueResume, Mishaps
  <2>2. DOMAIN job \subseteq DOMAIN job'
        /\ \A k \in DOMAIN job : job'[k].status = "queued" => job[k].status = "queued"
    BY <1>9 DEF QueueResume, Enqueued
  <2>3. QED
    BY <1>2, <2>1, <2>2 DEF Onward, OnwardOf, Others
<1>10. ASSUME NEW w \in Workers, NEW matched \in BOOLEAN,
              \/ Count(w) \/ Insert(w, matched) \/ Evaluate(w, matched) \/ FindDone(w)
              \/ ActionThrows(w) \/ Complete(w) \/ Crash(w)
       PROVE  Budget'
  <2> DEFINE k == work[w].key
  <2>1. work[w].step # "idle"
    BY <1>10 DEF Count, Insert, Evaluate, ActionThrows, Complete, Crash, FindDone, AtAction
  <2>2. k \in DOMAIN job /\ RouteOf(work[w]) /\ Of(w) \in Events
    BY <1>1, <2>1, WorkerHolds DEF Routes
  <2>3. UNCHANGED done /\ (Mishaps' = Mishaps \/ Mishaps' = Mishaps + 1)
    BY <1>1, <1>10 DEF Count, Insert, Evaluate, ActionThrows, Complete, Crash, FindDone, TypeOK, Mishaps
  <2>4. \A e \in Events : run'[e] = "none" => run[e] = "none"
    BY <1>1, <1>10, <2>2 DEF Count, Insert, Evaluate, ActionThrows, Complete, Crash, FindDone, TypeOK
  <2>5. DOMAIN job' = DOMAIN job
        /\ \A x \in DOMAIN job : x.kind # "run" /\ job'[x].status = "queued" => job[x].status = "queued"
    <3>1. CASE UNCHANGED job
      BY <3>1
    <3>2. CASE Return(w)
      BY <1>1, <2>1, <3>2, ReturnDoes DEF Gone
    <3>3. CASE work[w].step = "insert" /\ job' = Failed(k)
      BY <1>1, <2>1, <2>2, <3>3, FailedDoes DEF Retried, RouteOf
    <3>4. QED
      BY <1>10, <3>1, <3>2, <3>3 DEF Count, Insert, Evaluate, ActionThrows, Complete, Crash, FindDone
  <2>6. Others(w) /\ OnwardOf(w)
    <3>1. CASE Return(w) \/ work' = [work EXCEPT ![w] = Idle]
      BY <1>1, <2>1, <3>1, ReturnDoes, RestDoes DEF OnwardOf
    <3>2. CASE Count(w) /\ Goto(w, "insert", 0)
      BY <1>1, <3>2, GotoDoes DEF OnwardOf
    <3>3. CASE Insert(w, matched) /\ Goto(w, "act", 1) /\ run[Of(w)] = "none"
      BY <1>1, <3>3, GotoDoes DEF OnwardOf, Insert
    <3>4. CASE Evaluate(w, matched) /\ Goto(w, "act", StartPosition(k))
      BY <1>1, <3>4, GotoDoes DEF OnwardOf, Evaluate
    <3>5. CASE FindDone(w)
      <4>1. work[w].step = "act" /\ work[w].at \in Positions /\ Goto(w, "act", work[w].at + 1)
        BY <3>5 DEF FindDone, AtAction
      <4>2. Others(w) /\ work'[w].key = work[w].key /\ work'[w].step = "act"
            /\ work'[w].at = work[w].at + 1
        BY <1>1, <4>1, GotoDoes
      <4>3. QED
        BY <4>1, <4>2, LengthIsNat DEF OnwardOf, Positions
    <3>6. QED
      BY <1>10, <3>1, <3>2, <3>3, <3>4, <3>5
         DEF Count, Insert, Evaluate, ActionThrows, Complete, Crash
  <2>7. Onward
    BY <2>4, <2>5, <2>6 DEF Onward, OnwardOf, Others
  <2>8. QED
    BY <1>2, <2>3, <2>7
<1>11. QED
  BY <1>3, <1>4, <1>5, <1>6, <1>7, <1>8, <1>9, <1>10 DEF Next

-----------------------------------------------------------------------------
(* The bounds follow *)

Bounded == IInv /\ Routes /\ RunsBounded /\ Budget

LEMMA InitBounded == ASSUME Init PROVE Bounded
<1>1. IInv
  BY InitIInv
<1>2. Routes
  BY DEF Init, Routes, RouteOf, Idle
<1>3. RunsBounded
  <2>1. Started = {} /\ Inserting = {}
    BY DEF Init, Started, Inserting, Idle
  <2>2. QED
    BY <2>1, FS_EmptySet, Finite, WorkflowsAssumption DEF RunsBounded
<1>4. Budget
  <2>1. \A e \in Events, i \in Positions : done[e][i] = 0 /\ Mishaps = 0
    BY DEF Init, Mishaps
  <2>2. QED
    BY <2>1 DEF Budget, BudgetOf, One
<1>5. QED
  BY <1>1, <1>2, <1>3, <1>4 DEF Bounded

LEMMA BoundedBounds == ASSUME Bounded PROVE ActsWithinBounds
<1>1. Cardinality(Started) <= MaxRuns + Cardinality(Workers) - 1
  <2>1. Cardinality(Started) \in Nat
    BY FS_CardinalityType DEF Bounded, RunsBounded
  <2>2. QED
    BY <2>1, Finite, WorkflowsAssumption DEF Bounded, RunsBounded
<1>2. ASSUME NEW e \in Events, NEW i \in Positions PROVE done[e][i] <= MostOften(e, i)
  <2>1. BudgetOf(e, i) /\ Mishaps \in Nat /\ done[e][i] \in Nat
    BY DEF Bounded, Budget, IInv, TypeOK, Mishaps
  <2>2. CASE Actions[i] = "once"
    BY <2>1, <2>2 DEF BudgetOf, MostOften
  <2>3. CASE Actions[i] # "once" /\ Behind(i)
    BY <2>1, <2>3 DEF BudgetOf, MostOften, One
  <2>4. CASE Actions[i] # "once" /\ ~Behind(i)
    <3>1. SweepKey(e) \notin DOMAIN job => MaySweep(e, i)
      BY DEF MaySweep, May
    <3>2. QED
      BY <2>1, <2>4, <3>1 DEF BudgetOf, MostOften, One, SweepKey
  <2>5. QED
    BY <2>2, <2>3, <2>4
<1>3. QED
  BY <1>1, <1>2 DEF ActsWithinBounds

-----------------------------------------------------------------------------
(* Theorems *)

(* Every table keeps its types, no job runs for two workers, and no job    *)
(* resumes or sweeps a run that was never inserted.                        *)
THEOREM TypeCorrect == Spec => []TypeOK
<1>1. Init => IInv
  BY InitIInv
<1>2. IInv /\ [Next]_vars => IInv'
  BY IInvKept
<1>3. IInv => TypeOK
  BY DEF IInv
<1>4. QED
  BY <1>1, <1>2, <1>3, PTL DEF Spec

(* Whatever waits, resumes, sweeps, retries and deaths of jobs there are:  *)
(* an action of runWorkflow is done only after all those before it.        *)
THEOREM OrderStands == Spec => []NothingSkipped
<1>1. Init => IInv
  BY InitIInv
<1>2. IInv /\ [Next]_vars => IInv'
  BY IInvKept
<1>3. IInv => NothingSkipped
  BY DEF IInv
<1>4. QED
  BY <1>1, <1>2, <1>3, PTL DEF Spec

(* Whatever is swept, resumed, retried or dies: no more runs are started   *)
(* than the limit and the jobs that count together, and no action is done  *)
(* more often than its job, the sweep, the faults and the claims of jobs    *)
(* that were over account for.                                             *)
THEOREM ActsAreBounded == Spec => []ActsWithinBounds
<1>1. Init => Bounded
  BY InitBounded
<1>2. Bounded /\ [Next]_vars => Bounded'
  <2> SUFFICES ASSUME Bounded, [Next]_vars PROVE Bounded'
    OBVIOUS
  <2>1. IInv'
    BY IInvKept DEF Bounded
  <2>2. Routes' /\ RunsBounded' /\ Budget'
    BY RoutesKept, RunsKeptBounded, BudgetKept DEF Bounded
  <2>3. QED
    BY <2>1, <2>2 DEF Bounded
<1>3. Bounded => ActsWithinBounds
  BY BoundedBounds
<1>4. QED
  BY <1>1, <1>2, <1>3, PTL DEF Spec
=============================================================================
