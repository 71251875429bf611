-------------------------------- MODULE Leads --------------------------------
(***************************************************************************)
(* One lead: who owns it, the pool it may be released to, and the timers   *)
(* that watch for a first answer (modules/leads/service.js, sla.js and     *)
(* assignment.js, packages/domain/src/sla.js).                             *)
(*                                                                         *)
(* Requests of staff are transactions.  A timer is handled by a job, or by *)
(* a job of the sweep beside it, statement by statement and in no          *)
(* transaction; a workflow may put the lead into the pool, or assign it, in*)
(* the same way.  Nothing keeps any of them apart.                         *)
(***************************************************************************)
EXTENDS Integers, Sequences, FiniteSets

CONSTANTS
  Agents,      \* memberships the lead may be assigned to
  Groups,      \* groups of agents a release may be reserved for
  None,        \* an SQL NULL
  Timeline,    \* the steps of buildSlaSchedule that are not disabled, in order
  Workers,     \* handlers of timers and workflows that may run together
  MaxRounds,   \* how often a timeline is scheduled (bound)
  MaxTurns     \* how often staff and workflows turn to the lead, or a handler
               \* throws or dies (bound)

ASSUME LeadsAssumption ==
  /\ None \notin Agents /\ Groups \subseteq SUBSET Agents
  /\ Timeline \in Seq({"acknowledge", "manager_alert", "pool_release"})
  /\ MaxRounds \in Nat \ {0} /\ MaxTurns \in Nat

Rounds == 1..MaxRounds

(* The default rule has its steps at 5, 15 and 30 minutes; the age of a    *)
(* timeline counts those that are due.                                     *)
Kinds == {Timeline[i] : i \in DOMAIN Timeline}
Due(kind, age_) == \E i \in DOMAIN Timeline : Timeline[i] = kind /\ i <= age_

VARIABLES
  lead,    \* the row of the lead
  active,  \* the agents of its active lead_assignments
  entry,   \* lead_pool_entries in the order of released_at
  timer,   \* lead_sla_events of every timeline
  age,     \* how many timers of a timeline are due
  claim,   \* the pool entry each agent's claim has read, 0 for none
  worker,  \* where each handler is
  turns,
  failed,  \* a handler has thrown or died
  (* Which statements fell between those of another, for the properties *)
  overtaken,  \* a claim fell between the statements of a release, and no
              \* entry was made since
  crossed,    \* the last acknowledgement met a handler that had read the lead
  loose       \* the owner was edited, or written in between or halfway, since
              \* it was last written undisturbed

history == <<overtaken, crossed, loose>>
vars == <<lead, active, entry, timer, age, claim, worker, turns, failed, history>>

Lead == [status : {"open", "closed"}, assigned : Agents \cup {None},
         pool : BOOLEAN, acked : BOOLEAN, sla : {"none", "pending", "met", "breached"}]
Entry == [status : {"available", "claimed"}, by : Agents \cup {None},
          for : SUBSET Agents, ends : {"never", "later", "passed"}]
TimerStatus == {"none", "scheduled", "triggered", "resolved"}

Phase == {"idle", "lead", "resolve", "trigger", "breach", "enter", "pool", "deactivate",
          "grant", "own"}
Worker == [phase : Phase, round : 0..MaxRounds, kind : Kinds \cup {"workflow"},
           agent : Agents \cup {None}]
Handler(phase, round, kind, agent) ==
  [phase |-> phase, round |-> round, kind |-> kind, agent |-> agent]
Idle == Handler("idle", 0, "workflow", None)

At(phases) == \E w \in Workers : worker[w].phase \in phases
(* Handlers that have written one of owner and assignments, not the other  *)
Halfway == {"deactivate", "grant", "own"}

NoTimers == [k \in Kinds |-> "none"]
AllTimers == [k \in Kinds |-> "scheduled"]

(* createLead; the agent is None when the lead is not to be assigned, or   *)
(* neither an agent nor a manager is found for it.                         *)
Init ==
  \E a \in Agents \cup {None} :
    /\ lead = [status |-> "open", assigned |-> a, pool |-> FALSE, acked |-> FALSE,
               sla |-> IF a = None THEN "none" ELSE "pending"]
    /\ active = {a} \ {None}
    /\ entry = <<>>
    /\ timer = [r \in Rounds |-> IF r = 1 /\ a # None THEN AllTimers ELSE NoTimers]
    /\ age = [r \in Rounds |-> 0]
    /\ claim = [b \in Agents |-> 0]
    /\ worker = [w \in Workers |-> Idle]
    /\ turns = 0 /\ failed = FALSE
    /\ overtaken = FALSE /\ crossed = FALSE /\ loose = FALSE

-----------------------------------------------------------------------------
(* Requests of staff *)

Turn == turns < MaxTurns /\ turns' = turns + 1

NextRound == Cardinality({r \in Rounds : timer[r] # NoTimers}) + 1
(* scheduleSla: a timer for every step, each with a job of its own         *)
ScheduleSla ==
  /\ NextRound \in Rounds
  /\ timer' = [timer EXCEPT ![NextRound] = AllTimers]

KeepInPool(a) == [lead EXCEPT !.assigned = a]  \* mutant
(* assignLead: the pool is left, its entries stay as they are              *)
Assigned(a) == [lead EXCEPT !.assigned = a, !.pool = FALSE]

(* assign: no timeline is started                                          *)
Assign(a) ==
  /\ Turn
  /\ lead' = Assigned(a)
  /\ active' = {a}
  /\ loose' = At(Halfway)
  /\ UNCHANGED <<entry, timer, age, claim, worker, failed, overtaken, crossed>>

(* updateLead: the owner is a field like others, but cannot be taken away; *)
(* no assignment is written, and the lead stays in the pool if it is there.*)
UpdateLead(a) ==
  /\ Turn
  /\ lead' = [lead EXCEPT !.assigned = a]
  /\ loose' = TRUE
  /\ UNCHANGED <<active, entry, timer, age, claim, worker, failed, overtaken, crossed>>

(* changeStage: closed leads may be opened again                           *)
ChangeStatus(status) ==
  /\ Turn
  /\ status # lead.status
  /\ lead' = [lead EXCEPT !.status = status]
  /\ UNCHANGED <<active, entry, timer, age, claim, worker, failed, history>>

(* Its second statement, after which nothing can throw, is taken with the  *)
(* first: a handler that starts between them finds the lead acknowledged.  *)
Acknowledge ==
  /\ Turn
  /\ lead' = [lead EXCEPT !.acked = TRUE, !.sla = "met"]
  /\ timer' = [r \in Rounds |-> [k \in Kinds |->
                 IF timer[r][k] = "scheduled" THEN "resolved" ELSE timer[r][k]]]
  /\ crossed' = At({"trigger", "breach"})
  /\ UNCHANGED <<active, entry, age, claim, worker, failed, overtaken, loose>>

Offered(group, ends) == [status |-> "available", by |-> None, for |-> group, ends |-> ends]
Available == Offered(Agents, "never")

(* An entry of staff may have an end, which may also never come.           *)
ReleaseToPool(group) ==
  /\ Turn
  /\ ~lead.pool
  /\ entry' = Append(entry, Offered(group, "later"))
  /\ active' = {}
  /\ lead' = [lead EXCEPT !.pool = TRUE, !.assigned = None]
  /\ overtaken' = FALSE /\ loose' = At(Halfway)
  /\ UNCHANGED <<timer, age, claim, worker, failed, crossed>>

Open(i) == entry[i].status = "available"
Newest(i) == Open(i) /\ \A j \in DOMAIN entry : Open(j) => j <= i

(* claimFromPool reads the newest entry.  One for other agents, or past    *)
(* its end, is refused: that changes nothing, since the refusal takes back *)
(* the status "expired" it has just written, and so the entry stays.       *)
ReadEntry(a, i) ==
  /\ Turn
  /\ claim[a] = 0 /\ i \in DOMAIN entry /\ Newest(i)
  /\ a \in entry[i].for /\ entry[i].ends # "passed"
  /\ claim' = [claim EXCEPT ![a] = i]
  /\ UNCHANGED <<lead, active, entry, timer, age, worker, failed, history>>

TakeAnyway(i) == TRUE  \* mutant
StillOpen(i) == Open(i)
Claim(a) ==
  LET i == claim[a] IN
  /\ i # 0 /\ StillOpen(i)
  /\ entry' = [entry EXCEPT ![i].status = "claimed", ![i].by = a]
  /\ lead' = [Assigned(a) EXCEPT !.sla = "pending"]
  /\ active' = {a}
  /\ ScheduleSla
  /\ claim' = [claim EXCEPT ![a] = 0]
  /\ overtaken' = At({"pool"}) /\ loose' = At(Halfway)
  /\ UNCHANGED <<age, worker, turns, failed, crossed>>

(* "Another agent claimed this lead first"                                 *)
LoseClaim(a) ==
  /\ claim[a] # 0 /\ ~StillOpen(claim[a])
  /\ claim' = [claim EXCEPT ![a] = 0]
  /\ UNCHANGED <<lead, active, entry, timer, age, worker, turns, failed, history>>

-----------------------------------------------------------------------------
(* Handlers: processSlaEvent, add_to_lead_pool and assign_lead of workflows *)

Goto(w, phase) == worker' = [worker EXCEPT ![w].phase = phase]
Finish(w) == worker' = [worker EXCEPT ![w] = Idle]

StartTimer(w, r, k) ==
  /\ worker[w].phase = "idle"
  /\ timer[r][k] = "scheduled" /\ Due(k, age[r])
  /\ worker' = [worker EXCEPT ![w] = Handler("lead", r, k, None)]
  /\ UNCHANGED <<lead, active, entry, timer, age, claim, turns, failed, history>>

BreachedIfOpen == lead.status = "open"  \* mutant
(* resolveSlaBreach                                                        *)
Breached == ~lead.acked /\ lead.status = "open"

ReadLead(w) ==
  /\ worker[w].phase = "lead"
  /\ Goto(w, IF Breached THEN "trigger" ELSE "resolve")
  /\ UNCHANGED <<lead, active, entry, timer, age, claim, turns, failed, history>>

Mark(w, status) == timer' = [timer EXCEPT ![worker[w].round][worker[w].kind] = status]

CloseTimer(w) ==
  /\ worker[w].phase = "resolve"
  /\ Mark(w, "resolved")
  /\ Finish(w)
  /\ UNCHANGED <<lead, active, entry, age, claim, turns, failed, history>>

Trigger(w) ==
  /\ worker[w].phase = "trigger"
  /\ Mark(w, "triggered")
  /\ Goto(w, "breach")
  /\ UNCHANGED <<lead, active, entry, age, claim, turns, failed, history>>

OnlyAlerts(kind) == FALSE  \* mutant
Releases(kind) == kind = "pool_release"
Breach(w) ==
  /\ worker[w].phase = "breach"
  /\ lead' = [lead EXCEPT !.sla = "breached"]
  /\ IF Releases(worker[w].kind) THEN Goto(w, "enter") ELSE Finish(w)
  /\ UNCHANGED <<active, entry, timer, age, claim, turns, failed, history>>

AddToPool(w) ==
  /\ Turn
  /\ worker[w].phase = "idle"
  /\ worker' = [worker EXCEPT ![w] = Handler("enter", 0, "workflow", None)]
  /\ UNCHANGED <<lead, active, entry, timer, age, claim, failed, history>>

EnterPool(w) ==
  /\ worker[w].phase = "enter"
  /\ entry' = Append(entry, Available)
  /\ Goto(w, "pool")
  /\ overtaken' = FALSE
  /\ UNCHANGED <<lead, active, timer, age, claim, turns, failed, crossed, loose>>

DeactivateAlways(w) == Goto(w, "deactivate")  \* mutant
LeavePool(w) ==
  IF worker[w].kind = "workflow" THEN Finish(w) ELSE Goto(w, "deactivate")
TakeFromOwner(w) ==
  /\ worker[w].phase = "pool"
  /\ lead' = [lead EXCEPT !.pool = TRUE, !.assigned = None]
  /\ LeavePool(w)
  /\ loose' = (loose \/ At(Halfway))
  /\ UNCHANGED <<active, entry, timer, age, claim, turns, failed, overtaken, crossed>>

Deactivate(w) ==
  /\ worker[w].phase = "deactivate"
  /\ active' = {}
  /\ Finish(w)
  /\ UNCHANGED <<lead, entry, timer, age, claim, turns, failed, history>>

(* assign_lead: assignLead in no transaction.  The assignments are ended,  *)
(* then there is a new one, then the lead is written.                      *)
AssignByWorkflow(w, a) ==
  /\ Turn
  /\ worker[w].phase = "idle"
  /\ active' = {}
  /\ worker' = [worker EXCEPT ![w] = Handler("grant", 0, "workflow", a)]
  /\ loose' = At(Halfway)
  /\ UNCHANGED <<lead, entry, timer, age, claim, failed, overtaken, crossed>>

Grant(w) ==
  /\ worker[w].phase = "grant"
  /\ active' = active \cup {worker[w].agent}
  /\ Goto(w, "own")
  /\ UNCHANGED <<lead, entry, timer, age, claim, turns, failed, history>>

Own(w) ==
  /\ worker[w].phase = "own"
  /\ lead' = Assigned(worker[w].agent)
  /\ Finish(w)
  /\ UNCHANGED <<active, entry, timer, age, claim, turns, failed, history>>

(* A statement throws, or the function dies.  The job may be run again,    *)
(* which StartTimer allows as long as the timer is still scheduled.        *)
Die(w) ==
  /\ Turn
  /\ worker[w].phase # "idle"
  /\ failed' = TRUE
  /\ Finish(w)
  /\ loose' = (loose \/ worker[w].phase \in {"grant", "own"})
  /\ UNCHANGED <<lead, active, entry, timer, age, claim, overtaken, crossed>>

-----------------------------------------------------------------------------
(* Time: a timeline begun earlier is never behind a later one *)

Pass(r) ==
  /\ timer[r] # NoTimers /\ age[r] < Len(Timeline)
  /\ r > 1 => age[r - 1] > age[r]
  /\ age' = [age EXCEPT ![r] = @ + 1]
  /\ UNCHANGED <<lead, active, entry, timer, claim, worker, turns, failed, history>>

Expire(i) ==
  /\ Open(i) /\ entry[i].ends = "later"
  /\ entry' = [entry EXCEPT ![i].ends = "passed"]
  /\ UNCHANGED <<lead, active, timer, age, claim, worker, turns, failed, history>>

Work(w) ==
  \/ ReadLead(w) \/ CloseTimer(w) \/ Trigger(w) \/ Breach(w)
  \/ EnterPool(w) \/ TakeFromOwner(w) \/ Deactivate(w)
  \/ Grant(w) \/ Own(w)

Request ==
  \/ \E a \in Agents : Assign(a) \/ UpdateLead(a) \/ Claim(a) \/ LoseClaim(a)
  \/ \E a \in Agents, i \in DOMAIN entry : ReadEntry(a, i)
  \/ \E group \in Groups : ReleaseToPool(group)
  \/ \E status \in {"open", "closed"} : ChangeStatus(status)
  \/ Acknowledge

Next ==
  \/ Request
  \/ \E w \in Workers : Work(w) \/ AddToPool(w) \/ Die(w)
  \/ \E w \in Workers, a \in Agents : AssignByWorkflow(w, a)
  \/ \E w \in Workers, r \in Rounds, k \in Kinds : StartTimer(w, r, k)
  \/ \E r \in Rounds : Pass(r)
  \/ \E i \in DOMAIN entry : Expire(i)

Spec == Init /\ [][Next]_vars

(* The clock runs, the sweep starts whatever is due, and a handler that is *)
(* started goes on.                                                        *)
Fairness ==
  /\ \A r \in Rounds : WF_vars(Pass(r))
  /\ \A r \in Rounds, k \in Kinds : WF_vars(\E w \in Workers : StartTimer(w, r, k))
  /\ \A w \in Workers : WF_vars(Work(w))

FairSpec == Spec /\ Fairness

-----------------------------------------------------------------------------
(* Properties *)

(* Types of the rows and of the handlers.                                  *)
TypeOK ==
  /\ lead \in Lead
  /\ active \in SUBSET Agents
  /\ entry \in Seq(Entry)
  /\ timer \in [Rounds -> [Kinds -> TimerStatus]]
  /\ age \in [Rounds -> 0..Len(Timeline)]
  /\ claim \in [Agents -> Nat] /\ \A a \in Agents : claim[a] \in 0..Len(entry)
  /\ worker \in [Workers -> Worker]
  /\ turns \in 0..MaxTurns /\ failed \in BOOLEAN
  /\ \A w \in Workers :
       /\ worker[w].phase # "idle" => (worker[w].kind = "workflow" <=> worker[w].round = 0)
       /\ worker[w].phase \in Phase \ {"idle", "enter", "pool", "grant", "own"} =>
            worker[w].round \in Rounds
       /\ worker[w].phase \in {"grant", "own"} => worker[w].agent \in Agents
  /\ overtaken \in BOOLEAN /\ crossed \in BOOLEAN /\ loose \in BOOLEAN

(* service.js:462, "exactly one agent can flip the entry from available to *)
(* claimed": nobody ever takes a claimed entry over, whatever else claims, *)
(* releases or times out meanwhile.                                        *)
ClaimedOnce ==
  [][\A i \in DOMAIN entry : entry[i].status = "claimed" =>
       entry'[i].status = "claimed" /\ entry'[i].by = entry[i].by]_vars

(* A lead in the pool has an entry there that nobody has claimed, also     *)
(* after a second handler of the same timer, a handler that died halfway or*)
(* an edit, unless the last entry made was claimed between the statements  *)
(* of a release.  Whether the entry can still be claimed is another matter:*)
(* it may have passed its end.                                             *)
PoolOpen == lead.pool /\ ~overtaken => \E i \in DOMAIN entry : Open(i)

(* When no handler is halfway: the agent on the lead is the one with the   *)
(* active assignment, and a lead in the pool is nobody's.  Only an edit of *)
(* the owner, a handler that died halfway, and a write between the         *)
(* statements of another one, bring them apart, and the next assignment,   *)
(* release or claim that is not disturbed brings them together again.      *)
OneOwner ==
  ~loose /\ ~At(Halfway) =>
    /\ lead.pool => lead.assigned = None
    /\ lead.assigned # None => active = {lead.assigned}

(* A lead that was acknowledged is not marked breached afterwards, neither *)
(* by the timers of an earlier or later owner nor by one that runs twice;  *)
(* only by a handler that had read it before the last acknowledgement.     *)
AckStands == lead.acked /\ ~crossed => lead.sla # "breached"

Unanswered == ~lead.acked /\ lead.status = "open"
Watched(r) ==
  /\ "pool_release" \in Kinds /\ timer[r]["pool_release"] = "scheduled"
  /\ Unanswered /\ ~failed
  /\ \A w \in Workers : worker[w].phase = "resolve" => worker[w].round # r
(* user-flows.md:41, "pool release at 30": an open lead with a timeline is *)
(* acknowledged, or closed, or it gets into the pool, if no handler fails. *)
(* A lead opened again while a handler that had read it closed is about to *)
(* close the timer is no longer watched.                                   *)
AnsweredOrPooled ==
  \A r \in Rounds : Watched(r) ~> (lead.pool \/ ~Unanswered \/ failed)

=============================================================================
