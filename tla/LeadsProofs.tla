----------------------------- MODULE LeadsProofs -----------------------------
(* Proofs about Leads, for any agents, handlers, timeline and bounds.      *)
EXTENDS Leads, SequenceTheorems, TLAPS

LEMMA WorkflowIsNoKind == "workflow" \notin Kinds
BY LeadsAssumption DEF Kinds

LEMMA IdleWorker == Idle \in Worker /\ Idle.phase = "idle"
BY LeadsAssumption DEF Idle, Handler, Worker, Phase

LEMMA TimerTypes ==
  /\ NoTimers \in [Kinds -> TimerStatus]
  /\ AllTimers \in [Kinds -> TimerStatus]
BY DEF NoTimers, AllTimers, TimerStatus

LEMMA Offers ==
  /\ \A group \in Groups : Offered(group, "later") \in Entry
  /\ Available \in Entry
  /\ Available.status = "available"
  /\ \A group \in Groups : Offered(group, "later").status = "available"
BY LeadsAssumption DEF Offered, Available, Entry

LEMMA AppendOffer ==
  ASSUME entry \in Seq(Entry), NEW offer \in Entry, offer.status = "available"
  PROVE  /\ Append(entry, offer) \in Seq(Entry)
         /\ Len(Append(entry, offer)) = Len(entry) + 1
         /\ \A i \in DOMAIN entry : Append(entry, offer)[i] = entry[i]
         /\ Append(entry, offer)[Len(entry) + 1].status = "available"
         /\ Len(entry) + 1 \in DOMAIN Append(entry, offer)
OBVIOUS

-----------------------------------------------------------------------------
(* Types *)

(* What TypeOK says of the fields of a handler together                    *)
Fits(x) ==
  /\ x.phase # "idle" => (x.kind = "workflow" <=> x.round = 0)
  /\ x.phase \in Phase \ {"idle", "enter", "pool", "grant", "own"} => x.round \in Rounds
  /\ x.phase \in {"grant", "own"} => x.agent \in Agents

LEMMA InitTypes == Init => TypeOK
<1> SUFFICES ASSUME Init PROVE TypeOK
  OBVIOUS
<1>1. PICK a \in Agents \cup {None} :
        /\ lead = [status |-> "open", assigned |-> a, pool |-> FALSE, acked |-> FALSE,
                   sla |-> IF a = None THEN "none" ELSE "pending"]
        /\ active = {a} \ {None}
        /\ timer = [r \in Rounds |-> IF r = 1 /\ a # None THEN AllTimers ELSE NoTimers]
  BY DEF Init
<1>2. entry = <<>> /\ age = [r \in Rounds |-> 0] /\ claim = [b \in Agents |-> 0]
      /\ worker = [w \in Workers |-> Idle] /\ turns = 0 /\ failed = FALSE
      /\ overtaken = FALSE /\ crossed = FALSE /\ loose = FALSE
  BY DEF Init
<1>3. lead \in Lead /\ active \in SUBSET Agents
  BY <1>1 DEF Lead
<1>4. timer \in [Rounds -> [Kinds -> TimerStatus]]
  BY <1>1, TimerTypes
<1>5. entry \in Seq(Entry) /\ Len(entry) = 0
  BY <1>2
<1>6. age \in [Rounds -> 0..Len(Timeline)] /\ turns \in 0..MaxTurns
  BY <1>2, LeadsAssumption
<1>7. claim \in [Agents -> Nat] /\ \A b \in Agents : claim[b] \in 0..Len(entry)
  BY <1>2, <1>5
<1>8. worker \in [Workers -> Worker] /\ \A w \in Workers : Fits(worker[w])
  BY <1>2, IdleWorker DEF Fits
<1>9. QED
  BY <1>2, <1>3, <1>4, <1>5, <1>6, <1>7, <1>8 DEF TypeOK, Fits

(* Whoever takes a turn leaves their number within the bound               *)
LEMMA TurnTypes == ASSUME TypeOK, Turn PROVE turns' \in 0..MaxTurns
BY LeadsAssumption DEF Turn, TypeOK

LEMMA LeadTypes ==
  ASSUME TypeOK
  PROVE  /\ \A status \in {"open", "closed"} : ChangeStatus(status) => TypeOK'
         /\ Acknowledge => TypeOK'
         /\ \A group \in Groups : ReleaseToPool(group) => TypeOK'
<1>1. ASSUME NEW status \in {"open", "closed"}, ChangeStatus(status) PROVE TypeOK'
  <2>1. lead' \in Lead
    BY <1>1 DEF ChangeStatus, TypeOK, Lead
  <2>2. turns' \in 0..MaxTurns
    BY <1>1, TurnTypes DEF ChangeStatus
  <2>3. QED
    BY <1>1, <2>1, <2>2 DEF ChangeStatus, TypeOK, history
<1>2. ASSUME Acknowledge PROVE TypeOK'
  <2>1. lead' \in Lead /\ turns' \in 0..MaxTurns /\ crossed' \in BOOLEAN
    BY <1>2, TurnTypes DEF Acknowledge, TypeOK, Lead, At
  <2>2. timer' \in [Rounds -> [Kinds -> TimerStatus]]
    BY <1>2 DEF Acknowledge, TypeOK, TimerStatus
  <2>3. QED
    BY <1>2, <2>1, <2>2 DEF Acknowledge, TypeOK
<1>3. ASSUME NEW group \in Groups, ReleaseToPool(group) PROVE TypeOK'
  <2>1. lead' \in Lead /\ active' \in SUBSET Agents /\ turns' \in 0..MaxTurns
        /\ overtaken' \in BOOLEAN /\ loose' \in BOOLEAN
    BY <1>3, TurnTypes DEF ReleaseToPool, TypeOK, Lead, At
  <2>2. entry' \in Seq(Entry) /\ Len(entry') = Len(entry) + 1
    BY <1>3, Offers, AppendOffer DEF ReleaseToPool, TypeOK
  <2>3. \A b \in Agents : claim'[b] \in 0..Len(entry')
    BY <1>3, <2>2 DEF ReleaseToPool, TypeOK
  <2>4. QED
    BY <1>3, <2>1, <2>2, <2>3 DEF ReleaseToPool, TypeOK
<1>4. QED
  BY <1>1, <1>2, <1>3

LEMMA AgentTypes ==
  ASSUME TypeOK, NEW a \in Agents
  PROVE  /\ Assign(a) => TypeOK'
         /\ UpdateLead(a) => TypeOK'
         /\ Claim(a) => TypeOK'
         /\ LoseClaim(a) => TypeOK'
         /\ \A i \in DOMAIN entry : ReadEntry(a, i) => TypeOK'
<1>1. ASSUME Assign(a) PROVE TypeOK'
  <2>1. lead' \in Lead /\ active' \in SUBSET Agents /\ turns' \in 0..MaxTurns
        /\ loose' \in BOOLEAN
    BY <1>1, TurnTypes DEF Assign, Assigned, TypeOK, Lead, At
  <2>2. QED
    BY <1>1, <2>1 DEF Assign, TypeOK
<1>2. ASSUME UpdateLead(a) PROVE TypeOK'
  <2>1. lead' \in Lead /\ turns' \in 0..MaxTurns
    BY <1>2, TurnTypes DEF UpdateLead, TypeOK, Lead
  <2>2. QED
    BY <1>2, <2>1 DEF UpdateLead, TypeOK
<1>3. ASSUME Claim(a) PROVE TypeOK'
  <2> DEFINE i == claim[a]
  <2> DEFINE e == [entry[i] EXCEPT !.status = "claimed", !.by = a]
  <2>1. i \in 1..Len(entry) /\ entry[i] \in Entry
    BY <1>3 DEF Claim, TypeOK
  <2>2. e \in Entry
    BY <2>1 DEF Entry
  <2>3. entry' = [entry EXCEPT ![i] = e]
    BY <1>3 DEF Claim
  <2>4. entry' \in Seq(Entry) /\ Len(entry') = Len(entry)
    BY <2>1, <2>2, <2>3, ExceptSeq DEF TypeOK
  <2>5. lead' \in Lead /\ active' \in SUBSET Agents
    BY <1>3 DEF Claim, Assigned, TypeOK, Lead
  <2>6. timer' \in [Rounds -> [Kinds -> TimerStatus]]
    BY <1>3, TimerTypes DEF Claim, ScheduleSla, TypeOK
  <2>7. claim' \in [Agents -> Nat] /\ \A b \in Agents : claim'[b] \in 0..Len(entry')
    BY <1>3, <2>4 DEF Claim, TypeOK
  <2>8. overtaken' \in BOOLEAN /\ loose' \in BOOLEAN
    BY <1>3 DEF Claim, At
  <2>9. QED
    BY <1>3, <2>4, <2>5, <2>6, <2>7, <2>8 DEF Claim, TypeOK
<1>4. ASSUME LoseClaim(a) PROVE TypeOK'
  BY <1>4 DEF LoseClaim, TypeOK, history
<1>5. ASSUME NEW i \in DOMAIN entry, ReadEntry(a, i) PROVE TypeOK'
  BY <1>5, TurnTypes DEF ReadEntry, TypeOK, history
<1>6. QED
  BY <1>1, <1>2, <1>3, <1>4, <1>5

(* What moving a handler leaves well typed                                 *)
LEMMA Moved ==
  ASSUME TypeOK, NEW w \in Workers, NEW x \in Worker, Fits(x),
         worker' = [worker EXCEPT ![w] = x]
  PROVE  worker' \in [Workers -> Worker] /\ \A v \in Workers : Fits(worker'[v])
BY DEF TypeOK, Fits

LEMMA Finished ==
  ASSUME TypeOK, NEW w \in Workers, Finish(w)
  PROVE  worker' \in [Workers -> Worker] /\ \A v \in Workers : Fits(worker'[v])
BY IdleWorker, Moved DEF Finish, Fits

LEMMA Gone ==
  ASSUME TypeOK, NEW w \in Workers, NEW phase \in Phase \ {"idle"}, Goto(w, phase),
         worker[w].phase # "idle",
         phase \in Phase \ {"idle", "enter", "pool", "grant", "own"} =>
           worker[w].round \in Rounds,
         phase \in {"grant", "own"} => worker[w].agent \in Agents
  PROVE  worker' \in [Workers -> Worker] /\ \A v \in Workers : Fits(worker'[v])
<1> DEFINE x == [worker[w] EXCEPT !.phase = phase]
<1>1. worker[w] \in Worker /\ worker' = [worker EXCEPT ![w] = x]
  BY DEF Goto, TypeOK
<1>2. /\ x \in Worker /\ x.phase = phase
      /\ x.kind = worker[w].kind /\ x.round = worker[w].round /\ x.agent = worker[w].agent
  BY <1>1 DEF Worker
<1>3. worker[w].kind = "workflow" <=> worker[w].round = 0
  BY DEF TypeOK
<1>4. Fits(x)
  BY <1>2, <1>3 DEF Fits
<1>5. QED
  BY <1>1, <1>2, <1>4, Moved

LEMMA TimerWorkTypes ==
  ASSUME TypeOK, NEW w \in Workers
  PROVE  /\ ReadLead(w) => TypeOK'
         /\ CloseTimer(w) => TypeOK'
         /\ Trigger(w) => TypeOK'
         /\ Breach(w) => TypeOK'
         /\ Deactivate(w) => TypeOK'
<1>1. ASSUME ReadLead(w) PROVE TypeOK'
  <2>1. worker[w].phase = "lead" /\ worker[w].round \in Rounds
    BY <1>1 DEF ReadLead, TypeOK, Phase
  <2>2. PICK phase \in {"trigger", "resolve"} : Goto(w, phase)
    BY <1>1 DEF ReadLead
  <2>3. QED
    BY <1>1, <2>1, <2>2, Gone DEF ReadLead, TypeOK, Phase, Fits, history
<1>2. ASSUME NEW status \in TimerStatus, Mark(w, status), worker[w].round \in Rounds
      PROVE  timer' \in [Rounds -> [Kinds -> TimerStatus]]
  BY <1>2 DEF Mark, TypeOK
<1>3. ASSUME CloseTimer(w) PROVE TypeOK'
  <2>1. worker[w].round \in Rounds
    BY <1>3 DEF CloseTimer, TypeOK, Phase
  <2>2. timer' \in [Rounds -> [Kinds -> TimerStatus]]
    BY <1>2, <1>3, <2>1 DEF CloseTimer, TimerStatus
  <2>3. QED
    BY <1>3, <2>2, Finished DEF CloseTimer, TypeOK, Fits, history
<1>4. ASSUME Trigger(w) PROVE TypeOK'
  <2>1. worker[w].round \in Rounds /\ worker[w].phase = "trigger"
    BY <1>4 DEF Trigger, TypeOK, Phase
  <2>2. timer' \in [Rounds -> [Kinds -> TimerStatus]]
    BY <1>2, <1>4, <2>1 DEF Trigger, TimerStatus
  <2>3. worker' \in [Workers -> Worker] /\ \A v \in Workers : Fits(worker'[v])
    BY <1>4, <2>1, Gone DEF Trigger, Phase
  <2>4. QED
    BY <1>4, <2>2, <2>3 DEF Trigger, TypeOK, Fits, history
<1>5. ASSUME Breach(w) PROVE TypeOK'
  <2>1. worker[w].phase = "breach" /\ lead' \in Lead
    BY <1>5 DEF Breach, TypeOK, Lead
  <2>2. Finish(w) \/ Goto(w, "enter")
    BY <1>5 DEF Breach
  <2>3. worker' \in [Workers -> Worker] /\ \A v \in Workers : Fits(worker'[v])
    BY <2>1, <2>2, Finished, Gone DEF Phase
  <2>4. QED
    BY <1>5, <2>1, <2>3 DEF Breach, TypeOK, Fits, history
<1>6. ASSUME Deactivate(w) PROVE TypeOK'
  BY <1>6, Finished DEF Deactivate, TypeOK, Fits, history
<1>7. QED
  BY <1>1, <1>3, <1>4, <1>5, <1>6

LEMMA OwnerWorkTypes ==
  ASSUME TypeOK, NEW w \in Workers
  PROVE  /\ EnterPool(w) => TypeOK'
         /\ TakeFromOwner(w) => TypeOK'
         /\ Grant(w) => TypeOK'
         /\ Own(w) => TypeOK'
<1>1. ASSUME EnterPool(w) PROVE TypeOK'
  <2>1. worker[w].phase = "enter"
    BY <1>1 DEF EnterPool
  <2>2. entry' \in Seq(Entry) /\ Len(entry') = Len(entry) + 1
    BY <1>1, Offers, AppendOffer DEF EnterPool, TypeOK
  <2>3. \A b \in Agents : claim'[b] \in 0..Len(entry')
    BY <1>1, <2>2 DEF EnterPool, TypeOK
  <2>4. worker' \in [Workers -> Worker] /\ \A v \in Workers : Fits(worker'[v])
    BY <1>1, <2>1, Gone DEF EnterPool, Phase
  <2>5. QED
    BY <1>1, <2>2, <2>3, <2>4 DEF EnterPool, TypeOK, Fits
<1>2. ASSUME TakeFromOwner(w) PROVE TypeOK'
  <2>1. worker[w].phase = "pool" /\ lead' \in Lead /\ loose' \in BOOLEAN
    BY <1>2 DEF TakeFromOwner, TypeOK, Lead, At
  <2>2. Finish(w) \/ (Goto(w, "deactivate") /\ worker[w].kind # "workflow")
    BY <1>2 DEF TakeFromOwner, LeavePool
  <2>3. worker[w].kind # "workflow" => worker[w].round \in Rounds
    BY <2>1 DEF TypeOK, Worker, Rounds
  <2>4. worker' \in [Workers -> Worker] /\ \A v \in Workers : Fits(worker'[v])
    BY <2>1, <2>2, <2>3, Finished, Gone DEF Phase
  <2>5. QED
    BY <1>2, <2>1, <2>4 DEF TakeFromOwner, TypeOK, Fits
<1>3. ASSUME Grant(w) PROVE TypeOK'
  <2>1. worker[w].phase = "grant" /\ worker[w].agent \in Agents
    BY <1>3 DEF Grant, TypeOK
  <2>2. worker' \in [Workers -> Worker] /\ \A v \in Workers : Fits(worker'[v])
    BY <1>3, <2>1, Gone DEF Grant, Phase
  <2>3. active' \in SUBSET Agents
    BY <1>3, <2>1 DEF Grant, TypeOK
  <2>4. QED
    BY <1>3, <2>2, <2>3 DEF Grant, TypeOK, Fits, history
<1>4. ASSUME Own(w) PROVE TypeOK'
  <2>1. worker[w].agent \in Agents
    BY <1>4 DEF Own, TypeOK
  <2>2. lead' \in Lead
    BY <1>4, <2>1 DEF Own, Assigned, TypeOK, Lead
  <2>3. QED
    BY <1>4, <2>2, Finished DEF Own, TypeOK, Fits, history
<1>5. QED
  BY <1>1, <1>2, <1>3, <1>4

LEMMA StartTypes ==
  ASSUME TypeOK, NEW w \in Workers
  PROVE  /\ AddToPool(w) => TypeOK'
         /\ Die(w) => TypeOK'
         /\ \A a \in Agents : AssignByWorkflow(w, a) => TypeOK'
         /\ \A r \in Rounds, k \in Kinds : StartTimer(w, r, k) => TypeOK'
<1>1. ASSUME AddToPool(w) PROVE TypeOK'
  <2> DEFINE x == Handler("enter", 0, "workflow", None)
  <2>1. x \in Worker /\ Fits(x)
    BY LeadsAssumption DEF Handler, Worker, Phase, Fits
  <2>2. QED
    BY <1>1, <2>1, Moved, TurnTypes DEF AddToPool, TypeOK, Fits, history
<1>2. ASSUME Die(w) PROVE TypeOK'
  <2>1. loose' \in BOOLEAN
    BY <1>2 DEF Die, TypeOK
  <2>2. QED
    BY <1>2, <2>1, Finished, TurnTypes DEF Die, TypeOK, Fits
<1>3. ASSUME NEW a \in Agents, AssignByWorkflow(w, a) PROVE TypeOK'
  <2> DEFINE x == Handler("grant", 0, "workflow", a)
  <2>1. x \in Worker /\ Fits(x)
    BY LeadsAssumption DEF Handler, Worker, Phase, Fits
  <2>2. loose' \in BOOLEAN /\ active' \in SUBSET Agents
    BY <1>3 DEF AssignByWorkflow, At
  <2>3. QED
    BY <1>3, <2>1, <2>2, Moved, TurnTypes DEF AssignByWorkflow, TypeOK, Fits
<1>4. ASSUME NEW r \in Rounds, NEW k \in Kinds, StartTimer(w, r, k) PROVE TypeOK'
  <2> DEFINE x == Handler("lead", r, k, None)
  <2>1. x \in Worker /\ Fits(x)
    BY WorkflowIsNoKind, LeadsAssumption DEF Handler, Worker, Phase, Fits, Rounds
  <2>2. QED
    BY <1>4, <2>1, Moved DEF StartTimer, TypeOK, Fits, history
<1>5. QED
  BY <1>1, <1>2, <1>3, <1>4

LEMMA TimeTypes ==
  ASSUME TypeOK
  PROVE  /\ \A r \in Rounds : Pass(r) => TypeOK'
         /\ \A i \in DOMAIN entry : Expire(i) => TypeOK'
<1>1. ASSUME NEW r \in Rounds, Pass(r) PROVE TypeOK'
  BY <1>1, LeadsAssumption DEF Pass, TypeOK, history
<1>2. ASSUME NEW i \in DOMAIN entry, Expire(i) PROVE TypeOK'
  <2> DEFINE e == [entry[i] EXCEPT !.ends = "passed"]
  <2>1. i \in 1..Len(entry) /\ entry[i] \in Entry
    BY DEF TypeOK
  <2>2. e \in Entry /\ entry' = [entry EXCEPT ![i] = e]
    BY <1>2, <2>1 DEF Entry, Expire
  <2>3. entry' \in Seq(Entry) /\ Len(entry') = Len(entry)
    BY <2>1, <2>2, ExceptSeq DEF TypeOK
  <2>4. QED
    BY <1>2, <2>3 DEF Expire, TypeOK, history
<1>3. QED
  BY <1>1, <1>2

LEMMA NextTypes == TypeOK /\ [Next]_vars => TypeOK'
<1> SUFFICES ASSUME TypeOK, [Next]_vars PROVE TypeOK'
  OBVIOUS
<1>1. ASSUME Request PROVE TypeOK'
  BY <1>1, AgentTypes, LeadTypes DEF Request
<1>2. ASSUME NEW w \in Workers, Work(w) PROVE TypeOK'
  BY <1>2, TimerWorkTypes, OwnerWorkTypes DEF Work
<1>3. CASE UNCHANGED vars
  BY <1>3 DEF vars, history, TypeOK
<1>4. QED
  BY <1>1, <1>2, <1>3, StartTypes, TimeTypes DEF Next

(* Every row and every handler keeps its type.                             *)
THEOREM TypeCorrect == Spec => []TypeOK
BY InitTypes, NextTypes, PTL DEF Spec

-----------------------------------------------------------------------------
(* Claims: only an open entry is ever written *)

LEMMA EntriesKept ==
  ASSUME TypeOK, [Next]_vars, NEW i \in DOMAIN entry, entry[i].status = "claimed"
  PROVE  entry'[i].status = "claimed" /\ entry'[i].by = entry[i].by
<1>1. CASE entry' = entry
  BY <1>1
<1>2. ASSUME NEW offer \in Entry, entry' = Append(entry, offer), offer.status = "available"
      PROVE  entry'[i] = entry[i]
  BY <1>2, AppendOffer DEF TypeOK
<1>3. ASSUME NEW a \in Agents, Claim(a) PROVE entry'[i] = entry[i]
  BY <1>3 DEF Claim, StillOpen, Open, TypeOK
<1>4. ASSUME NEW j \in DOMAIN entry, Expire(j)
      PROVE  entry'[i].status = "claimed" /\ entry'[i].by = entry[i].by
  BY <1>4 DEF Expire, Open, TypeOK
<1>5. ASSUME NEW group \in Groups, ReleaseToPool(group) PROVE entry'[i] = entry[i]
  BY <1>2, <1>5, Offers DEF ReleaseToPool
<1>6. ASSUME NEW w \in Workers, EnterPool(w) PROVE entry'[i] = entry[i]
  BY <1>2, <1>6, Offers DEF EnterPool
<1>7. QED
  BY <1>1, <1>3, <1>4, <1>5, <1>6 DEF Next, Request, Work, vars, Assign, UpdateLead,
     ChangeStatus, Acknowledge, LoseClaim, ReadEntry, StartTimer, ReadLead, CloseTimer,
     Trigger, Breach, AddToPool, TakeFromOwner, Deactivate, AssignByWorkflow, Grant, Own,
     Die, Pass

(* An entry that was claimed stays with the agent who claimed it, however  *)
(* claims, releases and timers overlap.                                    *)
THEOREM ClaimsStand == Spec => ClaimedOnce
<1>1. TypeOK /\ [Next]_vars
        => [\A i \in DOMAIN entry : entry[i].status = "claimed" =>
              entry'[i].status = "claimed" /\ entry'[i].by = entry[i].by]_vars
  BY EntriesKept
<1>2. QED
  BY <1>1, TypeCorrect, PTL DEF Spec, ClaimedOnce

-----------------------------------------------------------------------------
(* What a handler does to its own place, for each of the steps below       *)

LEMMA Places ==
  ASSUME TypeOK, NEW w \in Workers
  PROVE  /\ \A phase \in Phase : Goto(w, phase) =>
              /\ \A v \in Workers \ {w} : worker'[v] = worker[v]
              /\ worker'[w].phase = phase /\ worker'[w].agent = worker[w].agent
         /\ Finish(w) =>
              /\ \A v \in Workers \ {w} : worker'[v] = worker[v]
              /\ worker'[w].phase = "idle"
BY IdleWorker DEF Goto, Finish, TypeOK, Worker

(* The places a step of the next-state relation moves a handler to         *)
LEMMA Moves ==
  ASSUME TypeOK, NEW w \in Workers
  PROVE  /\ ReadLead(w) =>
              /\ \A v \in Workers \ {w} : worker'[v] = worker[v]
              /\ worker[w].phase = "lead" /\ worker'[w].phase \in {"trigger", "resolve"}
              /\ worker'[w].phase = "trigger" => ~lead.acked
         /\ Trigger(w) =>
              /\ \A v \in Workers \ {w} : worker'[v] = worker[v]
              /\ worker[w].phase = "trigger" /\ worker'[w].phase = "breach"
         /\ Breach(w) =>
              /\ \A v \in Workers \ {w} : worker'[v] = worker[v]
              /\ worker[w].phase = "breach" /\ worker'[w].phase \in {"enter", "idle"}
         /\ EnterPool(w) =>
              /\ \A v \in Workers \ {w} : worker'[v] = worker[v]
              /\ worker[w].phase = "enter" /\ worker'[w].phase = "pool"
         /\ TakeFromOwner(w) =>
              /\ \A v \in Workers \ {w} : worker'[v] = worker[v]
              /\ worker[w].phase = "pool" /\ worker'[w].phase \in {"idle", "deactivate"}
         /\ Grant(w) =>
              /\ \A v \in Workers \ {w} : worker'[v] = worker[v]
              /\ worker[w].phase = "grant" /\ worker'[w].phase = "own"
              /\ worker'[w].agent = worker[w].agent
         /\ CloseTimer(w) \/ Deactivate(w) \/ Own(w) \/ Die(w) =>
              /\ \A v \in Workers \ {w} : worker'[v] = worker[v]
              /\ worker'[w].phase = "idle"
         /\ AddToPool(w) =>
              /\ \A v \in Workers \ {w} : worker'[v] = worker[v]
              /\ worker[w].phase = "idle" /\ worker'[w].phase = "enter"
         /\ \A a \in Agents : AssignByWorkflow(w, a) =>
              /\ \A v \in Workers \ {w} : worker'[v] = worker[v]
              /\ worker[w].phase = "idle" /\ worker'[w].phase = "grant"
         /\ \A r \in Rounds, k \in Kinds : StartTimer(w, r, k) =>
              /\ \A v \in Workers \ {w} : worker'[v] = worker[v]
              /\ worker[w].phase = "idle" /\ worker'[w].phase = "lead"
<1>1. ASSUME NEW x, worker' = [worker EXCEPT ![w] = x]
      PROVE  worker'[w] = x /\ \A v \in Workers \ {w} : worker'[v] = worker[v]
  BY <1>1 DEF TypeOK
<1>2. ASSUME AddToPool(w)
      PROVE  worker[w].phase = "idle" /\ worker'[w].phase = "enter"
             /\ \A v \in Workers \ {w} : worker'[v] = worker[v]
  BY <1>1, <1>2 DEF AddToPool, Handler
<1>3. ASSUME NEW a \in Agents, AssignByWorkflow(w, a)
      PROVE  worker[w].phase = "idle" /\ worker'[w].phase = "grant"
             /\ \A v \in Workers \ {w} : worker'[v] = worker[v]
  BY <1>1, <1>3 DEF AssignByWorkflow, Handler
<1>4. ASSUME NEW r \in Rounds, NEW k \in Kinds, StartTimer(w, r, k)
      PROVE  worker[w].phase = "idle" /\ worker'[w].phase = "lead"
             /\ \A v \in Workers \ {w} : worker'[v] = worker[v]
  BY <1>1, <1>4 DEF StartTimer, Handler
<1>5. ASSUME ReadLead(w)
      PROVE  /\ \A v \in Workers \ {w} : worker'[v] = worker[v]
             /\ worker[w].phase = "lead" /\ worker'[w].phase \in {"trigger", "resolve"}
             /\ worker'[w].phase = "trigger" => ~lead.acked
  <2>1. worker[w].phase = "lead"
        /\ ((Goto(w, "trigger") /\ ~lead.acked) \/ Goto(w, "resolve"))
    BY <1>5 DEF ReadLead, Breached
  <2>2. QED
    BY <2>1, Places DEF Phase
<1>6. Trigger(w) => worker[w].phase = "trigger" /\ worker'[w].phase = "breach"
                    /\ \A v \in Workers \ {w} : worker'[v] = worker[v]
  BY Places DEF Trigger, Phase
<1>7. Breach(w) => worker[w].phase = "breach" /\ worker'[w].phase \in {"enter", "idle"}
                   /\ \A v \in Workers \ {w} : worker'[v] = worker[v]
  BY Places DEF Breach, Phase
<1>8. EnterPool(w) => worker[w].phase = "enter" /\ worker'[w].phase = "pool"
                      /\ \A v \in Workers \ {w} : worker'[v] = worker[v]
  BY Places DEF EnterPool, Phase
<1>9. TakeFromOwner(w) =>
        worker[w].phase = "pool" /\ worker'[w].phase \in {"idle", "deactivate"}
        /\ \A v \in Workers \ {w} : worker'[v] = worker[v]
  BY Places DEF TakeFromOwner, LeavePool, Phase
<1>10. Grant(w) => worker[w].phase = "grant" /\ worker'[w].phase = "own"
                   /\ worker'[w].agent = worker[w].agent
                   /\ \A v \in Workers \ {w} : worker'[v] = worker[v]
  BY Places DEF Grant, Phase
<1>11. CloseTimer(w) \/ Deactivate(w) \/ Own(w) \/ Die(w) => Finish(w)
  BY DEF CloseTimer, Deactivate, Own, Die
<1>12. QED
  BY <1>2, <1>3, <1>4, <1>5, <1>6, <1>7, <1>8, <1>9, <1>10, <1>11, Places

-----------------------------------------------------------------------------
(* The pool.  PoolOpen is not inductive: a handler about to put the lead   *)
(* into the pool must still find the entry it has made.                    *)

SomeOpen == \E i \in DOMAIN entry : Open(i)
HeldOpen == ~overtaken /\ (lead.pool \/ At({"pool"})) => SomeOpen

LEMMA OfferOpens ==
  ASSUME TypeOK, NEW offer \in Entry, offer.status = "available",
         entry' = Append(entry, offer)
  PROVE  SomeOpen'
<1>1. Len(entry) + 1 \in DOMAIN entry' /\ entry'[Len(entry) + 1].status = "available"
  BY AppendOffer DEF TypeOK
<1>2. QED
  BY <1>1 DEF SomeOpen, Open

LEMMA StaysOpen ==
  ASSUME TypeOK, SomeOpen, entry' = entry \/ \E i \in DOMAIN entry : Expire(i)
  PROVE  SomeOpen'
<1>1. CASE entry' = entry
  BY <1>1 DEF SomeOpen, Open
<1>2. ASSUME NEW i \in DOMAIN entry, Expire(i) PROVE SomeOpen'
  <2>1. PICK j \in DOMAIN entry : Open(j)
    BY DEF SomeOpen
  <2>2. entry[i] \in Entry /\ entry' = [entry EXCEPT ![i].ends = "passed"]
    BY <1>2 DEF Expire, TypeOK
  <2>3. j \in DOMAIN entry' /\ entry'[j].status = entry[j].status
    BY <2>2 DEF Entry, TypeOK
  <2>4. QED
    BY <2>1, <2>3 DEF SomeOpen, Open
<1>3. QED
  BY <1>1, <1>2

LEMMA PoolSteps == TypeOK /\ HeldOpen /\ [Next]_vars => HeldOpen'
<1> SUFFICES ASSUME TypeOK, HeldOpen, [Next]_vars PROVE HeldOpen'
  OBVIOUS
<1>1. ASSUME overtaken' = overtaken, lead'.pool => lead.pool,
             At({"pool"})' => At({"pool"}),
             entry' = entry \/ \E i \in DOMAIN entry : Expire(i)
      PROVE  HeldOpen'
  BY <1>1, StaysOpen DEF HeldOpen
<1>2. ASSUME worker' = worker PROVE At({"pool"})' <=> At({"pool"})
  BY <1>2 DEF At
<1>3. ASSUME NEW w \in Workers, \A v \in Workers \ {w} : worker'[v] = worker[v],
             worker'[w].phase # "pool"
      PROVE  At({"pool"})' => At({"pool"})
  BY <1>3 DEF At
<1>4. ASSUME NEW a \in Agents, Claim(a) PROVE HeldOpen'
  <2>1. ~lead'.pool /\ overtaken' = At({"pool"}) /\ worker' = worker
    BY <1>4 DEF Claim, Assigned, TypeOK, Lead
  <2>2. QED
    BY <1>2, <2>1 DEF HeldOpen
<1>5. ASSUME NEW group \in Groups, ReleaseToPool(group) PROVE HeldOpen'
  BY <1>5, Offers, OfferOpens DEF ReleaseToPool, HeldOpen
<1>6. ASSUME NEW w \in Workers, EnterPool(w) PROVE HeldOpen'
  BY <1>6, Offers, OfferOpens DEF EnterPool, HeldOpen
<1>7. ASSUME NEW w \in Workers, TakeFromOwner(w) PROVE HeldOpen'
  <2>1. At({"pool"}) /\ overtaken' = overtaken /\ entry' = entry
    BY <1>7 DEF TakeFromOwner, At
  <2>2. QED
    BY <2>1, StaysOpen DEF HeldOpen
<1>8. ASSUME NEW a \in Agents,
             Assign(a) \/ UpdateLead(a) \/ LoseClaim(a)
             \/ \E i \in DOMAIN entry : ReadEntry(a, i)
      PROVE  HeldOpen'
  <2>1. (lead'.pool => lead.pool) /\ overtaken' = overtaken /\ entry' = entry
        /\ worker' = worker
    BY <1>8 DEF Assign, Assigned, UpdateLead, LoseClaim, ReadEntry, TypeOK, Lead, history
  <2>2. QED
    BY <1>1, <1>2, <2>1
<1>9. ASSUME Acknowledge \/ \E status \in {"open", "closed"} : ChangeStatus(status)
      PROVE  HeldOpen'
  <2>1. lead'.pool = lead.pool /\ overtaken' = overtaken /\ entry' = entry
        /\ worker' = worker
    BY <1>9 DEF Acknowledge, ChangeStatus, TypeOK, Lead, history
  <2>2. QED
    BY <1>1, <1>2, <2>1
<1>10. ASSUME NEW w \in Workers,
              \/ ReadLead(w) \/ CloseTimer(w) \/ Trigger(w) \/ Breach(w) \/ Deactivate(w)
              \/ Grant(w) \/ Own(w) \/ AddToPool(w) \/ Die(w)
              \/ \E a \in Agents : AssignByWorkflow(w, a)
              \/ \E r \in Rounds, k \in Kinds : StartTimer(w, r, k)
       PROVE  HeldOpen'
  <2>1. worker'[w].phase # "pool" /\ \A v \in Workers \ {w} : worker'[v] = worker[v]
    BY <1>10, Moves
  <2>2. overtaken' = overtaken /\ entry' = entry
    BY <1>10 DEF ReadLead, CloseTimer, Trigger, Breach, Deactivate, Grant, Own, AddToPool,
       Die, AssignByWorkflow, StartTimer, history
  <2>3. lead'.pool => lead.pool
    BY <1>10 DEF ReadLead, CloseTimer, Trigger, Breach, Deactivate, Grant, Own, AddToPool,
       Die, AssignByWorkflow, StartTimer, Assigned, TypeOK, Lead
  <2>4. QED
    BY <1>1, <1>3, <2>1, <2>2, <2>3
<1>11. ASSUME (\E r \in Rounds : Pass(r)) \/ (\E i \in DOMAIN entry : Expire(i))
              \/ UNCHANGED vars
       PROVE  HeldOpen'
  <2>1. lead' = lead /\ overtaken' = overtaken /\ worker' = worker
        /\ (entry' = entry \/ \E i \in DOMAIN entry : Expire(i))
    BY <1>11 DEF Pass, Expire, vars, history
  <2>2. QED
    BY <1>1, <1>2, <2>1
<1>12. QED
  BY <1>4, <1>5, <1>6, <1>7, <1>8, <1>9, <1>10, <1>11 DEF Next, Request, Work

(* Timers that run twice, handlers that die halfway, workflows, edits and  *)
(* claims in any order: a lead in the pool without an open entry there was *)
(* claimed between the statements of its last release.                     *)
THEOREM PoolStaysOpen == Spec => []PoolOpen
<1>1. Init => HeldOpen
  BY DEF Init, HeldOpen, At, Idle, Handler
<1>2. HeldOpen => PoolOpen
  BY DEF HeldOpen, PoolOpen, SomeOpen
<1>3. QED
  BY <1>1, <1>2, PoolSteps, TypeCorrect, PTL DEF Spec

-----------------------------------------------------------------------------
(* Acknowledged leads.  Behind AckStands: a handler that goes on to breach *)
(* the lead read it before it was acknowledged.                            *)

AckHeld ==
  lead.acked /\ ~crossed => lead.sla # "breached" /\ ~At({"trigger", "breach"})

LEMMA AckSteps == TypeOK /\ AckHeld /\ [Next]_vars => AckHeld'
<1> SUFFICES ASSUME TypeOK, AckHeld, [Next]_vars PROVE AckHeld'
  OBVIOUS
<1>1. ASSUME crossed' = crossed, lead'.acked = lead.acked,
             lead'.sla = lead.sla \/ lead'.sla # "breached",
             lead.acked /\ At({"trigger", "breach"})' => At({"trigger", "breach"})
      PROVE  AckHeld'
  BY <1>1 DEF AckHeld
<1>2. ASSUME worker' = worker PROVE At({"trigger", "breach"})' <=> At({"trigger", "breach"})
  BY <1>2 DEF At
<1>3. ASSUME Acknowledge PROVE AckHeld'
  <2>1. lead'.sla = "met" /\ crossed' = At({"trigger", "breach"}) /\ worker' = worker
    BY <1>3 DEF Acknowledge, TypeOK, Lead
  <2>2. QED
    BY <1>2, <2>1 DEF AckHeld
<1>4. ASSUME NEW w \in Workers, Breach(w) PROVE AckHeld'
  <2>1. At({"trigger", "breach"}) /\ crossed' = crossed /\ lead'.acked = lead.acked
    BY <1>4 DEF Breach, At, history, TypeOK, Lead
  <2>2. QED
    BY <2>1 DEF AckHeld
<1>5. ASSUME NEW w \in Workers,
             \/ ReadLead(w) \/ CloseTimer(w) \/ Trigger(w) \/ EnterPool(w)
             \/ TakeFromOwner(w) \/ Deactivate(w) \/ Grant(w) \/ Own(w)
             \/ AddToPool(w) \/ Die(w)
             \/ \E a \in Agents : AssignByWorkflow(w, a)
             \/ \E r \in Rounds, k \in Kinds : StartTimer(w, r, k)
      PROVE  AckHeld'
  <2>1. crossed' = crossed
    BY <1>5 DEF ReadLead, CloseTimer, Trigger, EnterPool, TakeFromOwner, Deactivate, Grant,
       Own, AddToPool, Die, AssignByWorkflow, StartTimer, history
  <2>2. lead'.acked = lead.acked /\ lead'.sla = lead.sla
    BY <1>5 DEF ReadLead, CloseTimer, Trigger, EnterPool, TakeFromOwner, Deactivate, Grant,
       Own, AddToPool, Die, AssignByWorkflow, StartTimer, Assigned, TypeOK, Lead
  <2>3. \A v \in Workers \ {w} : worker'[v] = worker[v]
    BY <1>5, Moves
  <2>4. lead.acked /\ worker'[w].phase \in {"trigger", "breach"} =>
          worker[w].phase \in {"trigger", "breach"}
    BY <1>5, Moves
  <2>5. lead.acked /\ At({"trigger", "breach"})' => At({"trigger", "breach"})
    BY <2>3, <2>4 DEF At
  <2>6. QED
    BY <1>1, <2>1, <2>2, <2>5
<1>6. ASSUME NEW a \in Agents,
             Assign(a) \/ UpdateLead(a) \/ Claim(a) \/ LoseClaim(a)
             \/ \E i \in DOMAIN entry : ReadEntry(a, i)
      PROVE  AckHeld'
  <2>1. lead'.acked = lead.acked /\ (lead'.sla = lead.sla \/ lead'.sla = "pending")
        /\ crossed' = crossed /\ worker' = worker
    BY <1>6 DEF Assign, Assigned, UpdateLead, Claim, LoseClaim, ReadEntry, TypeOK, Lead, history
  <2>2. QED
    BY <1>1, <1>2, <2>1
<1>7. ASSUME (\E status \in {"open", "closed"} : ChangeStatus(status))
             \/ (\E group \in Groups : ReleaseToPool(group))
      PROVE  AckHeld'
  <2>1. lead'.acked = lead.acked /\ lead'.sla = lead.sla
        /\ crossed' = crossed /\ worker' = worker
    BY <1>7 DEF ChangeStatus, ReleaseToPool, TypeOK, Lead, history
  <2>2. QED
    BY <1>1, <1>2, <2>1
<1>8. ASSUME (\E r \in Rounds : Pass(r)) \/ (\E i \in DOMAIN entry : Expire(i))
             \/ UNCHANGED vars
      PROVE  AckHeld'
  <2>1. lead' = lead /\ crossed' = crossed /\ worker' = worker
    BY <1>8 DEF Pass, Expire, vars, history
  <2>2. QED
    BY <1>1, <1>2, <2>1
<1>9. QED
  BY <1>3, <1>4, <1>5, <1>6, <1>7, <1>8 DEF Next, Request, Work

(* Only a handler that had read the lead before it was acknowledged marks  *)
(* it breached afterwards, whatever timers of other owners are due.        *)
THEOREM AckIsNotBreached == Spec => []AckStands
<1>1. Init => AckHeld
  BY DEF Init, AckHeld
<1>2. AckHeld => AckStands
  BY DEF AckHeld, AckStands
<1>3. QED
  BY <1>1, <1>2, AckSteps, TypeCorrect, PTL DEF Spec

-----------------------------------------------------------------------------
(* The owner.  As long as nothing was written in between, at most one      *)
(* handler is halfway, and it finds what its first statements left.        *)

Half(w) == worker[w].phase \in Halfway

FindsItsOwn(w) ==
  /\ worker[w].phase = "deactivate" => lead.assigned = None
  /\ worker[w].phase = "grant" => active = {}
  /\ worker[w].phase = "own" => active = {worker[w].agent}

Agree ==
  /\ lead.pool => lead.assigned = None
  /\ lead.assigned # None => active = {lead.assigned}

OwnerHeld ==
  ~loose =>
    /\ \A v, w \in Workers : Half(v) /\ Half(w) => v = w
    /\ \A w \in Workers : FindsItsOwn(w)
    /\ ~At(Halfway) => Agree

LEMMA OwnerSteps == TypeOK /\ OwnerHeld /\ [Next]_vars => OwnerHeld'
<1> SUFFICES ASSUME TypeOK, OwnerHeld, [Next]_vars PROVE OwnerHeld'
  OBVIOUS
<1>1. ASSUME worker' = worker, loose' = At(Halfway), Agree' PROVE OwnerHeld'
  BY <1>1 DEF OwnerHeld, At, Half, FindsItsOwn, Halfway
<1>2. ASSUME worker' = worker, loose' = loose, active' = active,
             lead'.assigned = lead.assigned, lead'.pool = lead.pool
      PROVE  OwnerHeld'
  BY <1>2 DEF OwnerHeld, At, Half, FindsItsOwn, Agree
(* A handler that is halfway neither before nor after                      *)
<1>3. ASSUME NEW w \in Workers, \A v \in Workers \ {w} : worker'[v] = worker[v],
             ~Half(w), worker'[w].phase \notin Halfway, loose' = loose, active' = active,
             lead'.assigned = lead.assigned, lead'.pool = lead.pool
      PROVE  OwnerHeld'
  <2>1. \A v \in Workers : Half(v)' => Half(v) /\ v # w
    BY <1>3 DEF Half
  <2>2. At(Halfway)' <=> At(Halfway)
    BY <1>3 DEF At, Half
  <2>3. Agree' <=> Agree
    BY <1>3 DEF Agree
  <2>4. \A v \in Workers : FindsItsOwn(v) => FindsItsOwn(v)'
    BY <1>3 DEF FindsItsOwn, Halfway
  <2>5. QED
    BY <1>3, <2>1, <2>2, <2>3, <2>4 DEF OwnerHeld
(* A handler that is the only one halfway, and has done its last statement *)
<1>4. ASSUME NEW w \in Workers, \A v \in Workers \ {w} : worker'[v] = worker[v],
             worker'[w].phase = "idle", loose' = loose, ~loose => Half(w) /\ Agree'
      PROVE  OwnerHeld'
  <2>1. ~loose' => \A v \in Workers : ~Half(v)'
    BY <1>4 DEF OwnerHeld, Half, Halfway
  <2>2. ~loose' => \A v \in Workers : FindsItsOwn(v)'
    BY <2>1 DEF FindsItsOwn, Half, Halfway
  <2>3. QED
    BY <1>4, <2>1, <2>2 DEF OwnerHeld
(* A handler that gets halfway, or on, when no other one is                *)
<1>5. ASSUME NEW w \in Workers, \A v \in Workers \ {w} : worker'[v] = worker[v],
             worker'[w].phase \in Halfway,
             ~loose' => /\ \A v \in Workers \ {w} : ~Half(v)
                        /\ FindsItsOwn(w)'
      PROVE  OwnerHeld'
  <2>1. ~loose' => \A v \in Workers \ {w} : ~Half(v)' /\ FindsItsOwn(v)'
    BY <1>5 DEF Half, FindsItsOwn, Halfway
  <2>2. At(Halfway)'
    BY <1>5 DEF At
  <2>3. QED
    BY <1>5, <2>1, <2>2 DEF OwnerHeld
<1>6. ASSUME NEW a \in Agents, Assign(a) \/ Claim(a) PROVE OwnerHeld'
  <2>1. lead'.assigned = a /\ ~lead'.pool /\ active' = {a}
        /\ worker' = worker /\ loose' = At(Halfway)
    BY <1>6 DEF Assign, Claim, Assigned, TypeOK, Lead
  <2>2. QED
    BY <1>1, <2>1 DEF Agree
<1>7. ASSUME NEW group \in Groups, ReleaseToPool(group) PROVE OwnerHeld'
  <2>1. lead'.assigned = None /\ worker' = worker /\ loose' = At(Halfway)
    BY <1>7 DEF ReleaseToPool, TypeOK, Lead
  <2>2. QED
    BY <1>1, <2>1 DEF Agree
<1>8. ASSUME NEW a \in Agents, UpdateLead(a) PROVE OwnerHeld'
  BY <1>8 DEF UpdateLead, OwnerHeld
<1>9. ASSUME \/ \E status \in {"open", "closed"} : ChangeStatus(status)
             \/ Acknowledge
             \/ \E a \in Agents : LoseClaim(a) \/ \E i \in DOMAIN entry : ReadEntry(a, i)
             \/ \E r \in Rounds : Pass(r)
             \/ \E i \in DOMAIN entry : Expire(i)
             \/ UNCHANGED vars
      PROVE  OwnerHeld'
  <2>1. worker' = worker /\ loose' = loose /\ active' = active
    BY <1>9 DEF ChangeStatus, Acknowledge, LoseClaim, ReadEntry, Pass, Expire, vars, history
  <2>2. lead'.assigned = lead.assigned /\ lead'.pool = lead.pool
    BY <1>9 DEF ChangeStatus, Acknowledge, LoseClaim, ReadEntry, Pass, Expire, vars, TypeOK, Lead
  <2>3. QED
    BY <1>2, <2>1, <2>2
<1>10. ASSUME NEW w \in Workers,
              \/ ReadLead(w) \/ CloseTimer(w) \/ Trigger(w) \/ Breach(w) \/ EnterPool(w)
              \/ AddToPool(w) \/ \E r \in Rounds, k \in Kinds : StartTimer(w, r, k)
       PROVE  OwnerHeld'
  <2>1. (\A v \in Workers \ {w} : worker'[v] = worker[v]) /\ worker'[w].phase \notin Halfway
    BY <1>10, Moves DEF Halfway
  <2>2. ~Half(w)
    BY <1>10 DEF ReadLead, CloseTimer, Trigger, Breach, EnterPool, AddToPool, StartTimer,
       Half, Halfway
  <2>3. loose' = loose /\ active' = active
    BY <1>10 DEF ReadLead, CloseTimer, Trigger, Breach, EnterPool, AddToPool, StartTimer,
       history
  <2>4. lead'.assigned = lead.assigned /\ lead'.pool = lead.pool
    BY <1>10 DEF ReadLead, CloseTimer, Trigger, Breach, EnterPool, AddToPool, StartTimer,
       TypeOK, Lead
  <2>5. QED
    BY <1>3, <2>1, <2>2, <2>3, <2>4
<1>11. ASSUME NEW w \in Workers, TakeFromOwner(w) PROVE OwnerHeld'
  <2>1. /\ \A v \in Workers \ {w} : worker'[v] = worker[v]
        /\ worker[w].phase = "pool" /\ worker'[w].phase \in {"idle", "deactivate"}
    BY <1>11, Moves
  <2>2. lead'.assigned = None /\ loose' = (loose \/ At(Halfway))
    BY <1>11 DEF TakeFromOwner, TypeOK, Lead
  <2>3. ~loose' => \A v \in Workers : ~Half(v)
    BY <2>2 DEF At, Half
  <2>4. CASE worker'[w].phase = "deactivate"
    BY <1>5, <2>1, <2>2, <2>3, <2>4 DEF FindsItsOwn, Halfway
  <2>5. CASE worker'[w].phase = "idle"
    <3>1. ~loose' => \A v \in Workers : ~Half(v)'
      BY <2>1, <2>3, <2>5 DEF Half, Halfway
    <3>2. ~loose' => \A v \in Workers : FindsItsOwn(v)'
      BY <3>1 DEF FindsItsOwn, Half, Halfway
    <3>3. QED
      BY <2>2, <3>1, <3>2 DEF OwnerHeld, Agree
  <2>6. QED
    BY <2>1, <2>4, <2>5
<1>12. ASSUME NEW w \in Workers, NEW a \in Agents, AssignByWorkflow(w, a) PROVE OwnerHeld'
  <2>1. /\ \A v \in Workers \ {w} : worker'[v] = worker[v]
        /\ worker'[w].phase = "grant" /\ active' = {} /\ loose' = At(Halfway)
    BY <1>12, Moves DEF AssignByWorkflow
  <2>2. ~loose' => \A v \in Workers : ~Half(v)
    BY <2>1 DEF At, Half
  <2>3. QED
    BY <1>5, <2>1, <2>2 DEF FindsItsOwn, Halfway
<1>13. ASSUME NEW w \in Workers, Grant(w) PROVE OwnerHeld'
  <2>1. /\ \A v \in Workers \ {w} : worker'[v] = worker[v]
        /\ worker[w].phase = "grant" /\ worker'[w].phase = "own"
        /\ worker'[w].agent = worker[w].agent
        /\ active' = active \cup {worker[w].agent} /\ loose' = loose
    BY <1>13, Moves DEF Grant, history
  <2>2. ~loose => active = {} /\ \A v \in Workers \ {w} : ~Half(v)
    BY <2>1 DEF OwnerHeld, FindsItsOwn, Half, Halfway
  <2>3. QED
    BY <1>5, <2>1, <2>2 DEF FindsItsOwn, Halfway
<1>14. ASSUME NEW w \in Workers, Own(w) PROVE OwnerHeld'
  <2>1. /\ \A v \in Workers \ {w} : worker'[v] = worker[v]
        /\ worker[w].phase = "own" /\ worker'[w].phase = "idle"
        /\ active' = active /\ loose' = loose
    BY <1>14, Moves DEF Own, history
  <2>2. lead'.assigned = worker[w].agent /\ ~lead'.pool
    BY <1>14 DEF Own, Assigned, TypeOK, Lead
  <2>3. ~loose => active = {worker[w].agent}
    BY <2>1 DEF OwnerHeld, FindsItsOwn
  <2>4. QED
    BY <1>4, <2>1, <2>2, <2>3 DEF Agree, Half, Halfway
<1>15. ASSUME NEW w \in Workers, Deactivate(w) PROVE OwnerHeld'
  <2>1. /\ \A v \in Workers \ {w} : worker'[v] = worker[v]
        /\ worker[w].phase = "deactivate" /\ worker'[w].phase = "idle"
        /\ lead' = lead /\ loose' = loose
    BY <1>15, Moves DEF Deactivate, history
  <2>2. ~loose => lead.assigned = None
    BY <2>1 DEF OwnerHeld, FindsItsOwn
  <2>3. QED
    BY <1>4, <2>1, <2>2 DEF Agree, Half, Halfway
<1>16. ASSUME NEW w \in Workers, Die(w) PROVE OwnerHeld'
  <2>1. /\ \A v \in Workers \ {w} : worker'[v] = worker[v]
        /\ worker'[w].phase = "idle" /\ lead' = lead /\ active' = active
        /\ loose' = (loose \/ worker[w].phase \in {"grant", "own"})
    BY <1>16, Moves DEF Die
  <2>2. CASE worker[w].phase \in {"grant", "own"}
    BY <2>1, <2>2 DEF OwnerHeld
  <2>3. CASE worker[w].phase = "deactivate"
    <3>1. ~loose => lead.assigned = None
      BY <2>3 DEF OwnerHeld, FindsItsOwn
    <3>2. loose' = loose
      BY <2>1, <2>3 DEF TypeOK
    <3>3. QED
      BY <1>4, <2>1, <2>3, <3>1, <3>2 DEF Agree, Half, Halfway
  <2>4. CASE ~Half(w)
    <3>1. loose' = loose
      BY <2>1, <2>4 DEF TypeOK, Half, Halfway
    <3>2. QED
      BY <1>3, <2>1, <2>4, <3>1 DEF Half, Halfway
  <2>5. QED
    BY <2>2, <2>3, <2>4 DEF Half, Halfway
<1>17. QED
  BY <1>6, <1>7, <1>8, <1>9, <1>10, <1>11, <1>12, <1>13, <1>14, <1>15, <1>16
     DEF Next, Request, Work

(* The owner on the lead and the active assignment come apart only by an   *)
(* edit, a handler that dies halfway, or a write between the statements of *)
(* another, and come together again by the next undisturbed one.           *)
THEOREM OwnerIsOne == Spec => []OneOwner
<1>1. Init => OwnerHeld
  <2> SUFFICES ASSUME Init PROVE OwnerHeld
    OBVIOUS
  <2>1. Agree
    BY DEF Init, Agree
  <2>2. \A w \in Workers : worker[w].phase = "idle"
    BY DEF Init, Idle, Handler
  <2>3. QED
    BY <2>1, <2>2 DEF OwnerHeld, Half, Halfway, FindsItsOwn
<1>2. OwnerHeld => OneOwner
  BY DEF OwnerHeld, OneOwner, Agree
<1>3. QED
  BY <1>1, <1>2, OwnerSteps, TypeCorrect, PTL DEF Spec

=============================================================================
