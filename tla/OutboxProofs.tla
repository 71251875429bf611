------------------------------ MODULE OutboxProofs ------------------------------
(* Proofs about Outbox, for any number of events, rules, batches, attempts *)
(* and faults; only CancelledIsClear asks users and the query for patience.*)
EXTENDS Outbox, TLAPS, FiniteSetTheorems

Safe == TypeOK /\ HandledByOne

LEMMA IdleBatch == Idle \in Batch /\ Idle.phase = "idle" /\ Idle.todo = {}
BY DEF Idle, Batch, Phase

LEMMA ResumeBatch ==
  ASSUME NEW todo \in SUBSET Events, NEW late \in BOOLEAN
  PROVE  /\ Resume(todo, late) \in Batch
         /\ Resume(todo, late).phase \in {"idle", "next", "skip"}
         /\ Resume(todo, late).phase = "idle" => todo = {}
         /\ Resume(todo, late).todo = todo
BY DEF Resume, Idle, Batch, Phase

LEMMA InitSafe == ASSUME Init PROVE Safe
<1>1. event \in [Events -> EventRow]
  BY DEF Init, EventRow, EventStatus
<1>2. TypeOK
  <2>1. \A b \in Batches : batch[b] = Idle
    BY DEF Init
  <2>2. batch \in [Batches -> Batch]
    BY IdleBatch DEF Init
  <2>3. 0 \in 0..MaxFaults
    BY OutboxAssumption
  <2>4. \A b \in Batches : batch[b].phase = "idle"
    BY <2>1, IdleBatch
  <2>5. QED
    BY <1>1, <2>2, <2>3, <2>4 DEF Init, TypeOK, Handling, Recording
<1>3. HandledByOne
  BY OutboxAssumption DEF Init, HandledByOne, Held, Idle, Handling
<1>4. QED
  BY <1>2, <1>3 DEF Safe

-----------------------------------------------------------------------------
(* Steps of the table: no batch moves, and no lock of a batch changes      *)

LEMMA TableStep ==
  ASSUME Safe, UNCHANGED batch,
         deal' \in {"signed", "won", "cancelled"}, event' \in [Events -> EventRow],
         celebration' = celebration, points' = points, faults' = faults,
         \A e \in Events, b \in Batches : event'[e].lock = b <=> event[e].lock = b
  PROVE  Safe'
<1>1. TypeOK'
  BY DEF Safe, TypeOK
<1>2. \A b \in Batches : Held(b)' = Held(b)
  BY DEF Held
<1>3. HandledByOne'
  BY <1>2 DEF Safe, HandledByOne
<1>4. QED
  BY <1>1, <1>3 DEF Safe

LEMMA EmitStep ==
  ASSUME Safe, NEW type \in {"won", "cancelled"}, Emit(type),
         deal' \in {"signed", "won", "cancelled"}
  PROVE  Safe'
<1> DEFINE n == Cardinality(Emitted) + 1
<1>1. n \in Events /\ UNCHANGED <<batch, celebration, points, faults>>
  BY DEF Emit
<1>2. event' = [event EXCEPT ![n].type = type, ![n].status = "pending", ![n].due = TRUE]
  BY DEF Emit
<1>3. event' \in [Events -> EventRow] /\ \A e \in Events : event'[e].lock = event[e].lock
  BY <1>1, <1>2 DEF Safe, TypeOK, EventRow, EventStatus
<1>4. QED
  BY <1>1, <1>3, TableStep

LEMMA TableSteps ==
  ASSUME Safe,
         \/ WinDeal \/ CancelDeal
         \/ \E e \in Events : LeaseEnds(e) \/ BecomesDue(e)
  PROVE  Safe'
<1>1. CASE WinDeal
  BY <1>1, EmitStep DEF WinDeal
<1>2. CASE CancelDeal
  BY <1>2, EmitStep DEF CancelDeal
<1>3. ASSUME NEW e \in Events, LeaseEnds(e) PROVE Safe'
  <2>1. event' = [event EXCEPT ![e].lock = None] /\ event[e].lock = Ghost
        /\ UNCHANGED <<deal, batch, celebration, points, faults>>
    BY <1>3 DEF LeaseEnds
  <2>2. event' \in [Events -> EventRow]
    BY <2>1 DEF Safe, TypeOK, EventRow
  <2>3. \A f \in Events, b \in Batches : event'[f].lock = b <=> event[f].lock = b
    BY <2>1, OutboxAssumption DEF Safe, TypeOK, EventRow
  <2>4. QED
    BY <2>1, <2>2, <2>3, TableStep DEF Safe, TypeOK
<1>4. ASSUME NEW e \in Events, BecomesDue(e) PROVE Safe'
  <2>1. event' = [event EXCEPT ![e].due = TRUE]
        /\ UNCHANGED <<deal, batch, celebration, points, faults>>
    BY <1>4 DEF BecomesDue
  <2>2. event[e] \in EventRow /\ event \in [Events -> EventRow]
    BY DEF Safe, TypeOK
  <2>3. event' = [event EXCEPT ![e] = [event[e] EXCEPT !.due = TRUE]]
    BY <2>1
  <2>4. /\ [event[e] EXCEPT !.due = TRUE] \in EventRow
        /\ [event[e] EXCEPT !.due = TRUE].lock = event[e].lock
    BY <2>2 DEF EventRow
  <2>5. event' \in [Events -> EventRow] /\ \A f \in Events : event'[f].lock = event[f].lock
    BY <2>2, <2>3, <2>4
  <2>6. QED
    BY <2>1, <2>5, TableStep DEF Safe, TypeOK
<1>5. QED
  BY <1>1, <1>2, <1>3, <1>4

-----------------------------------------------------------------------------
(* Steps of a batch *)

WellFormed(x) ==
  /\ x \in Batch
  /\ x.phase \in Handling \cup Recording => x.event \in Events \ x.todo
  /\ x.phase = "negate" => x.rule \in x.rules
Holds(x) ==
  {e \in Events : \/ x.phase \notin {"idle", "read"} /\ e \in x.todo
                  \/ x.phase \in Handling \cup {"fail"} /\ e = x.event}

(* What a batch takes was nobody's, and what it gives up is nobody's.      *)
LEMMA BatchStep ==
  ASSUME Safe, NEW b \in Batches, NEW x, WellFormed(x), batch' = [batch EXCEPT ![b] = x],
         deal' = deal, celebration' \in {"none", "approved", "reversed"},
         points' \in [Rules -> {"none", "given", "reversed"}], faults' \in 0..MaxFaults,
         event' \in [Events -> EventRow],
         \A e \in Events : event'[e].lock = b <=> e \in Holds(x),
         \A e \in Events : event'[e].lock # event[e].lock =>
           event[e].lock \in {b, None} /\ event'[e].lock \in {b, None, Ghost}
  PROVE  Safe'
<1>1. \A c \in Batches : batch'[c] = IF c = b THEN x ELSE batch[c]
  BY DEF Safe, TypeOK
<1>2. batch' \in [Batches -> Batch]
  BY DEF Safe, TypeOK, WellFormed
<1>3. \A c \in Batches :
        /\ batch'[c].phase \in Handling \cup Recording => batch'[c].event \in Events \ batch'[c].todo
        /\ batch'[c].phase = "negate" => batch'[c].rule \in batch'[c].rules
  BY <1>1 DEF Safe, TypeOK, WellFormed
<1>4. TypeOK'
  BY <1>2, <1>3 DEF Safe, TypeOK
<1>5. ASSUME NEW c \in Batches, NEW e \in Events
      PROVE  event'[e].lock = c <=> e \in Held(c)'
  <2>1. CASE c = b
    <3>1. Held(c)' = Holds(x)
      BY <2>1, <1>1 DEF Held, Holds
    <3>2. QED
      BY <3>1, <2>1
  <2>2. CASE c # b
    <3>1. Held(c)' = Held(c)
      BY <2>2, <1>1 DEF Held
    <3>2. event'[e].lock = c <=> event[e].lock = c
      BY <2>2, OutboxAssumption
    <3>3. QED
      BY <3>1, <3>2 DEF Safe, HandledByOne
  <2>3. QED
    BY <2>1, <2>2
<1>6. QED
  BY <1>4, <1>5 DEF Safe, HandledByOne

LEMMA BatchIs ==
  ASSUME Safe, NEW b \in Batches
  PROVE  /\ WellFormed(batch[b])
         /\ \A e \in Events : event[e].lock = b <=> e \in Holds(batch[b])
         /\ deal \in {"signed", "won", "cancelled"} /\ event \in [Events -> EventRow]
         /\ celebration \in {"none", "approved", "reversed"}
         /\ points \in [Rules -> {"none", "given", "reversed"}] /\ faults \in 0..MaxFaults
BY DEF Safe, TypeOK, HandledByOne, WellFormed, Holds, Held

(* A statement of the handler leaves the batch with the same events.       *)
LEMMA HandlerStep ==
  ASSUME Safe, NEW b \in Batches, NEW x \in Batch,
         batch[b].phase \in Handling, batch' = [batch EXCEPT ![b] = x],
         x.phase \in Handling \cup {"fail"}, x.todo = batch[b].todo, x.event = batch[b].event,
         x.phase = "negate" => x.rule \in x.rules,
         deal' = deal, celebration' \in {"none", "approved", "reversed"},
         points' \in [Rules -> {"none", "given", "reversed"}], faults' \in 0..MaxFaults,
         event' \in [Events -> EventRow], \A e \in Events : event'[e].lock = event[e].lock
  PROVE  Safe'
<1>1. WellFormed(x)
  BY BatchIs DEF WellFormed, Recording
<1>2. Holds(x) = Holds(batch[b])
  BY DEF Holds, Handling
<1>3. \A e \in Events : event'[e].lock = b <=> e \in Holds(x)
  BY <1>2, BatchIs
<1>4. QED
  BY <1>1, <1>3, BatchStep

LEMMA HandlerSteps ==
  ASSUME Safe, NEW b \in Batches,
         \/ Look(b) \/ Celebrate(b) \/ ReadEntries(b) \/ Negate(b) \/ MarkCelebration(b) \/ Publish(b)
         \/ \E r \in Rules : Award(b, r) \/ CheckEntry(b, r)
         \/ Throw(b)
  PROVE  Safe'
<1> DEFINE y == batch[b]
<1>1. y \in Batch /\ batch \in [Batches -> Batch] /\ WellFormed(y)
      /\ event \in [Events -> EventRow] /\ celebration \in {"none", "approved", "reversed"}
      /\ points \in [Rules -> {"none", "given", "reversed"}] /\ faults \in 0..MaxFaults
  BY BatchIs DEF Safe, TypeOK
<1>2. ASSUME NEW p \in Handling \cup {"fail"}, p # "negate", Goto(b, p)
      PROVE  \E x \in Batch : /\ batch' = [batch EXCEPT ![b] = x] /\ x.phase = p
                              /\ x.todo = y.todo /\ x.event = y.event
  <2> DEFINE x == [y EXCEPT !.phase = p]
  <2>1. x \in Batch /\ x.phase = p /\ x.todo = y.todo /\ x.event = y.event
    BY <1>1 DEF Batch, Phase, Recording
  <2>2. QED
    BY <2>1, <1>2 DEF Goto
<1>3. CASE Look(b)
  <2>1. PICK p \in {"celebrate", "publish"} : Goto(b, p)
    BY <1>3 DEF Look
  <2>2. PICK x \in Batch : /\ batch' = [batch EXCEPT ![b] = x] /\ x.phase = p
                           /\ x.todo = y.todo /\ x.event = y.event
    BY <2>1, <1>2 DEF Handling
  <2>3. QED
    BY <2>2, <1>1, <1>3, HandlerStep DEF Look, Handling, table
<1>4. CASE Celebrate(b)
  <2>1. CASE celebration = "none"
    <3> DEFINE x == [y EXCEPT !.phase = IF Rules = {} THEN "publish" ELSE "award", !.rules = Rules]
    <3>1. x \in Batch /\ x.phase \in {"publish", "award"} /\ x.todo = y.todo /\ x.event = y.event
      BY <1>1 DEF Batch, Phase, Handling
    <3>2. batch' = [batch EXCEPT ![b] = x]
      BY <2>1, <1>4, <1>1 DEF Celebrate
    <3>3. celebration' = "approved" /\ UNCHANGED <<deal, event, points, faults>> /\ y.phase = "celebrate"
      BY <2>1, <1>4 DEF Celebrate
    <3>4. QED
      BY <3>1, <3>2, <3>3, <1>1, HandlerStep DEF Handling
  <2>2. CASE celebration # "none"
    <3>1. Goto(b, "fail") /\ UNCHANGED <<deal, event, celebration, points, faults>> /\ y.phase = "celebrate"
      BY <2>2, <1>4 DEF Celebrate
    <3>2. PICK x \in Batch : /\ batch' = [batch EXCEPT ![b] = x] /\ x.phase = "fail"
                             /\ x.todo = y.todo /\ x.event = y.event
      BY <3>1, <1>2
    <3>3. QED
      BY <3>1, <3>2, <1>1, HandlerStep DEF Handling
  <2>3. QED
    BY <2>1, <2>2
<1>5. CASE ReadEntries(b)
  <2> DEFINE entries == {r \in Rules : points[r] # "none"}
             x == [y EXCEPT !.phase = IF entries = {} THEN "mark" ELSE "check", !.rules = entries]
  <2>1. x \in Batch /\ x.phase \in {"mark", "check"} /\ x.todo = y.todo /\ x.event = y.event
    BY <1>1 DEF Batch, Phase, Handling
  <2>2. batch' = [batch EXCEPT ![b] = x] /\ UNCHANGED <<table, faults>> /\ y.phase = "entries"
    BY <1>5, <1>1 DEF ReadEntries
  <2>3. QED
    BY <2>1, <2>2, <1>1, HandlerStep DEF Handling, table
<1>6. ASSUME NEW r, Further(b, r)
      PROVE  \E x \in Batch : /\ batch' = [batch EXCEPT ![b] = x] /\ x.phase \in {"mark", "check"}
                              /\ x.todo = y.todo /\ x.event = y.event
  <2> DEFINE x == [y EXCEPT !.phase = IF y.rules = {r} THEN "mark" ELSE "check",
                            !.rules = @ \ {r}, !.rule = None]
  <2>1. x \in Batch /\ x.phase \in {"mark", "check"} /\ x.todo = y.todo /\ x.event = y.event
    BY <1>1 DEF Batch, Phase, Handling
  <2>2. batch' = [batch EXCEPT ![b] = x]
    BY <1>6, <1>1 DEF Further
  <2>3. QED
    BY <2>1, <2>2
<1>7. CASE Negate(b)
  <2>1. y.phase = "negate" /\ UNCHANGED <<deal, event, celebration, faults>>
        /\ points' \in [Rules -> {"none", "given", "reversed"}]
    BY <1>7, <1>1 DEF Negate
  <2>2. \/ Goto(b, "fail")
        \/ Further(b, y.rule)
    BY <1>7 DEF Negate
  <2>3. PICK x \in Batch : /\ batch' = [batch EXCEPT ![b] = x] /\ x.phase \in {"fail", "mark", "check"}
                           /\ x.todo = y.todo /\ x.event = y.event
    BY <2>2, <1>2, <1>6
  <2>4. QED
    BY <2>1, <2>3, <1>1, HandlerStep DEF Handling
<1>8. CASE MarkCelebration(b)
  <2>1. Goto(b, "publish") /\ y.phase = "mark" /\ UNCHANGED <<deal, event, points, faults>>
        /\ celebration' \in {"none", "reversed"}
    BY <1>8 DEF MarkCelebration
  <2>2. PICK x \in Batch : /\ batch' = [batch EXCEPT ![b] = x] /\ x.phase = "publish"
                           /\ x.todo = y.todo /\ x.event = y.event
    BY <2>1, <1>2 DEF Handling
  <2>3. QED
    BY <2>1, <2>2, <1>1, HandlerStep DEF Handling
<1>9. CASE Publish(b)
  <2>1. Goto(b, "complete") /\ y.phase = "publish" /\ UNCHANGED <<deal, celebration, points, faults>>
        /\ event' = [event EXCEPT ![y.event].delivered = TRUE]
    BY <1>9 DEF Publish
  <2>2. event' \in [Events -> EventRow] /\ \A e \in Events : event'[e].lock = event[e].lock
    BY <2>1, <1>1 DEF EventRow
  <2>3. PICK x \in Batch : /\ batch' = [batch EXCEPT ![b] = x] /\ x.phase = "complete"
                           /\ x.todo = y.todo /\ x.event = y.event
    BY <2>1, <1>2 DEF Handling
  <2>4. QED
    BY <2>1, <2>2, <2>3, <1>1, HandlerStep DEF Handling
<1>10. ASSUME NEW r \in Rules, Award(b, r) PROVE Safe'
  <2> DEFINE x == [y EXCEPT !.phase = IF y.rules = {r} THEN "publish" ELSE "award",
                            !.rules = @ \ {r}]
  <2>1. x \in Batch /\ x.phase \in {"publish", "award"} /\ x.todo = y.todo /\ x.event = y.event
    BY <1>1 DEF Batch, Phase, Handling
  <2>2. batch' = [batch EXCEPT ![b] = x] /\ UNCHANGED <<deal, event, celebration, faults>>
        /\ y.phase = "award"
    BY <1>10, <1>1 DEF Award
  <2>3. points' \in [Rules -> {"none", "given", "reversed"}]
    BY <1>10, <1>1 DEF Award
  <2>4. QED
    BY <2>1, <2>2, <2>3, <1>1, HandlerStep DEF Handling
<1>11. ASSUME NEW r \in Rules, CheckEntry(b, r) PROVE Safe'
  <2>1. y.phase = "check" /\ r \in y.rules /\ UNCHANGED <<table, faults>>
    BY <1>11 DEF CheckEntry
  <2>2. CASE points[r] = "reversed"
    <3>1. PICK x \in Batch : /\ batch' = [batch EXCEPT ![b] = x] /\ x.phase \in {"mark", "check"}
                             /\ x.todo = y.todo /\ x.event = y.event
      BY <2>2, <1>6, <1>11 DEF CheckEntry
    <3>2. QED
      BY <3>1, <2>1, <1>1, HandlerStep DEF Handling, table
  <2>3. CASE points[r] # "reversed"
    <3> DEFINE x == [y EXCEPT !.phase = "negate", !.rule = r]
    <3>1. /\ x \in Batch /\ x.phase = "negate" /\ x.todo = y.todo /\ x.event = y.event
          /\ x.rule \in x.rules
      BY <1>1, <2>1 DEF Batch, Phase, Handling
    <3>2. batch' = [batch EXCEPT ![b] = x]
      BY <2>3, <1>11, <1>1 DEF CheckEntry
    <3>3. QED
      BY <3>1, <3>2, <2>1, <1>1, HandlerStep DEF Handling, table
  <2>4. QED
    BY <2>2, <2>3
<1>12. CASE Throw(b)
  <2>1. y.phase \in Handling /\ Goto(b, "fail") /\ UNCHANGED table /\ faults' = faults + 1
        /\ faults < MaxFaults
    BY <1>12 DEF Throw
  <2>2. faults' \in 0..MaxFaults
    BY <2>1, <1>1, OutboxAssumption
  <2>3. PICK x \in Batch : /\ batch' = [batch EXCEPT ![b] = x] /\ x.phase = "fail"
                           /\ x.todo = y.todo /\ x.event = y.event
    BY <2>1, <1>2
  <2>4. QED
    BY <2>1, <2>2, <2>3, <1>1, HandlerStep DEF table
<1>13. QED
  BY <1>3, <1>4, <1>5, <1>7, <1>8, <1>9, <1>10, <1>11, <1>12

(* A batch that leaves the event it handles, or gives one of its list back:*)
(* what is left on its list is what it still holds.                        *)
LEMMA LeavingStep ==
  ASSUME Safe, NEW b \in Batches, NEW todo \in SUBSET Events, NEW late \in BOOLEAN,
         batch' = [batch EXCEPT ![b] = Resume(todo, late)],
         UNCHANGED <<deal, celebration, points, faults>>, event' \in [Events -> EventRow],
         \A e \in todo : event'[e].lock = b,
         \A e \in Events \ todo : event'[e].lock # b,
         \A e \in Events : event'[e].lock # event[e].lock =>
           event[e].lock \in {b, None} /\ event'[e].lock \in {b, None, Ghost}
  PROVE  Safe'
<1> DEFINE x == Resume(todo, late)
<1>1. /\ x \in Batch /\ x.phase \in {"idle", "next", "skip"} /\ x.todo = todo
      /\ x.phase = "idle" => todo = {}
  BY ResumeBatch
<1>2. WellFormed(x)
  BY <1>1 DEF WellFormed, Handling, Recording
<1>3. \A e \in Events : e \in Holds(x) <=> e \in todo
  BY <1>1 DEF Holds, Handling
<1>4. \A e \in Events : event'[e].lock = b <=> e \in Holds(x)
  BY <1>3
<1> HIDE DEF x
<1>5. batch' = [batch EXCEPT ![b] = x]
  BY DEF x
<1>6. QED
  BY <1>2, <1>4, <1>5, BatchIs, BatchStep

LEMMA OtherBatchSteps ==
  ASSUME Safe, NEW b \in Batches,
         \/ ReadCandidates(b) \/ Claim(b) \/ Crash(b)
         \/ \E e \in Events : Begin(b, e) \/ Skip(b, e)
         \/ \E late \in BOOLEAN : Complete(b, late) \/ Fail(b, late) \/ WriteDeadLetter(b, late)
  PROVE  Safe'
<1> DEFINE y == batch[b]
<1>1. y \in Batch /\ batch \in [Batches -> Batch] /\ WellFormed(y) /\ y.todo \in SUBSET Events
      /\ event \in [Events -> EventRow] /\ celebration \in {"none", "approved", "reversed"}
      /\ points \in [Rules -> {"none", "given", "reversed"}] /\ faults \in 0..MaxFaults
  BY BatchIs DEF Safe, TypeOK, Batch
<1>2. \A e \in Events : event[e].lock = b <=> e \in Holds(y)
  BY BatchIs
<1>3. b # None /\ b # Ghost
  BY OutboxAssumption
<1>4. CASE ReadCandidates(b)
  <2> DEFINE claimable == {e \in Events : Claimable(e)}
             x == [Idle EXCEPT !.phase = "read", !.todo = claimable]
  <2>1. batch' = [batch EXCEPT ![b] = x] /\ y.phase = "idle" /\ UNCHANGED <<table, faults>>
    BY <1>4 DEF ReadCandidates
  <2>2. x \in Batch /\ x.phase = "read"
    BY DEF Idle, Batch, Phase
  <2>3. WellFormed(x) /\ Holds(x) = {} /\ Holds(y) = {}
    BY <2>1, <2>2 DEF WellFormed, Holds, Handling, Recording
  <2>4. \A e \in Events : event'[e].lock = b <=> e \in Holds(x)
    BY <2>1, <2>3, <1>2 DEF table
  <2> HIDE DEF x
  <2>5. QED
    BY <2>1, <2>3, <2>4, <1>1, BatchStep DEF table
<1>5. CASE Claim(b)
  <2> DEFINE taken == {e \in y.todo : Unlocked(e)}
  <2>1. y.phase = "read" /\ batch' = [batch EXCEPT ![b] = Resume(taken, FALSE)]
        /\ UNCHANGED <<deal, celebration, points, faults>>
    BY <1>5 DEF Claim
  <2>2. \A e \in Events : event'[e] = IF e \in taken
                                        THEN [event[e] EXCEPT !.status = "processing", !.lock = b]
                                        ELSE event[e]
    BY <1>5 DEF Claim
  <2>3. event' \in [Events -> EventRow]
    <3>1. \A e \in Events : [event[e] EXCEPT !.status = "processing", !.lock = b] \in EventRow
      BY <1>1 DEF EventRow, EventStatus
    <3>2. \A e \in Events : event'[e] \in EventRow
      BY <1>1, <2>2, <3>1
    <3>3. QED
      BY <3>2, <1>5 DEF Claim
  <2>4. \A e \in Events : event[e].lock # b
    BY <2>1, <1>2 DEF Holds, Handling
  <2>5. \A e \in taken : event'[e].lock = b /\ event[e].lock = None
    BY <1>1, <2>2 DEF EventRow, Unlocked
  <2>6. \A e \in Events \ taken : event'[e] = event[e]
    BY <2>2
  <2>7. taken \in SUBSET Events
    BY <1>1
  <2> HIDE DEF taken
  <2>8. \A e \in Events \ taken : event'[e].lock # b
    BY <2>4, <2>6
  <2>9. \A e \in Events : event'[e].lock # event[e].lock => event[e].lock = None /\ event'[e].lock = b
    BY <2>5, <2>6
  <2>10. QED
    BY <2>1, <2>3, <2>5, <2>7, <2>8, <2>9, LeavingStep
<1>6. CASE Crash(b)
  <2>1. batch' = [batch EXCEPT ![b] = Idle] /\ UNCHANGED <<deal, celebration, points>>
        /\ faults' = faults + 1 /\ faults < MaxFaults
    BY <1>6 DEF Crash
  <2>2. \A e \in Events : event'[e] = IF event[e].lock = b THEN [event[e] EXCEPT !.lock = Ghost]
                                                           ELSE event[e]
    BY <1>6 DEF Crash
  <2>3. event' \in [Events -> EventRow]
    BY <1>1, <1>6 DEF Crash, EventRow
  <2>4. \A e \in Events : event'[e].lock # b /\ (event'[e].lock # event[e].lock =>
                            event[e].lock = b /\ event'[e].lock = Ghost)
    BY <1>1, <1>3, <2>2 DEF EventRow
  <2>5. WellFormed(Idle) /\ Holds(Idle) = {}
    BY IdleBatch DEF WellFormed, Holds, Handling, Recording
  <2>6. faults' \in 0..MaxFaults
    BY <2>1, <1>1, OutboxAssumption
  <2>7. QED
    BY <2>1, <2>3, <2>4, <2>5, <2>6, <1>1, BatchStep
<1>7. ASSUME NEW e \in Events, Begin(b, e) PROVE Safe'
  <2> DEFINE x == [y EXCEPT !.phase = IF event[e].type = "won" THEN "look" ELSE "entries",
                            !.todo = @ \ {e}, !.event = e]
  <2>1. y.phase = "next" /\ e \in y.todo /\ UNCHANGED <<table, faults>>
    BY <1>7 DEF Begin
  <2>2. batch' = [batch EXCEPT ![b] = x]
    BY <1>7, <1>1 DEF Begin
  <2>3. x \in Batch /\ x.phase \in {"look", "entries"} /\ x.todo = y.todo \ {e} /\ x.event = e
    BY <1>1 DEF Batch, Phase, Handling
  <2>4. WellFormed(x)
    BY <2>3, <1>1 DEF WellFormed
  <2>5. \A f \in Events : f \in Holds(x) <=> f \in Holds(y)
    BY <2>1, <2>3 DEF Holds, Handling
  <2>6. \A f \in Events : event'[f].lock = b <=> f \in Holds(x)
    BY <2>1, <2>5, <1>2 DEF table
  <2> HIDE DEF x
  <2>7. QED
    BY <2>1, <2>2, <2>4, <2>6, <1>1, BatchStep DEF table
<1>8. ASSUME NEW e \in Events, Skip(b, e) PROVE Safe'
  <2>1. y.phase = "skip" /\ e \in y.todo /\ UNCHANGED <<deal, celebration, points, faults>>
        /\ event' = [event EXCEPT ![e].status = "pending", ![e].lock = None]
        /\ batch' = [batch EXCEPT ![b] = Resume(y.todo \ {e}, TRUE)]
    BY <1>8, <1>1 DEF Skip
  <2>2. LET row == [event[e] EXCEPT !.status = "pending", !.lock = None] IN
        row \in EventRow /\ row.lock = None /\ event' = [event EXCEPT ![e] = row]
    BY <1>1, <2>1 DEF EventRow, EventStatus
  <2>3. /\ event' \in [Events -> EventRow] /\ event'[e].lock = None
        /\ \A f \in Events \ {e} : event'[f] = event[f]
    BY <1>1, <2>2
  <2>4. \A f \in Events : event[f].lock = b <=> f \in y.todo
    BY <2>1, <1>2 DEF Holds, Handling
  <2> DEFINE left == y.todo \ {e}
  <2>5. left \in SUBSET Events /\ \A f \in left : event'[f].lock = b
    BY <1>1, <2>3, <2>4
  <2>6. \A f \in Events \ left : event'[f].lock # b
    BY <2>3, <2>4, <1>3
  <2>7. \A f \in Events : event'[f].lock # event[f].lock => event[f].lock = b /\ event'[f].lock = None
    BY <2>1, <2>3, <2>4
  <2>8. batch' = [batch EXCEPT ![b] = Resume(left, TRUE)]
    BY <2>1
  <2> HIDE DEF left
  <2>9. QED
    BY <2>1, <2>3, <2>5, <2>6, <2>7, <2>8, LeavingStep
<1>9. ASSUME NEW late \in BOOLEAN, Complete(b, late) PROVE Safe'
  <2>1. y.phase = "complete" /\ UNCHANGED <<deal, celebration, points, faults>>
        /\ event' = [event EXCEPT ![y.event].status = "processed", ![y.event].lock = None]
        /\ batch' = [batch EXCEPT ![b] = Resume(y.todo, late)]
    BY <1>9, <1>1 DEF Complete
  <2>2. y.event \in Events \ y.todo
    BY <2>1, <1>1 DEF WellFormed, Handling
  <2>3. /\ event' \in [Events -> EventRow] /\ event'[y.event].lock = None
        /\ \A f \in Events \ {y.event} : event'[f] = event[f]
    BY <1>1, <2>1, <2>2 DEF EventRow, EventStatus
  <2>4. \A f \in Events : event[f].lock = b <=> f \in y.todo \/ f = y.event
    BY <2>1, <1>2 DEF Holds, Handling
  <2>5. \A f \in y.todo : event'[f].lock = b
    BY <1>1, <2>2, <2>3, <2>4
  <2>6. \A f \in Events \ y.todo : event'[f].lock # b
    BY <2>3, <2>4, <1>3
  <2>7. \A f \in Events : event'[f].lock # event[f].lock => event[f].lock = b /\ event'[f].lock = None
    BY <2>2, <2>3, <2>4
  <2>8. QED
    BY <2>1, <2>3, <2>5, <2>6, <2>7, <1>1, LeavingStep
<1>10. ASSUME NEW late \in BOOLEAN, Fail(b, late) PROVE Safe'
  <2> DEFINE e == y.event
             n == event[e].attempts + 1
  <2>1. y.phase = "fail" /\ UNCHANGED <<deal, celebration, points, faults>>
        /\ event' = [event EXCEPT ![e].status = StatusAfter(n), ![e].attempts = n,
                                  ![e].lock = None, ![e].due = FALSE]
    BY <1>10 DEF Fail
  <2>2. e \in Events \ y.todo
    BY <2>1, <1>1 DEF WellFormed, Recording
  <2>3. event[e] \in EventRow /\ n \in Nat /\ StatusAfter(n) \in EventStatus
    BY <1>1, <2>2 DEF EventRow, StatusAfter, EventStatus
  <2>4. [event[e] EXCEPT !.status = StatusAfter(n), !.attempts = n, !.lock = None, !.due = FALSE] \in EventRow
    BY <2>3 DEF EventRow
  <2>5. /\ event' \in [Events -> EventRow]
        /\ \A f \in Events \ {e} : event'[f] = event[f]
    BY <1>1, <2>1, <2>2, <2>4
  <2>6. event'[e].lock = None
    BY <1>1, <2>1, <2>2 DEF EventRow
  <2>7. \A f \in Events : event[f].lock = b <=> f \in y.todo \/ f = e
    BY <2>1, <1>2 DEF Holds, Handling
  <2>8. CASE Exhausted(n)
    <3> DEFINE x == [y EXCEPT !.phase = "letter"]
    <3>1. batch' = [batch EXCEPT ![b] = x]
      BY <2>8, <1>10 DEF Fail, Goto
    <3>2. x \in Batch /\ x.phase = "letter" /\ x.todo = y.todo /\ x.event = e
      BY <1>1 DEF Batch, Phase, Recording
    <3>3. WellFormed(x)
      BY <3>2, <2>2 DEF WellFormed
    <3>4. \A f \in Events : f \in Holds(x) <=> f \in y.todo
      BY <3>2 DEF Holds, Handling
    <3>5. \A f \in Events : event'[f].lock = b <=> f \in Holds(x)
      BY <3>4, <2>2, <2>5, <2>6, <2>7, <1>3
    <3> HIDE DEF x
    <3>6. \A f \in Events : event'[f].lock # event[f].lock => event[f].lock = b /\ event'[f].lock = None
      BY <2>2, <2>5, <2>6, <2>7
    <3>7. QED
      BY <3>1, <3>3, <3>5, <3>6, <2>1, <2>5, <1>1, BatchIs, BatchStep
  <2>9. CASE ~Exhausted(n)
    <3>1. batch' = [batch EXCEPT ![b] = Resume(y.todo, late)]
      BY <2>9, <1>10, <1>1 DEF Fail
    <3>2. \A f \in y.todo : event'[f].lock = b
      BY <2>2, <2>5, <2>7, <1>1
    <3>3. \A f \in Events \ y.todo : event'[f].lock # b
      BY <2>2, <2>5, <2>6, <2>7, <1>3
    <3>4. \A f \in Events : event'[f].lock # event[f].lock => event[f].lock = b /\ event'[f].lock = None
      BY <2>2, <2>5, <2>6, <2>7
    <3>5. QED
      BY <3>1, <3>2, <3>3, <3>4, <2>1, <2>5, <1>1, LeavingStep
  <2>10. QED
    BY <2>8, <2>9
<1>11. ASSUME NEW late \in BOOLEAN, WriteDeadLetter(b, late) PROVE Safe'
  <2>1. y.phase = "letter" /\ UNCHANGED <<deal, celebration, points, faults>>
        /\ event' = [event EXCEPT ![y.event].letter = TRUE]
        /\ batch' = [batch EXCEPT ![b] = Resume(y.todo, late)]
    BY <1>11, <1>1 DEF WriteDeadLetter
  <2>2. y.event \in Events
    BY <2>1, <1>1 DEF WellFormed, Recording
  <2>3. event[y.event] \in EventRow
    BY <1>1, <2>2
  <2>4. /\ [event[y.event] EXCEPT !.letter = TRUE] \in EventRow
        /\ [event[y.event] EXCEPT !.letter = TRUE].lock = event[y.event].lock
    BY <2>3 DEF EventRow
  <2>5. event' = [event EXCEPT ![y.event] = [event[y.event] EXCEPT !.letter = TRUE]]
    BY <2>1
  <2>6. event' \in [Events -> EventRow] /\ \A f \in Events : event'[f].lock = event[f].lock
    BY <1>1, <2>2, <2>4, <2>5
  <2>7. \A f \in Events : event[f].lock = b <=> f \in y.todo
    BY <2>1, <1>2 DEF Holds, Handling
  <2>8. /\ \A f \in y.todo : event'[f].lock = b
        /\ \A f \in Events \ y.todo : event'[f].lock # b
    BY <1>1, <2>6, <2>7
  <2>9. QED
    BY <2>1, <2>6, <2>8, <1>1, LeavingStep
<1>12. QED
  BY <1>4, <1>5, <1>6, <1>7, <1>8, <1>9, <1>10, <1>11

LEMMA SafeKept == ASSUME Safe, [Next]_vars PROVE Safe'
<1>1. CASE UNCHANGED vars
  <2>1. UNCHANGED <<deal, event, batch, celebration, points, faults>>
    BY <1>1 DEF vars, table
  <2>2. \A b \in Batches : Held(b)' = Held(b)
    BY <2>1 DEF Held
  <2>3. QED
    BY <2>1, <2>2 DEF Safe, TypeOK, HandledByOne
<1>2. CASE Next
  BY <1>2, TableSteps, HandlerSteps, OtherBatchSteps DEF Next, Work
<1>3. QED
  BY <1>1, <1>2

-----------------------------------------------------------------------------
(* Deliveries: a handler that comes to completeEvent has published.        *)

Published ==
  /\ Delivered
  /\ \A b \in Batches : batch[b].phase = "complete" => event[batch[b].event].delivered

(* A step takes no delivery away, brings only a batch that publishes to    *)
(* the end of a handler, and makes processed only what is at its end.      *)
LEMMA PublishedStep ==
  ASSUME Safe, Safe', Published,
         \A e \in Events : event[e].delivered => event'[e].delivered,
         \A e \in Events : event'[e].status = "processed" =>
           \/ event[e].status = "processed"
           \/ event[e].delivered,
         \A b \in Batches : batch'[b].phase = "complete" =>
           \/ batch[b].phase = "complete" /\ batch'[b].event = batch[b].event
           \/ event'[batch'[b].event].delivered
  PROVE  Published'
<1>1. Delivered'
  BY DEF Published, Delivered
<1>2. ASSUME NEW b \in Batches, batch'[b].phase = "complete"
      PROVE  event'[batch'[b].event].delivered
  <2>1. batch'[b].event \in Events
    BY <1>2 DEF Safe, TypeOK, Handling
  <2>2. QED
    BY <1>2, <2>1 DEF Published
<1>3. QED
  BY <1>1, <1>2 DEF Published

LEMMA PublishedKept == ASSUME Safe, Published, [Next]_vars PROVE Published'
<1>1. Safe'
  BY SafeKept
<1>2. event \in [Events -> EventRow] /\ batch \in [Batches -> Batch]
  BY DEF Safe, TypeOK
<1>3. CASE \/ WinDeal \/ CancelDeal
           \/ \E e \in Events : LeaseEnds(e) \/ BecomesDue(e)
           \/ UNCHANGED vars
  <2>1. UNCHANGED batch
    BY <1>3 DEF WinDeal, CancelDeal, Emit, LeaseEnds, BecomesDue, vars
  <2>2. \A e \in Events : /\ event'[e].delivered = event[e].delivered
                          /\ event'[e].status = "processed" => event[e].status = "processed"
    BY <1>2, <1>3 DEF WinDeal, CancelDeal, Emit, LeaseEnds, BecomesDue, vars, table, EventRow
  <2>3. QED
    BY <1>1, <2>1, <2>2, PublishedStep
<1>4. ASSUME NEW b \in Batches, Publish(b) PROVE Published'
  <2>1. batch[b].event \in Events /\ batch[b].phase = "publish"
    BY <1>4 DEF Safe, TypeOK, Publish, Handling
  <2>2. event' = [event EXCEPT ![batch[b].event].delivered = TRUE]
    BY <1>4 DEF Publish
  <2>3. \A e \in Events : /\ event[e].delivered => event'[e].delivered
                          /\ event'[e].status = event[e].status
    BY <1>2, <2>1, <2>2 DEF EventRow
  <2>4. event'[batch[b].event].delivered
    BY <1>2, <2>1, <2>2 DEF EventRow
  <2>5. \A c \in Batches : batch'[c].event = batch[c].event /\ (c # b => batch'[c] = batch[c])
    BY <1>2, <1>4 DEF Publish, Goto, Batch
  <2>6. QED
    BY <1>1, <2>3, <2>4, <2>5, PublishedStep
<1>5. ASSUME NEW b \in Batches, NEW late \in BOOLEAN, Complete(b, late) PROVE Published'
  <2>1. batch[b].event \in Events /\ batch[b].phase = "complete" /\ event[batch[b].event].delivered
    BY <1>5 DEF Safe, TypeOK, Complete, Handling, Published
  <2>2. event' = [event EXCEPT ![batch[b].event].status = "processed", ![batch[b].event].lock = None]
    BY <1>5 DEF Complete
  <2>3. \A e \in Events : /\ event'[e].delivered = event[e].delivered
                          /\ e # batch[b].event => event'[e].status = event[e].status
    BY <1>2, <2>1, <2>2 DEF EventRow
  <2>4. \A c \in Batches : batch'[c].phase = "complete" => batch'[c] = batch[c]
    BY <1>2, <1>5 DEF Complete, Resume, Idle
  <2>5. QED
    BY <1>1, <2>1, <2>3, <2>4, PublishedStep
<1>6. ASSUME UNCHANGED event,
             NEW b \in Batches, NEW x, batch' = [batch EXCEPT ![b] = x], x.phase # "complete"
      PROVE  Published'
  <2>1. \A c \in Batches : batch'[c].phase = "complete" => batch'[c] = batch[c]
    BY <1>2, <1>6
  <2>2. QED
    BY <1>1, <1>6, <2>1, PublishedStep
<1>7. ASSUME NEW b \in Batches, NEW e \in Events, Begin(b, e) PROVE Published'
  <2> DEFINE x == [batch[b] EXCEPT !.phase = IF event[e].type = "won" THEN "look" ELSE "entries",
                                   !.todo = @ \ {e}, !.event = e]
  <2>1. batch' = [batch EXCEPT ![b] = x] /\ UNCHANGED event
    BY <1>7, <1>2 DEF Begin, table
  <2>2. x.phase # "complete"
    BY <1>2 DEF Batch
  <2> HIDE DEF x
  <2>3. QED
    BY <2>1, <2>2, <1>6
<1>8. ASSUME NEW b \in Batches, ReadCandidates(b) PROVE Published'
  <2> DEFINE x == [Idle EXCEPT !.phase = "read", !.todo = {e \in Events : Claimable(e)}]
  <2>1. batch' = [batch EXCEPT ![b] = x] /\ UNCHANGED event
    BY <1>8 DEF ReadCandidates, table
  <2>2. x.phase # "complete"
    BY DEF Idle
  <2> HIDE DEF x
  <2>3. QED
    BY <2>1, <2>2, <1>6
<1>9. ASSUME NEW b \in Batches, NEW x, batch' = [batch EXCEPT ![b] = x], x.phase # "complete",
             NEW S \in SUBSET Events,
             \A e \in Events \ S : event'[e] = event[e],
             \A e \in S : /\ event[e].delivered => event'[e].delivered
                          /\ event'[e].status # "processed" \/ event'[e].status = event[e].status
      PROVE  Published'
  <2>1. \A c \in Batches : batch'[c].phase = "complete" => batch'[c] = batch[c]
    BY <1>2, <1>9
  <2>2. QED
    BY <1>1, <1>9, <2>1, PublishedStep
<1>10. ASSUME NEW b \in Batches, NEW e \in Events, Skip(b, e) PROVE Published'
  <2>1. event' = [event EXCEPT ![e].status = "pending", ![e].lock = None]
        /\ batch' = [batch EXCEPT ![b] = Resume(batch[b].todo \ {e}, TRUE)]
    BY <1>10, <1>2 DEF Skip
  <2>2. /\ event[e].delivered => event'[e].delivered
        /\ event'[e].status = "pending"
    BY <1>2, <2>1 DEF EventRow
  <2>3. \A f \in Events \ {e} : event'[f] = event[f]
    BY <1>2, <2>1
  <2>4. Resume(batch[b].todo \ {e}, TRUE).phase # "complete"
    BY DEF Resume, Idle
  <2>5. QED
    BY <2>1, <2>2, <2>3, <2>4, <1>9
<1>11. ASSUME NEW b \in Batches, Claim(b) PROVE Published'
  <2> DEFINE taken == {e \in batch[b].todo : Unlocked(e)}
  <2>1. batch' = [batch EXCEPT ![b] = Resume(taken, FALSE)] /\ taken \in SUBSET Events
    BY <1>2, <1>11 DEF Claim, Batch
  <2>2. \A e \in Events : event'[e] = IF e \in taken
                                        THEN [event[e] EXCEPT !.status = "processing", !.lock = b]
                                        ELSE event[e]
    BY <1>11 DEF Claim
  <2>3. Resume(taken, FALSE).phase # "complete"
    BY DEF Resume, Idle
  <2> HIDE DEF taken
  <2>4. \A e \in taken : /\ event[e].delivered => event'[e].delivered
                         /\ event'[e].status = "processing"
    BY <1>2, <2>1, <2>2 DEF EventRow
  <2>5. QED
    BY <2>1, <2>2, <2>3, <2>4, <1>9
<1>12. ASSUME NEW b \in Batches, Crash(b) PROVE Published'
  <2> DEFINE mine == {e \in Events : event[e].lock = b}
  <2>1. batch' = [batch EXCEPT ![b] = Idle] /\ Idle.phase # "complete"
    BY <1>12 DEF Crash, Idle
  <2>2. \A e \in Events : event'[e] = IF event[e].lock = b THEN [event[e] EXCEPT !.lock = Ghost]
                                                           ELSE event[e]
    BY <1>12 DEF Crash
  <2>3. \A e \in mine : /\ event[e].delivered => event'[e].delivered
                        /\ event'[e].status = event[e].status
    BY <1>2, <2>2 DEF EventRow
  <2>4. \A e \in Events \ mine : event'[e] = event[e]
    BY <2>2
  <2> HIDE DEF mine
  <2>5. mine \in SUBSET Events
    BY DEF mine
  <2>6. QED
    BY <2>1, <2>3, <2>4, <2>5, <1>9
<1>13. ASSUME NEW b \in Batches, NEW late \in BOOLEAN, Fail(b, late) PROVE Published'
  <2> DEFINE e == batch[b].event
             n == event[e].attempts + 1
  <2>1. e \in Events
    BY <1>13 DEF Safe, TypeOK, Fail, Recording
  <2>2. event' = [event EXCEPT ![e].status = StatusAfter(n), ![e].attempts = n,
                               ![e].lock = None, ![e].due = FALSE]
    BY <1>13 DEF Fail
  <2>3. event'[e].status = StatusAfter(n) /\ StatusAfter(n) # "processed"
    BY <1>2, <2>1, <2>2 DEF EventRow, StatusAfter
  <2>4. event[e].delivered => event'[e].delivered
    BY <1>2, <2>1, <2>2 DEF EventRow
  <2>5. \A f \in Events \ {e} : event'[f] = event[f]
    BY <1>2, <2>2
  <2>6. \E x : batch' = [batch EXCEPT ![b] = x] /\ x.phase # "complete"
    <3>1. CASE Exhausted(n)
      <4>1. batch' = [batch EXCEPT ![b] = [batch[b] EXCEPT !.phase = "letter"]]
        BY <3>1, <1>13 DEF Fail, Goto
      <4>2. [batch[b] EXCEPT !.phase = "letter"].phase = "letter"
        BY <1>2 DEF Batch
      <4>3. QED
        BY <4>1, <4>2
    <3>2. CASE ~Exhausted(n)
      <4>1. batch' = [batch EXCEPT ![b] = Resume(batch[b].todo, late)]
        BY <3>2, <1>13, <1>2 DEF Fail
      <4>2. Resume(batch[b].todo, late).phase # "complete"
        BY DEF Resume, Idle
      <4>3. QED
        BY <4>1, <4>2
    <3>3. QED
      BY <3>1, <3>2
  <2>7. QED
    BY <2>1, <2>3, <2>4, <2>5, <2>6, <1>9
<1>14. ASSUME NEW b \in Batches, NEW late \in BOOLEAN, WriteDeadLetter(b, late) PROVE Published'
  <2> DEFINE e == batch[b].event
  <2>1. e \in Events
    BY <1>14 DEF Safe, TypeOK, WriteDeadLetter, Recording
  <2>2. event' = [event EXCEPT ![e].letter = TRUE]
        /\ batch' = [batch EXCEPT ![b] = Resume(batch[b].todo, late)]
    BY <1>14, <1>2 DEF WriteDeadLetter
  <2>3. /\ event[e].delivered => event'[e].delivered
        /\ event'[e].status = event[e].status
    BY <1>2, <2>1, <2>2 DEF EventRow
  <2>4. \A f \in Events \ {e} : event'[f] = event[f]
    BY <1>2, <2>2
  <2>5. Resume(batch[b].todo, late).phase # "complete"
    BY DEF Resume, Idle
  <2>6. QED
    BY <2>1, <2>2, <2>3, <2>4, <2>5, <1>9
<1>15. ASSUME NEW b \in Batches,
              \/ Look(b) \/ Celebrate(b) \/ ReadEntries(b) \/ Negate(b) \/ MarkCelebration(b)
              \/ \E r \in Rules : Award(b, r) \/ CheckEntry(b, r)
              \/ Throw(b)
       PROVE  Published'
  <2>1. UNCHANGED event
    BY <1>15 DEF Look, Celebrate, ReadEntries, Negate, MarkCelebration, Award, CheckEntry, Throw, table
  <2>2. \A c \in Batches \ {b} : batch'[c] = batch[c]
    BY <1>2, <1>15 DEF Look, Celebrate, ReadEntries, Negate, MarkCelebration, Award, CheckEntry, Throw,
                       Goto, Further
  <2>3. batch[b] \in Batch
    BY <1>2
  <2>4. (Look(b) \/ MarkCelebration(b) \/ Throw(b)) => batch'[b].phase # "complete"
    BY <1>2, <2>3 DEF Look, MarkCelebration, Throw, Goto, Batch
  <2>5. Celebrate(b) => batch'[b].phase # "complete"
    BY <1>2, <2>3 DEF Celebrate, Goto, Batch
  <2>6. ReadEntries(b) => batch'[b].phase # "complete"
    BY <1>2, <2>3 DEF ReadEntries, Batch
  <2> DEFINE further(r) == [batch[b] EXCEPT !.phase = IF batch[b].rules = {r} THEN "mark" ELSE "check",
                                            !.rules = @ \ {r}, !.rule = None]
  <2>7. ASSUME NEW r, Further(b, r) PROVE batch'[b].phase # "complete"
    <3>1. batch' = [batch EXCEPT ![b] = further(r)]
      BY <2>7, <1>2 DEF Further
    <3>2. further(r).phase \in {"mark", "check"}
      BY <2>3 DEF Batch
    <3>3. QED
      BY <3>1, <3>2, <1>2
  <2>8. ASSUME NEW r, Award(b, r) \/ CheckEntry(b, r) \/ Negate(b)
        PROVE  batch'[b].phase # "complete"
    <3>1. CASE Award(b, r)
      BY <1>2, <2>3, <3>1 DEF Award, Batch
    <3>2. CASE CheckEntry(b, r)
      <4>1. CASE points[r] = "reversed"
        BY <4>1, <3>2, <2>7 DEF CheckEntry
      <4>2. CASE points[r] # "reversed"
        BY <4>2, <1>2, <2>3, <3>2 DEF CheckEntry, Batch
      <4>3. QED
        BY <4>1, <4>2
    <3>3. CASE Negate(b)
      <4>1. CASE Goto(b, "fail")
        BY <4>1, <1>2, <2>3 DEF Goto, Batch
      <4>2. CASE Further(b, batch[b].rule)
        BY <4>2, <2>7
      <4>3. QED
        BY <4>1, <4>2, <3>3 DEF Negate
    <3>4. QED
      BY <2>8, <3>1, <3>2, <3>3
  <2>9. batch'[b].phase # "complete"
    BY <1>15, <2>4, <2>5, <2>6, <2>7, <2>8
  <2>10. QED
    BY <1>1, <2>1, <2>2, <2>9, PublishedStep
<1>16. QED
  BY <1>3, <1>4, <1>5, <1>7, <1>8, <1>10, <1>11, <1>12, <1>13, <1>14, <1>15 DEF Next, Work

-----------------------------------------------------------------------------
(* What each step does, field by field *)

Others(b) == \A c \in Batches \ {b} : batch'[c] = batch[c]
Stays(b) == batch'[b].todo = batch[b].todo /\ batch'[b].event = batch[b].event
Row(e) == /\ event'[e].type = event[e].type /\ event'[e].status = event[e].status
          /\ event'[e].attempts = event[e].attempts /\ event'[e].lock = event[e].lock

LEMMA StateIs ==
  ASSUME Safe, NEW b \in Batches
  PROVE  /\ batch \in [Batches -> Batch] /\ batch[b] \in Batch /\ event \in [Events -> EventRow]
         /\ points \in [Rules -> {"none", "given", "reversed"}]
BY DEF Safe, TypeOK

LEMMA GotoDoes ==
  ASSUME Safe, NEW b \in Batches, NEW p, Goto(b, p)
  PROVE  /\ Others(b) /\ Stays(b) /\ batch'[b].phase = p
         /\ batch'[b].rules = batch[b].rules /\ batch'[b].rule = batch[b].rule
BY StateIs DEF Goto, Others, Stays, Batch

LEMMA FurtherDoes ==
  ASSUME Safe, NEW b \in Batches, NEW r, Further(b, r)
  PROVE  /\ Others(b) /\ Stays(b) /\ batch'[b].rules = batch[b].rules \ {r}
         /\ batch'[b].phase = IF batch[b].rules = {r} THEN "mark" ELSE "check"
BY StateIs DEF Further, Others, Stays, Batch

LEMMA ResumeDoes ==
  ASSUME Safe, NEW b \in Batches, NEW todo, NEW late \in BOOLEAN,
         batch' = [batch EXCEPT ![b] = Resume(todo, late)]
  PROVE  /\ Others(b) /\ batch'[b].todo = todo /\ batch'[b].event = None
         /\ batch'[b].phase \in {"idle", "next", "skip"}
BY StateIs DEF Resume, Idle, Others, Batch

LEMMA EmitDoes ==
  ASSUME Safe, Emitted = 1..Cardinality(Emitted), NEW type \in {"won", "cancelled"}, Emit(type)
  PROVE  /\ UNCHANGED <<batch, celebration, points, faults>>
         /\ \E n \in Events \ Emitted :
              /\ event'[n].type = type /\ event'[n].status = "pending"
              /\ event'[n].attempts = event[n].attempts /\ event'[n].lock = event[n].lock
              /\ \A e \in Events \ {n} : event'[e] = event[e]
         /\ Emitted' = 1..Cardinality(Emitted')
<1> DEFINE n == Cardinality(Emitted) + 1
<1>1. n \in Events /\ UNCHANGED <<batch, celebration, points, faults>>
  BY DEF Emit
<1>2. event' = [event EXCEPT ![n].type = type, ![n].status = "pending", ![n].due = TRUE]
  BY DEF Emit
<1>3. event \in [Events -> EventRow]
  BY DEF Safe, TypeOK
<1>4. IsFiniteSet(Emitted) /\ Cardinality(Emitted) \in Nat
  <2>1. IsFiniteSet(Events)
    BY OutboxAssumption, FS_Interval DEF Events
  <2>2. QED
    BY <2>1, FS_Subset, FS_CardinalityType DEF Emitted
<1> HIDE DEF n
<1>5. n \notin Emitted
  BY <1>4 DEF n
<1>6. /\ event'[n].type = type /\ event'[n].status = "pending"
      /\ event'[n].attempts = event[n].attempts /\ event'[n].lock = event[n].lock
      /\ \A e \in Events \ {n} : event'[e] = event[e]
  BY <1>1, <1>2, <1>3 DEF EventRow
<1>7. Emitted' = Emitted \cup {n}
  BY <1>1, <1>6 DEF Emitted
<1>8. Emitted' = 1..n
  BY <1>4, <1>7 DEF n
<1>9. Cardinality(Emitted') = n
  BY <1>4, <1>5, <1>7, FS_AddElement DEF n
<1>10. QED
  BY <1>1, <1>5, <1>6, <1>8, <1>9

LEMMA ReadCandidatesDoes ==
  ASSUME Safe, NEW b \in Batches, ReadCandidates(b)
  PROVE  /\ Others(b) /\ UNCHANGED <<table, faults>>
         /\ batch'[b].phase = "read" /\ batch'[b].event = None
         /\ batch'[b].todo = {e \in Events : Claimable(e)}
BY StateIs DEF ReadCandidates, Others, Idle, Batch

LEMMA ClaimDoes ==
  ASSUME Safe, NEW b \in Batches, Claim(b)
  PROVE  /\ Others(b) /\ UNCHANGED <<deal, celebration, points, faults>> /\ batch[b].phase = "read"
         /\ batch'[b].phase \in {"idle", "next"} /\ batch'[b].event = None
         /\ batch'[b].todo = {e \in batch[b].todo : event[e].lock = None}
         /\ \A e \in batch'[b].todo :
              /\ event'[e].type = event[e].type /\ event'[e].attempts = event[e].attempts
              /\ event'[e].status = "processing" /\ event'[e].lock = b
         /\ \A e \in Events \ batch'[b].todo : event'[e] = event[e]
<1> DEFINE taken == {e \in batch[b].todo : Unlocked(e)}
<1>1. taken \subseteq Events /\ taken = {e \in batch[b].todo : event[e].lock = None}
  BY StateIs DEF Batch, Unlocked
<1>2. event' = [e \in Events |-> IF e \in taken
                                   THEN [event[e] EXCEPT !.status = "processing", !.lock = b]
                                   ELSE event[e]]
  BY DEF Claim
<1>3. batch'[b].todo = taken
  BY ResumeDoes DEF Claim
<1>4. \A e \in taken : /\ event'[e].type = event[e].type /\ event'[e].attempts = event[e].attempts
                       /\ event'[e].status = "processing" /\ event'[e].lock = b
  BY <1>1, <1>2, StateIs DEF EventRow
<1>5. \A e \in Events \ taken : event'[e] = event[e]
  BY <1>2
<1>6. Others(b) /\ batch'[b].phase \in {"idle", "next"} /\ batch'[b].event = None
  BY StateIs DEF Claim, Resume, Idle, Others
<1>7. QED
  BY <1>1, <1>3, <1>4, <1>5, <1>6 DEF Claim

LEMMA BeginDoes ==
  ASSUME Safe, NEW b \in Batches, NEW e \in Events, Begin(b, e)
  PROVE  /\ Others(b) /\ UNCHANGED <<table, faults>> /\ e \in batch[b].todo /\ batch[b].phase = "next"
         /\ batch'[b].todo = batch[b].todo \ {e} /\ batch'[b].event = e
         /\ batch'[b].phase = IF event[e].type = "won" THEN "look" ELSE "entries"
BY StateIs DEF Begin, Others, Batch

LEMMA PublishDoes ==
  ASSUME Safe, NEW b \in Batches, Publish(b)
  PROVE  /\ Others(b) /\ Stays(b) /\ UNCHANGED <<deal, celebration, points, faults>>
         /\ batch[b].phase = "publish" /\ batch'[b].phase = "complete"
         /\ \A e \in Events : Row(e)
<1>1. event' = [event EXCEPT ![batch[b].event].delivered = TRUE] /\ Goto(b, "complete")
  BY DEF Publish
<1>2. \A e \in Events : Row(e)
  BY <1>1, StateIs DEF EventRow, Row
<1>3. QED
  BY <1>1, <1>2, GotoDoes DEF Publish

LEMMA CompleteDoes ==
  ASSUME Safe, NEW b \in Batches, NEW late \in BOOLEAN, Complete(b, late)
  PROVE  /\ Others(b) /\ UNCHANGED <<deal, celebration, points, faults>>
         /\ batch[b].phase = "complete" /\ batch[b].event \in Events
         /\ batch'[b].todo = batch[b].todo /\ batch'[b].event = None
         /\ batch'[b].phase \in {"idle", "next", "skip"}
         /\ LET e == batch[b].event IN
              /\ event'[e].type = event[e].type /\ event'[e].attempts = event[e].attempts
              /\ event'[e].status = "processed" /\ event'[e].lock = None
              /\ \A f \in Events \ {e} : event'[f] = event[f]
<1> DEFINE e == batch[b].event
<1>1. e \in Events
  BY DEF Safe, TypeOK, Complete, Handling
<1>2. event' = [event EXCEPT ![e].status = "processed", ![e].lock = None]
      /\ batch' = [batch EXCEPT ![b] = Resume(batch[b].todo, late)]
  BY StateIs DEF Complete
<1> HIDE DEF e
<1>3. /\ event'[e].type = event[e].type /\ event'[e].attempts = event[e].attempts
      /\ event'[e].status = "processed" /\ event'[e].lock = None
      /\ \A f \in Events \ {e} : event'[f] = event[f]
  BY <1>1, <1>2, StateIs DEF EventRow
<1> USE DEF e
<1>4. /\ Others(b) /\ batch'[b].todo = batch[b].todo /\ batch'[b].event = None
      /\ batch'[b].phase \in {"idle", "next", "skip"}
  BY <1>2, ResumeDoes
<1>5. QED
  BY <1>1, <1>3, <1>4 DEF Complete

LEMMA FailDoes ==
  ASSUME Safe, NEW b \in Batches, NEW late \in BOOLEAN, Fail(b, late)
  PROVE  /\ Others(b) /\ UNCHANGED <<deal, celebration, points, faults>>
         /\ batch[b].phase = "fail" /\ batch[b].event \in Events
         /\ batch'[b].todo = batch[b].todo /\ batch'[b].event \in {batch[b].event, None}
         /\ batch'[b].phase \in {"idle", "next", "skip", "letter"}
         /\ LET e == batch[b].event IN
              /\ event'[e].type = event[e].type /\ event'[e].attempts = event[e].attempts + 1
              /\ event'[e].status \in {"dead", "pending"} /\ event'[e].lock = None
              /\ \A f \in Events \ {e} : event'[f] = event[f]
<1> DEFINE e == batch[b].event
           n == event[e].attempts + 1
<1>1. e \in Events
  BY DEF Safe, TypeOK, Fail, Recording
<1>2. event' = [event EXCEPT ![e].status = StatusAfter(n), ![e].attempts = n,
                             ![e].lock = None, ![e].due = FALSE]
  BY DEF Fail
<1>3. StatusAfter(n) \in {"dead", "pending"}
  BY DEF StatusAfter
<1> HIDE DEF e, n
<1>4. /\ event'[e].type = event[e].type /\ event'[e].attempts = n
      /\ event'[e].status \in {"dead", "pending"} /\ event'[e].lock = None
      /\ \A f \in Events \ {e} : event'[f] = event[f]
  BY <1>1, <1>2, <1>3, StateIs DEF EventRow
<1> USE DEF e, n
<1>5. \/ Goto(b, "letter")
      \/ batch' = [batch EXCEPT ![b] = Resume(batch[b].todo, late)]
  BY StateIs DEF Fail
<1>6. /\ Others(b) /\ batch'[b].todo = batch[b].todo /\ batch'[b].event \in {batch[b].event, None}
      /\ batch'[b].phase \in {"idle", "next", "skip", "letter"}
  BY <1>5, GotoDoes, ResumeDoes DEF Stays
<1>7. QED
  BY <1>1, <1>4, <1>6 DEF Fail

LEMMA WriteDeadLetterDoes ==
  ASSUME Safe, NEW b \in Batches, NEW late \in BOOLEAN, WriteDeadLetter(b, late)
  PROVE  /\ Others(b) /\ UNCHANGED <<deal, celebration, points, faults>>
         /\ batch[b].phase = "letter"
         /\ batch'[b].todo = batch[b].todo /\ batch'[b].event = None
         /\ batch'[b].phase \in {"idle", "next", "skip"}
         /\ \A e \in Events : Row(e)
<1>1. event' = [event EXCEPT ![batch[b].event].letter = TRUE]
      /\ batch' = [batch EXCEPT ![b] = Resume(batch[b].todo, late)]
  BY StateIs DEF WriteDeadLetter
<1>2. \A e \in Events : Row(e)
  BY <1>1, StateIs DEF EventRow, Row
<1>3. QED
  BY <1>1, <1>2, ResumeDoes DEF WriteDeadLetter

LEMMA SkipDoes ==
  ASSUME Safe, NEW b \in Batches, NEW e \in Events, Skip(b, e)
  PROVE  /\ Others(b) /\ UNCHANGED <<deal, celebration, points, faults>>
         /\ batch[b].phase = "skip" /\ e \in batch[b].todo
         /\ batch'[b].todo = batch[b].todo \ {e} /\ batch'[b].event = None
         /\ batch'[b].phase \in {"idle", "next", "skip"}
         /\ event'[e].type = event[e].type /\ event'[e].attempts = event[e].attempts
         /\ event'[e].status = "pending" /\ event'[e].lock = None
         /\ \A f \in Events \ {e} : event'[f] = event[f]
<1>1. event' = [event EXCEPT ![e].status = "pending", ![e].lock = None]
      /\ batch' = [batch EXCEPT ![b] = Resume(batch[b].todo \ {e}, TRUE)]
  BY StateIs DEF Skip
<1>2. /\ event'[e].type = event[e].type /\ event'[e].attempts = event[e].attempts
      /\ event'[e].status = "pending" /\ event'[e].lock = None
      /\ \A f \in Events \ {e} : event'[f] = event[f]
  BY <1>1, StateIs DEF EventRow
<1>3. QED
  BY <1>1, <1>2, ResumeDoes DEF Skip

LEMMA CrashDoes ==
  ASSUME Safe, NEW b \in Batches, Crash(b)
  PROVE  /\ Others(b) /\ UNCHANGED <<deal, celebration, points>>
         /\ batch'[b].phase = "idle" /\ batch'[b].todo = {} /\ batch'[b].event = None
         /\ \A e \in Events :
              /\ event'[e].type = event[e].type /\ event'[e].attempts = event[e].attempts
              /\ event'[e].status = event[e].status
              /\ event'[e].lock = IF event[e].lock = b THEN Ghost ELSE event[e].lock
<1>1. /\ event' = [e \in Events |-> IF event[e].lock = b THEN [event[e] EXCEPT !.lock = Ghost]
                                                        ELSE event[e]]
      /\ batch' = [batch EXCEPT ![b] = Idle]
  BY DEF Crash
<1>2. \A e \in Events :
        /\ event'[e].type = event[e].type /\ event'[e].attempts = event[e].attempts
        /\ event'[e].status = event[e].status
        /\ event'[e].lock = IF event[e].lock = b THEN Ghost ELSE event[e].lock
  BY <1>1, StateIs DEF EventRow
<1>3. QED
  BY <1>1, <1>2, StateIs DEF Crash, Others, Idle

LEMMA LeaseEndsDoes ==
  ASSUME Safe, NEW e \in Events, LeaseEnds(e)
  PROVE  /\ UNCHANGED <<deal, batch, celebration, points, faults>> /\ event[e].lock = Ghost
         /\ event'[e].type = event[e].type /\ event'[e].attempts = event[e].attempts
         /\ event'[e].status = event[e].status /\ event'[e].lock = None
         /\ \A f \in Events \ {e} : event'[f] = event[f]
BY DEF LeaseEnds, Safe, TypeOK, EventRow

LEMMA BecomesDueDoes ==
  ASSUME Safe, NEW e \in Events, BecomesDue(e)
  PROVE  UNCHANGED <<deal, batch, celebration, points, faults>> /\ \A f \in Events : Row(f)
<1>1. event' = [event EXCEPT ![e].due = TRUE] /\ event \in [Events -> EventRow]
  BY DEF BecomesDue, Safe, TypeOK
<1>2. QED
  BY <1>1 DEF BecomesDue, EventRow, Row

(* A statement of a handler but the last keeps the rows as they are.       *)
Statement(b) ==
  \/ Look(b) \/ Celebrate(b) \/ ReadEntries(b) \/ Negate(b) \/ MarkCelebration(b)
  \/ \E r \in Rules : Award(b, r) \/ CheckEntry(b, r)
  \/ Throw(b)

LEMMA StatementDoes ==
  ASSUME Safe, NEW b \in Batches, Statement(b)
  PROVE  /\ Others(b) /\ Stays(b) /\ UNCHANGED <<deal, event>>
         /\ batch[b].phase \in Handling /\ batch[b].event \in Events
<1>1. batch[b].phase \in Handling /\ UNCHANGED <<deal, event>>
  BY DEF Statement, Look, Celebrate, ReadEntries, Negate, MarkCelebration, Award, CheckEntry, Throw,
         table, Handling
<1>2. batch[b].event \in Events
  BY <1>1 DEF Safe, TypeOK
<1>3. Others(b) /\ Stays(b)
  <2>1. CASE Look(b) \/ MarkCelebration(b) \/ Throw(b) \/ Negate(b)
    BY <2>1, GotoDoes, FurtherDoes DEF Look, MarkCelebration, Throw, Negate
  <2>2. CASE Celebrate(b)
    <3>1. CASE celebration = "none"
      BY <2>2, <3>1, StateIs DEF Celebrate, Others, Stays, Batch
    <3>2. CASE celebration # "none"
      BY <2>2, <3>2, GotoDoes DEF Celebrate
    <3>3. QED
      BY <3>1, <3>2
  <2>3. CASE ReadEntries(b)
    BY <2>3, StateIs DEF ReadEntries, Others, Stays, Batch
  <2>4. ASSUME NEW r \in Rules, Award(b, r) PROVE Others(b) /\ Stays(b)
    BY <2>4, StateIs DEF Award, Others, Stays, Batch
  <2>5. ASSUME NEW r \in Rules, CheckEntry(b, r) PROVE Others(b) /\ Stays(b)
    <3>1. CASE points[r] = "reversed"
      BY <2>5, <3>1, FurtherDoes DEF CheckEntry
    <3>2. CASE points[r] # "reversed"
      BY <2>5, <3>2, StateIs DEF CheckEntry, Others, Stays, Batch
    <3>3. QED
      BY <3>1, <3>2
  <2>6. QED
    BY <2>1, <2>2, <2>3, <2>4, <2>5 DEF Statement
<1>4. QED
  BY <1>1, <1>2, <1>3

LEMMA StatementPhases ==
  ASSUME Safe, NEW b \in Batches, Statement(b)
  PROVE  /\ batch'[b].phase \in {"look", "celebrate", "award"} =>
              batch[b].phase \in {"look", "celebrate", "award"}
         /\ batch'[b].phase \in {"entries", "check", "negate", "mark"} =>
              batch[b].phase \in {"entries", "check", "negate", "mark"}
         /\ batch'[b].phase # "read"
<1>1. CASE Look(b) \/ MarkCelebration(b) \/ Throw(b) \/ Negate(b)
  BY <1>1, GotoDoes, FurtherDoes DEF Look, MarkCelebration, Throw, Negate
<1>2. CASE Celebrate(b)
  <2>1. CASE celebration = "none"
    BY <1>2, <2>1, StateIs DEF Celebrate, Batch
  <2>2. CASE celebration # "none"
    BY <1>2, <2>2, GotoDoes DEF Celebrate
  <2>3. QED
    BY <2>1, <2>2
<1>3. CASE ReadEntries(b)
  BY <1>3, StateIs DEF ReadEntries, Batch
<1>4. ASSUME NEW r \in Rules, Award(b, r)
      PROVE  batch[b].phase = "award" /\ batch'[b].phase \in {"award", "publish"}
  BY <1>4, StateIs DEF Award, Batch
<1>5. ASSUME NEW r \in Rules, CheckEntry(b, r)
      PROVE  batch[b].phase = "check" /\ batch'[b].phase \in {"check", "mark", "negate"}
  <2>1. CASE points[r] = "reversed"
    BY <1>5, <2>1, FurtherDoes DEF CheckEntry
  <2>2. CASE points[r] # "reversed"
    BY <1>5, <2>2, StateIs DEF CheckEntry, Batch
  <2>3. QED
    BY <2>1, <2>2
<1>6. QED
  BY <1>1, <1>2, <1>3, <1>4, <1>5 DEF Statement

-----------------------------------------------------------------------------
(* The rows of the events, and which of them a batch may know: an event is *)
(* emitted behind those before it, only a batch that lives or died in the  *)
(* middle holds a lock, a handler goes the way of the type of its event,   *)
(* and what a batch has read as a candidate is not abandoned meanwhile.    *)

Rows ==
  /\ Emitted = 1..Cardinality(Emitted)
  /\ \A e \in Events :
       /\ event[e].type = "none" <=> event[e].status = "none"
       /\ event[e].lock # None => event[e].status = "processing"
       /\ event[e].type = "cancelled" => deal = "cancelled"
  /\ deal = "won" => Emitted # {}

Knows(b, e) == e \in batch[b].todo \/ batch[b].event = e
Routed ==
  \A b \in Batches :
    /\ \A e \in Events : Knows(b, e) => event[e].type # "none"
    /\ batch[b].phase \in {"look", "celebrate", "award"} => event[batch[b].event].type = "won"
    /\ batch[b].phase \in {"entries", "check", "negate", "mark"} =>
         event[batch[b].event].type = "cancelled"
    /\ batch[b].phase = "read" =>
         \A e \in batch[b].todo : event[e].lock = None => event[e].status # "processing"
Base == Safe /\ Rows /\ Routed

LEMMA InitBase == ASSUME Init PROVE Base
<1>1. Emitted = {} /\ Cardinality(Emitted) = 0
  BY FS_EmptySet DEF Init, Emitted
<1>2. Rows
  BY <1>1 DEF Init, Rows
<1>3. Routed
  BY OutboxAssumption DEF Init, Routed, Knows, Idle, Events
<1>4. QED
  BY <1>2, <1>3, InitSafe DEF Base

(* A step that emits nothing keeps the rows in shape.                      *)
LEMMA RowsStep ==
  ASSUME Rows, deal' = deal, \A e \in Events : event'[e].type = event[e].type,
         \A e \in Events : event'[e].status = "none" <=> event[e].status = "none",
         \A e \in Events : event'[e].lock # None => event'[e].status = "processing"
  PROVE  Rows'
<1>1. Emitted' = Emitted
  BY DEF Emitted
<1>2. QED
  BY <1>1 DEF Rows

(* A batch that learns of no event but those it knew or read as pending    *)
LEMMA RoutedStep ==
  ASSUME Safe, Safe', Routed, NEW b \in Batches, Others(b),
         \A e \in Events : event'[e].type = event[e].type,
         \A e \in Events : Knows(b, e)' => event[e].type # "none",
         batch'[b].phase \in {"look", "celebrate", "award"} => event[batch'[b].event].type = "won",
         batch'[b].phase \in {"entries", "check", "negate", "mark"} =>
           event[batch'[b].event].type = "cancelled",
         batch'[b].phase = "read" =>
           \A e \in batch'[b].todo : event'[e].lock = None => event'[e].status # "processing",
         \A e \in Events : event'[e].lock = None /\ event'[e].status = "processing" =>
           event[e].lock = None /\ event[e].status = "processing"
  PROVE  Routed'
<1>1. \A c \in Batches : batch[c].todo \subseteq Events /\ batch'[c].todo \subseteq Events
  BY DEF Safe, TypeOK, Batch
<1>2. \A c \in Batches : batch'[c].phase \in Handling => batch'[c].event \in Events
  BY DEF Safe, TypeOK
<1>3. ASSUME NEW c \in Batches
      PROVE  /\ \A e \in Events : Knows(c, e)' => event'[e].type # "none"
             /\ batch'[c].phase \in {"look", "celebrate", "award"} =>
                  event'[batch'[c].event].type = "won"
             /\ batch'[c].phase \in {"entries", "check", "negate", "mark"} =>
                  event'[batch'[c].event].type = "cancelled"
             /\ batch'[c].phase = "read" =>
                  \A e \in batch'[c].todo : event'[e].lock = None => event'[e].status # "processing"
  <2>1. CASE c = b
    BY <2>1, <1>2 DEF Handling
  <2>2. CASE c # b
    <3>1. batch'[c] = batch[c]
      BY <2>2 DEF Others
    <3>2. \A e \in Events : Knows(c, e)' => Knows(c, e)
      BY <3>1 DEF Knows
    <3>3. QED
      BY <3>1, <3>2, <1>1, <1>2 DEF Routed, Handling
  <2>3. QED
    BY <2>1, <2>2
<1>4. QED
  BY <1>3 DEF Routed

LEMMA EmitKeepsBase ==
  ASSUME Base, Safe', NEW type \in {"won", "cancelled"}, Emit(type),
         deal' = type, deal = "cancelled" => deal' = "cancelled"
  PROVE  Rows' /\ Routed'
<1>1. Safe /\ Rows /\ Routed /\ UNCHANGED batch
  BY EmitDoes DEF Base, Rows
<1>2. PICK n \in Events \ Emitted :
        /\ event'[n].type = type /\ event'[n].status = "pending"
        /\ event'[n].attempts = event[n].attempts /\ event'[n].lock = event[n].lock
        /\ \A e \in Events \ {n} : event'[e] = event[e]
  BY <1>1, EmitDoes DEF Rows
<1>3. Emitted' = 1..Cardinality(Emitted')
  BY <1>1, EmitDoes DEF Rows
<1>4. event[n].type = "none" /\ event[n].lock = None /\ n \in Emitted'
  BY <1>1, <1>2 DEF Rows, Emitted
<1>5. Rows'
  BY <1>1, <1>2, <1>3, <1>4 DEF Rows
<1>6. \A b \in Batches : ~Knows(b, n)
  BY <1>1, <1>2, <1>4 DEF Routed
<1>7. \A b \in Batches : batch[b].todo \subseteq Events
                       /\ (batch[b].phase \in Handling => batch[b].event \in Events)
  BY <1>1 DEF Safe, TypeOK, Batch
<1>8. Routed'
  BY <1>1, <1>2, <1>6, <1>7 DEF Routed, Knows, Handling
<1>9. QED
  BY <1>5, <1>8

LEMMA BaseKept == ASSUME Base, [Next]_vars PROVE Base'
<1>1. Safe' /\ Safe /\ Rows /\ Routed
  BY SafeKept DEF Base
<1>2. CASE UNCHANGED vars
  <2>1. UNCHANGED <<deal, event, batch>>
    BY <1>2 DEF vars, table
  <2>2. Rows' /\ Routed'
    BY <2>1, <1>1 DEF Rows, Routed, Knows, Emitted
  <2>3. QED
    BY <2>2, <1>1 DEF Base
<1>3. CASE WinDeal
  BY <1>1, <1>3, EmitKeepsBase DEF WinDeal, Base
<1>4. CASE CancelDeal
  BY <1>1, <1>4, EmitKeepsBase DEF CancelDeal, Base
<1>5. ASSUME NEW e \in Events, LeaseEnds(e) PROVE Rows' /\ Routed'
  <2>1. /\ UNCHANGED <<deal, batch>> /\ event[e].lock = Ghost
        /\ event'[e].type = event[e].type /\ event'[e].status = event[e].status
        /\ event'[e].lock = None /\ \A f \in Events \ {e} : event'[f] = event[f]
    BY <1>1, <1>5, LeaseEndsDoes
  <2>2. Rows'
    BY <1>1, <2>1, RowsStep DEF Rows
  <2>3. \A b \in Batches : batch[b].phase = "read" => e \notin batch[b].todo
    BY <1>5 DEF LeaseEnds
  <2>4. \A b \in Batches : batch[b].todo \subseteq Events
                         /\ (batch[b].phase \in Handling => batch[b].event \in Events)
    BY <1>1 DEF Safe, TypeOK, Batch
  <2>5. Routed'
    BY <1>1, <2>1, <2>3, <2>4 DEF Routed, Knows, Handling
  <2>6. QED
    BY <2>2, <2>5
<1>6. ASSUME NEW e \in Events, BecomesDue(e) PROVE Rows' /\ Routed'
  <2>1. UNCHANGED <<deal, batch>> /\ \A f \in Events : Row(f)
    BY <1>1, <1>6, BecomesDueDoes
  <2>2. Rows'
    BY <1>1, <2>1, RowsStep DEF Rows, Row
  <2>3. \A b \in Batches : batch[b].todo \subseteq Events
                         /\ (batch[b].phase \in Handling => batch[b].event \in Events)
    BY <1>1 DEF Safe, TypeOK, Batch
  <2>4. Routed'
    BY <1>1, <2>1, <2>3 DEF Routed, Knows, Row, Handling
  <2>5. QED
    BY <2>2, <2>4
<1>7. ASSUME NEW b \in Batches, ReadCandidates(b) PROVE Rows' /\ Routed'
  <2>1. /\ Others(b) /\ UNCHANGED <<table, faults>>
        /\ batch'[b].phase = "read" /\ batch'[b].event = None
        /\ batch'[b].todo = {e \in Events : Claimable(e)}
    BY <1>1, <1>7, ReadCandidatesDoes
  <2>2. deal' = deal /\ event' = event
    BY <2>1 DEF table
  <2>3. Rows'
    BY <1>1, <2>2, RowsStep DEF Rows
  <2>4. \A e \in batch'[b].todo : event[e].status = "pending"
    BY <2>1 DEF Claimable
  <2>5. \A e \in Events : Knows(b, e)' => event[e].type # "none"
    BY <1>1, <2>1, <2>4, OutboxAssumption DEF Knows, Rows, Events
  <2>6. Routed'
    BY <1>1, <2>1, <2>2, <2>4, <2>5, RoutedStep
  <2>7. QED
    BY <2>3, <2>6
<1>8. ASSUME NEW b \in Batches, Claim(b) PROVE Rows' /\ Routed'
  <2>1. /\ Others(b) /\ deal' = deal
        /\ batch'[b].phase \in {"idle", "next"} /\ batch'[b].event = None
        /\ batch'[b].todo = {e \in batch[b].todo : event[e].lock = None}
        /\ \A e \in batch'[b].todo :
             /\ event'[e].type = event[e].type
             /\ event'[e].status = "processing" /\ event'[e].lock = b
        /\ \A e \in Events \ batch'[b].todo : event'[e] = event[e]
    BY <1>1, <1>8, ClaimDoes
  <2>2. batch'[b].todo \subseteq Events /\ \A e \in batch'[b].todo : Knows(b, e)
    BY <1>1, <2>1 DEF Safe, TypeOK, Batch, Knows
  <2>3. \A e \in batch'[b].todo : event[e].status # "none"
    BY <1>1, <2>2 DEF Rows, Routed
  <2>4. Rows'
    BY <1>1, <2>1, <2>2, <2>3, RowsStep DEF Rows
  <2>5. \A e \in Events : Knows(b, e)' => event[e].type # "none"
    BY <1>1, <2>1, <2>2, OutboxAssumption DEF Knows, Routed, Events
  <2>6. b # None
    BY OutboxAssumption
  <2>7. Routed'
    BY <1>1, <2>1, <2>2, <2>5, <2>6, RoutedStep
  <2>8. QED
    BY <2>4, <2>7
<1>9. ASSUME NEW b \in Batches, NEW e \in Events, Begin(b, e) PROVE Rows' /\ Routed'
  <2>1. /\ Others(b) /\ UNCHANGED <<table, faults>> /\ e \in batch[b].todo
        /\ batch'[b].todo = batch[b].todo \ {e} /\ batch'[b].event = e
        /\ batch'[b].phase = IF event[e].type = "won" THEN "look" ELSE "entries"
    BY <1>1, <1>9, BeginDoes
  <2>2. deal' = deal /\ event' = event
    BY <2>1 DEF table
  <2>3. Rows'
    BY <1>1, <2>2, RowsStep DEF Rows
  <2>4. \A f \in Events : Knows(b, f)' => Knows(b, f)
    BY <2>1 DEF Knows
  <2>5. event[e].type \in {"won", "cancelled"}
    BY <1>1, <2>1 DEF Routed, Knows, Safe, TypeOK, EventRow
  <2>6. Routed'
    BY <1>1, <2>1, <2>2, <2>4, <2>5, RoutedStep DEF Routed
  <2>7. QED
    BY <2>3, <2>6
<1>10. ASSUME NEW b \in Batches, NEW late \in BOOLEAN, Complete(b, late) PROVE Rows' /\ Routed'
  <2> DEFINE e == batch[b].event
  <2>1. /\ Others(b) /\ deal' = deal /\ e \in Events
        /\ batch'[b].todo = batch[b].todo /\ batch'[b].event = None
        /\ batch'[b].phase \in {"idle", "next", "skip"}
        /\ event'[e].type = event[e].type
        /\ event'[e].status = "processed" /\ event'[e].lock = None
        /\ \A f \in Events \ {e} : event'[f] = event[f]
    BY <1>1, <1>10, CompleteDoes
  <2>2. event[e].type # "none"
    BY <1>1, <2>1 DEF Routed, Knows
  <2> HIDE DEF e
  <2>3. Rows'
    BY <1>1, <2>1, <2>2, RowsStep DEF Rows
  <2>4. \A f \in Events : Knows(b, f)' => event[f].type # "none"
    BY <1>1, <2>1, OutboxAssumption DEF Knows, Routed, Events
  <2>5. Routed'
    BY <1>1, <2>1, <2>4, RoutedStep
  <2>6. QED
    BY <2>3, <2>5
<1>11. ASSUME NEW b \in Batches, NEW late \in BOOLEAN, Fail(b, late) PROVE Rows' /\ Routed'
  <2> DEFINE e == batch[b].event
  <2>1. /\ Others(b) /\ deal' = deal /\ e \in Events
        /\ batch'[b].todo = batch[b].todo /\ batch'[b].event \in {e, None}
        /\ batch'[b].phase \in {"idle", "next", "skip", "letter"}
        /\ event'[e].type = event[e].type
        /\ event'[e].status \in {"dead", "pending"} /\ event'[e].lock = None
        /\ \A f \in Events \ {e} : event'[f] = event[f]
    BY <1>1, <1>11, FailDoes
  <2>2. event[e].type # "none"
    BY <1>1, <2>1 DEF Routed, Knows
  <2> HIDE DEF e
  <2>3. Rows'
    BY <1>1, <2>1, <2>2, RowsStep DEF Rows
  <2>4. \A f \in Events : Knows(b, f)' => event[f].type # "none"
    BY <1>1, <2>1, <2>2, OutboxAssumption DEF Knows, Routed, Events
  <2>5. Routed'
    BY <1>1, <2>1, <2>4, RoutedStep
  <2>6. QED
    BY <2>3, <2>5
<1>12. ASSUME NEW b \in Batches, NEW late \in BOOLEAN, WriteDeadLetter(b, late) PROVE Rows' /\ Routed'
  <2>1. /\ Others(b) /\ deal' = deal /\ batch'[b].todo = batch[b].todo /\ batch'[b].event = None
        /\ batch'[b].phase \in {"idle", "next", "skip"} /\ \A e \in Events : Row(e)
    BY <1>1, <1>12, WriteDeadLetterDoes
  <2>2. Rows'
    BY <1>1, <2>1, RowsStep DEF Rows, Row
  <2>3. \A f \in Events : Knows(b, f)' => event[f].type # "none"
    BY <1>1, <2>1, OutboxAssumption DEF Knows, Routed, Events
  <2>4. Routed'
    BY <1>1, <2>1, <2>3, RoutedStep DEF Row
  <2>5. QED
    BY <2>2, <2>4
<1>13. ASSUME NEW b \in Batches, NEW e \in Events, Skip(b, e) PROVE Rows' /\ Routed'
  <2>1. /\ Others(b) /\ deal' = deal /\ e \in batch[b].todo
        /\ batch'[b].todo = batch[b].todo \ {e} /\ batch'[b].event = None
        /\ batch'[b].phase \in {"idle", "next", "skip"}
        /\ event'[e].type = event[e].type
        /\ event'[e].status = "pending" /\ event'[e].lock = None
        /\ \A f \in Events \ {e} : event'[f] = event[f]
    BY <1>1, <1>13, SkipDoes
  <2>2. event[e].type # "none"
    BY <1>1, <2>1 DEF Routed, Knows
  <2>3. Rows'
    BY <1>1, <2>1, <2>2, RowsStep DEF Rows
  <2>4. \A f \in Events : Knows(b, f)' => event[f].type # "none"
    BY <1>1, <2>1, OutboxAssumption DEF Knows, Routed, Events
  <2>5. Routed'
    BY <1>1, <2>1, <2>4, RoutedStep
  <2>6. QED
    BY <2>3, <2>5
<1>14. ASSUME NEW b \in Batches, Crash(b) PROVE Rows' /\ Routed'
  <2>1. /\ Others(b) /\ deal' = deal
        /\ batch'[b].phase = "idle" /\ batch'[b].todo = {} /\ batch'[b].event = None
        /\ \A e \in Events :
             /\ event'[e].type = event[e].type /\ event'[e].status = event[e].status
             /\ event'[e].lock = IF event[e].lock = b THEN Ghost ELSE event[e].lock
    BY <1>1, <1>14, CrashDoes
  <2>2. b # None /\ Ghost # None
    BY OutboxAssumption
  <2>3. Rows'
    BY <1>1, <2>1, <2>2, RowsStep DEF Rows
  <2>4. \A f \in Events : ~Knows(b, f)'
    BY <2>1, OutboxAssumption DEF Knows, Events
  <2>5. Routed'
    BY <1>1, <2>1, <2>2, <2>4, RoutedStep
  <2>6. QED
    BY <2>3, <2>5
<1>15. ASSUME NEW b \in Batches, Publish(b) PROVE Rows' /\ Routed'
  <2>1. /\ Others(b) /\ Stays(b) /\ deal' = deal /\ batch'[b].phase = "complete"
        /\ \A e \in Events : Row(e)
    BY <1>1, <1>15, PublishDoes
  <2>2. Rows'
    BY <1>1, <2>1, RowsStep DEF Rows, Row
  <2>3. \A f \in Events : Knows(b, f)' => event[f].type # "none"
    BY <1>1, <2>1 DEF Knows, Routed, Stays
  <2>4. Routed'
    BY <1>1, <2>1, <2>3, RoutedStep DEF Row
  <2>5. QED
    BY <2>2, <2>4
<1>16. ASSUME NEW b \in Batches, Statement(b) PROVE Rows' /\ Routed'
  <2>1. /\ Others(b) /\ Stays(b) /\ UNCHANGED <<deal, event>>
    BY <1>1, <1>16, StatementDoes
  <2>2. Rows'
    BY <1>1, <2>1, RowsStep DEF Rows
  <2>3. \A f \in Events : Knows(b, f)' => event[f].type # "none"
    BY <1>1, <2>1 DEF Knows, Routed, Stays
  <2>4. /\ batch'[b].phase \in {"look", "celebrate", "award"} =>
             batch[b].phase \in {"look", "celebrate", "award"}
        /\ batch'[b].phase \in {"entries", "check", "negate", "mark"} =>
             batch[b].phase \in {"entries", "check", "negate", "mark"}
        /\ batch'[b].phase # "read"
    BY <1>1, <1>16, StatementPhases
  <2>5. Routed'
    BY <1>1, <2>1, <2>3, <2>4, RoutedStep DEF Routed, Stays
  <2>6. QED
    BY <2>2, <2>5
<1>17. CASE Next
  <2>1. Rows' /\ Routed'
    BY <1>17, <1>3, <1>4, <1>5, <1>6, <1>7, <1>8, <1>9, <1>10, <1>11, <1>12, <1>13, <1>14, <1>15,
       <1>16, EmitKeepsBase DEF Next, Work, Statement, Base
  <2>2. QED
    BY <2>1, <1>1 DEF Base
<1>18. QED
  BY <1>2, <1>17

-----------------------------------------------------------------------------
(* An event no batch will do anything more with stays so: batches learn    *)
(* only of pending events, and leave alone what they do not know.          *)

LEMMA SettledKept ==
  ASSUME Base, Next, NEW e \in Events, event[e].type # "none", Settled(e)
  PROVE  Settled(e)'
<1>1. Safe /\ Rows /\ Routed /\ event \in [Events -> EventRow]
  BY DEF Base, Safe, TypeOK
<1>2. /\ event[e].status \in {"processed", "dead"} \/ Abandoned(e)
      /\ \A b \in Batches : ~Knows(b, e)
  BY DEF Settled, Knows
<1>3. event[e].status # "pending" /\ event[e].lock \notin Batches
  <2>1. \A b \in Batches : e \notin Held(b)
    BY <1>2 DEF Held, Knows
  <2>2. QED
    BY <1>1, <1>2, <2>1 DEF Abandoned, Safe, HandledByOne
<1>4. ASSUME event'[e].status = event[e].status, event'[e].lock \notin Batches,
             \A b \in Batches : ~Knows(b, e)'
      PROVE  Settled(e)'
  BY <1>2, <1>4 DEF Settled, Abandoned, Knows
<1>5. ASSUME NEW b \in Batches, Others(b),
             event'[e].status = event[e].status, event'[e].lock \notin Batches,
             ~Knows(b, e)'
      PROVE  Settled(e)'
  <2>1. \A c \in Batches : ~Knows(c, e)'
    BY <1>2, <1>5 DEF Others, Knows
  <2>2. QED
    BY <1>4, <1>5, <2>1
<1>6. \A f \in Events \cup {None} : f = None => f # e
  BY OutboxAssumption DEF Events
<1>7. CASE WinDeal \/ CancelDeal
  <2>1. PICK type \in {"won", "cancelled"} : Emit(type)
    BY <1>7 DEF WinDeal, CancelDeal
  <2>2. UNCHANGED batch /\ \E n \in Events \ Emitted : \A f \in Events \ {n} : event'[f] = event[f]
    BY <1>1, <2>1, EmitDoes DEF Rows
  <2>3. event'[e] = event[e]
    BY <2>2 DEF Emitted
  <2>4. QED
    BY <1>2, <1>3, <1>4, <2>2, <2>3 DEF Knows
<1>8. ASSUME NEW f \in Events, LeaseEnds(f) \/ BecomesDue(f) PROVE Settled(e)'
  <2>1. UNCHANGED batch /\ event'[e].status = event[e].status /\ event'[e].lock \in {event[e].lock, None}
    BY <1>1, <1>8, LeaseEndsDoes, BecomesDueDoes DEF Row
  <2>2. QED
    BY <1>2, <1>3, <1>4, <2>1, OutboxAssumption DEF Knows
<1>9. ASSUME NEW b \in Batches, ReadCandidates(b) PROVE Settled(e)'
  <2>1. /\ Others(b) /\ UNCHANGED table /\ batch'[b].event = None
        /\ batch'[b].todo = {f \in Events : Claimable(f)}
    BY <1>1, <1>9, ReadCandidatesDoes
  <2>2. ~Knows(b, e)'
    BY <1>3, <1>6, <2>1 DEF Knows, Claimable
  <2>3. QED
    BY <1>3, <1>5, <2>1, <2>2 DEF table
<1>10. ASSUME NEW b \in Batches, Claim(b) PROVE Settled(e)'
  <2>1. /\ Others(b) /\ batch'[b].event = None
        /\ batch'[b].todo = {f \in batch[b].todo : event[f].lock = None}
        /\ \A f \in Events \ batch'[b].todo : event'[f] = event[f]
    BY <1>1, <1>10, ClaimDoes
  <2>2. ~Knows(b, e)'
    BY <1>2, <1>6, <2>1 DEF Knows
  <2>3. QED
    BY <1>3, <1>5, <2>1, <2>2 DEF Knows
<1>11. ASSUME NEW b \in Batches, NEW f \in Events, Begin(b, f) PROVE Settled(e)'
  <2>1. /\ Others(b) /\ UNCHANGED table /\ f \in batch[b].todo
        /\ batch'[b].todo = batch[b].todo \ {f} /\ batch'[b].event = f
    BY <1>1, <1>11, BeginDoes
  <2>2. ~Knows(b, e)'
    BY <1>2, <2>1 DEF Knows
  <2>3. QED
    BY <1>3, <1>5, <2>1, <2>2 DEF table
<1>12. ASSUME NEW b \in Batches, NEW late \in BOOLEAN,
              Complete(b, late) \/ Fail(b, late) \/ WriteDeadLetter(b, late)
       PROVE  Settled(e)'
  <2>1. /\ Others(b) /\ batch'[b].todo = batch[b].todo /\ batch'[b].event \in {batch[b].event, None}
        /\ \A f \in Events \ {batch[b].event} : Row(f)
    BY <1>1, <1>12, CompleteDoes, FailDoes, WriteDeadLetterDoes DEF Row
  <2>2. e # batch[b].event /\ ~Knows(b, e)'
    BY <1>2, <1>6, <2>1 DEF Knows
  <2>3. QED
    BY <1>3, <1>5, <2>1, <2>2 DEF Row
<1>13. ASSUME NEW b \in Batches, NEW f \in Events, Skip(b, f) PROVE Settled(e)'
  <2>1. /\ Others(b) /\ f \in batch[b].todo
        /\ batch'[b].todo = batch[b].todo \ {f} /\ batch'[b].event = None
        /\ \A g \in Events \ {f} : event'[g] = event[g]
    BY <1>1, <1>13, SkipDoes
  <2>2. e # f /\ ~Knows(b, e)'
    BY <1>2, <1>6, <2>1 DEF Knows
  <2>3. QED
    BY <1>3, <1>5, <2>1, <2>2
<1>14. ASSUME NEW b \in Batches, Crash(b) PROVE Settled(e)'
  <2>1. /\ Others(b) /\ batch'[b].todo = {} /\ batch'[b].event = None
        /\ event'[e].status = event[e].status
        /\ event'[e].lock = IF event[e].lock = b THEN Ghost ELSE event[e].lock
    BY <1>1, <1>14, CrashDoes
  <2>2. ~Knows(b, e)'
    BY <1>6, <2>1 DEF Knows
  <2>3. QED
    BY <1>3, <1>5, <2>1, <2>2
<1>15. ASSUME NEW b \in Batches, Publish(b) \/ Statement(b) PROVE Settled(e)'
  <2>1. Others(b) /\ Stays(b) /\ Row(e)
    BY <1>1, <1>15, PublishDoes, StatementDoes DEF Row
  <2>2. ~Knows(b, e)'
    BY <1>2, <2>1 DEF Knows, Stays
  <2>3. QED
    BY <1>3, <1>5, <2>1, <2>2 DEF Row
<1>16. QED
  BY <1>7, <1>8, <1>9, <1>10, <1>11, <1>12, <1>13, <1>14, <1>15 DEF Next, Work, Statement

-----------------------------------------------------------------------------
(* A patient cancellation: when the deal is cancelled its wins are dealt   *)
(* with, so only handlers of cancellations are left, and they only take    *)
(* back.  One that goes through the entries still has all the points ahead *)
(* of it that are there, and one past the celebration leaves nothing.      *)

NoPoints == \A r \in Rules : points[r] # "given"
Cleared == NoPoints /\ celebration # "approved"
Withdrawing(b) ==
  /\ batch[b].phase \in {"check", "negate"} =>
       \A r \in Rules : points[r] = "given" => r \in batch[b].rules
  /\ batch[b].phase = "mark" => NoPoints
  /\ batch[b].phase \in {"publish", "complete"} /\ event[batch[b].event].type = "cancelled" => Cleared
Withdrawn ==
  /\ deal = "cancelled" => \A e \in Events : event[e].type = "won" => Settled(e)
  /\ \A b \in Batches : Withdrawing(b)
  /\ \A e \in Events : event[e].type = "cancelled" /\ event[e].status = "processed" => Cleared

(* Before the first cancellation there is nothing to withdraw.             *)
LEMMA NothingToWithdraw ==
  ASSUME Base, deal # "cancelled"
  PROVE  Withdrawn
<1>1. \A e \in Events : event[e].type # "cancelled"
  BY DEF Base, Rows
<1>2. \A b \in Batches : batch[b].phase \in Handling => event[batch[b].event].type # "cancelled"
  BY <1>1 DEF Base, Safe, TypeOK
<1>3. \A b \in Batches : batch[b].phase \notin {"entries", "check", "negate", "mark"}
  BY <1>2 DEF Base, Routed, Handling
<1>4. QED
  BY <1>1, <1>2, <1>3 DEF Withdrawn, Withdrawing, Handling

LEMMA CancelWithdraws ==
  ASSUME Base, Base', Withdrawn, Patient, CancelDeal
  PROVE  Withdrawn'
<1>1. Safe /\ Rows /\ Routed
  BY DEF Base
<1>2. UNCHANGED <<batch, celebration, points>> /\
      \E n \in Events \ Emitted : /\ event'[n].type = "cancelled" /\ event'[n].status = "pending"
                                  /\ \A e \in Events \ {n} : event'[e] = event[e]
  BY <1>1, EmitDoes DEF CancelDeal, Rows
<1>3. PICK n \in Events \ Emitted : /\ event'[n].type = "cancelled" /\ event'[n].status = "pending"
                                    /\ \A e \in Events \ {n} : event'[e] = event[e]
  BY <1>2
<1>4. \A e \in Events : event'[e].type = "won" => Settled(e)'
  BY <1>2, <1>3 DEF CancelDeal, Emitted, Settled, Abandoned
<1>5. (NoPoints' <=> NoPoints) /\ (Cleared' <=> Cleared)
  BY <1>2 DEF NoPoints, Cleared
<1>6. \A b \in Batches : batch[b].phase \in Handling =>
        batch[b].event \in Events /\ event[batch[b].event].type # "none"
  BY <1>1 DEF Safe, TypeOK, Routed, Knows
<1>7. \A b \in Batches : Withdrawing(b)'
  BY <1>2, <1>3, <1>5, <1>6 DEF Withdrawn, Withdrawing, Handling, Emitted
<1>8. QED
  BY <1>3, <1>4, <1>5, <1>7 DEF Withdrawn

LEMMA WithdrawnStep ==
  ASSUME Base, Base', Next, Withdrawn, deal = "cancelled", deal' = deal,
         NEW b \in Batches, Others(b), \A e \in Events : event'[e].type = event[e].type,
         \A r \in Rules : points'[r] = "given" => points[r] = "given",
         celebration' = "approved" => celebration = "approved",
         \A e \in Events : event'[e].status = "processed" =>
           event[e].status = "processed" \/ event[e].type = "won" \/ Cleared,
         Withdrawing(b)'
  PROVE  Withdrawn'
<1>1. (NoPoints => NoPoints') /\ (Cleared => Cleared')
  BY DEF NoPoints, Cleared
<1>2. \A e \in Events : event[e].type = "won" => Settled(e)'
  BY SettledKept DEF Withdrawn
<1>3. ASSUME NEW c \in Batches PROVE Withdrawing(c)'
  <2>1. CASE c = b
    BY <2>1
  <2>2. CASE c # b
    <3>1. batch'[c] = batch[c] /\ Withdrawing(c)
      BY <2>2 DEF Others, Withdrawn
    <3>2. batch[c].phase \in Handling => batch[c].event \in Events
      BY DEF Base, Safe, TypeOK
    <3>3. QED
      BY <3>1, <3>2, <1>1 DEF Withdrawing, Handling
  <2>3. QED
    BY <2>1, <2>2
<1>4. QED
  BY <1>1, <1>2, <1>3 DEF Withdrawn

LEMMA WithdrawnKept ==
  ASSUME Base, Withdrawn, Patient, [Next]_vars
  PROVE  Withdrawn'
<1>1. Base' /\ Safe /\ Rows /\ Routed
  BY BaseKept DEF Base
<1>2. CASE UNCHANGED vars
  <2>1. UNCHANGED <<deal, event, batch, celebration, points>>
    BY <1>2 DEF vars, table
  <2>2. (NoPoints' <=> NoPoints) /\ (Cleared' <=> Cleared)
    BY <2>1 DEF NoPoints, Cleared
  <2>3. QED
    BY <2>1, <2>2 DEF Withdrawn, Withdrawing, Settled, Abandoned
<1>3. CASE deal' # "cancelled"
  <2>1. (Base /\ deal # "cancelled" => Withdrawn)'
    BY NothingToWithdraw, PTL
  <2>2. QED
    BY <2>1, <1>1, <1>3
<1>4. CASE CancelDeal
  BY <1>1, <1>4, CancelWithdraws
<1>5. CASE Next /\ ~CancelDeal /\ deal' = "cancelled"
  <2>1. deal = "cancelled" /\ ~WinDeal
    BY <1>5, <1>1, LeaseEndsDoes, BecomesDueDoes, ReadCandidatesDoes, ClaimDoes, BeginDoes, CompleteDoes,
       FailDoes, WriteDeadLetterDoes, SkipDoes, CrashDoes, PublishDoes, StatementDoes
    DEF Next, Work, Statement, WinDeal, table
  <2>2. \A b \in Batches : batch[b].phase \notin {"look", "celebrate", "award"}
    <3>1. \A b \in Batches : batch[b].phase \in Handling =>
            batch[b].event \in Events /\ event[batch[b].event].type # "won"
      BY <1>1, <2>1 DEF Safe, TypeOK, Withdrawn, Settled
    <3>2. QED
      BY <3>1, <1>1 DEF Routed, Handling
  <2>3. ASSUME NEW e \in Events, LeaseEnds(e) \/ BecomesDue(e) PROVE Withdrawn'
    <3>1. UNCHANGED <<deal, batch, celebration, points>>
          /\ \A f \in Events : event'[f].type = event[f].type /\ event'[f].status = event[f].status
      BY <1>1, <2>3, LeaseEndsDoes, BecomesDueDoes DEF Row
    <3>2. \A f \in Events : event[f].type = "won" => Settled(f)'
      BY <1>5, <2>1, SettledKept DEF Withdrawn
    <3>3. (NoPoints' <=> NoPoints) /\ (Cleared' <=> Cleared)
      BY <3>1 DEF NoPoints, Cleared
    <3>4. \A b \in Batches : Withdrawing(b)'
      <4>1. \A b \in Batches : batch[b].phase \in Handling => batch[b].event \in Events
        BY <1>1 DEF Safe, TypeOK
      <4>2. QED
        BY <3>1, <3>3, <4>1 DEF Withdrawn, Withdrawing, Handling
    <3>5. QED
      BY <3>1, <3>2, <3>3, <3>4 DEF Withdrawn
  <2>4. ASSUME NEW b \in Batches, ReadCandidates(b) \/ Claim(b) \/ Crash(b) PROVE Withdrawn'
    <3>1. /\ Others(b) /\ UNCHANGED <<deal, celebration, points>>
          /\ \A f \in Events : /\ event'[f].type = event[f].type
                               /\ event'[f].status = "processed" => event[f].status = "processed"
          /\ batch'[b].phase \in {"read", "idle", "next"}
      BY <1>1, <2>4, ReadCandidatesDoes, ClaimDoes, CrashDoes DEF table
    <3>2. Withdrawing(b)'
      BY <3>1 DEF Withdrawing
    <3>3. QED
      BY <1>1, <1>5, <2>1, <3>1, <3>2, WithdrawnStep
  <2>5. ASSUME NEW b \in Batches, NEW e \in Events, Begin(b, e) \/ Skip(b, e) PROVE Withdrawn'
    <3>1. /\ Others(b) /\ UNCHANGED <<deal, celebration, points>>
          /\ \A f \in Events : /\ event'[f].type = event[f].type
                               /\ event'[f].status = "processed" => event[f].status = "processed"
          /\ batch'[b].phase \in {"look", "entries", "idle", "next", "skip"}
      BY <1>1, <2>5, BeginDoes, SkipDoes DEF table
    <3>2. Withdrawing(b)'
      BY <3>1 DEF Withdrawing
    <3>3. QED
      BY <1>1, <1>5, <2>1, <3>1, <3>2, WithdrawnStep
  <2>6. ASSUME NEW b \in Batches, NEW late \in BOOLEAN, Fail(b, late) \/ WriteDeadLetter(b, late)
        PROVE  Withdrawn'
    <3>1. /\ Others(b) /\ UNCHANGED <<deal, celebration, points>>
          /\ \A f \in Events : /\ event'[f].type = event[f].type
                               /\ event'[f].status = "processed" => event[f].status = "processed"
          /\ batch'[b].phase \in {"letter", "idle", "next", "skip"}
      BY <1>1, <2>6, FailDoes, WriteDeadLetterDoes DEF Row
    <3>2. Withdrawing(b)'
      BY <3>1 DEF Withdrawing
    <3>3. QED
      BY <1>1, <1>5, <2>1, <3>1, <3>2, WithdrawnStep
  <2>7. ASSUME NEW b \in Batches, NEW late \in BOOLEAN, Complete(b, late) PROVE Withdrawn'
    <3> DEFINE e == batch[b].event
    <3>1. /\ Others(b) /\ UNCHANGED <<deal, celebration, points>>
          /\ batch[b].phase = "complete" /\ e \in Events
          /\ event'[e].type = event[e].type /\ \A f \in Events \ {e} : event'[f] = event[f]
          /\ batch'[b].phase \in {"idle", "next", "skip"}
      BY <1>1, <2>7, CompleteDoes
    <3>2. event[e].type = "cancelled" => Cleared
      BY <3>1 DEF Withdrawn, Withdrawing
    <3>3. event[e].type \in {"won", "cancelled"}
      BY <1>1, <3>1 DEF Routed, Knows, Safe, TypeOK, EventRow
    <3> HIDE DEF e
    <3>4. \A f \in Events : event'[f].status = "processed" =>
            event[f].status = "processed" \/ event[f].type = "won" \/ Cleared
      BY <3>1, <3>2, <3>3
    <3>5. Withdrawing(b)'
      BY <3>1 DEF Withdrawing
    <3>6. \A f \in Events : event'[f].type = event[f].type
      BY <3>1
    <3>7. QED
      BY <1>1, <1>5, <2>1, <3>1, <3>4, <3>5, <3>6, WithdrawnStep
  <2>8. ASSUME NEW b \in Batches, Publish(b) PROVE Withdrawn'
    <3>1. /\ Others(b) /\ Stays(b) /\ UNCHANGED <<deal, celebration, points>>
          /\ batch[b].phase = "publish" /\ batch'[b].phase = "complete"
          /\ \A f \in Events : event'[f].type = event[f].type /\ event'[f].status = event[f].status
      BY <1>1, <2>8, PublishDoes DEF Row
    <3>2. batch[b].event \in Events
      BY <1>1, <3>1 DEF Safe, TypeOK, Handling
    <3>3. Withdrawing(b)'
      BY <3>1, <3>2 DEF Withdrawn, Withdrawing, Stays, Cleared, NoPoints
    <3>4. QED
      BY <1>1, <1>5, <2>1, <3>1, <3>3, WithdrawnStep
  <2>9. ASSUME NEW b \in Batches, Statement(b) PROVE Withdrawn'
    <3>1. /\ Others(b) /\ Stays(b) /\ UNCHANGED <<deal, event>>
          /\ batch[b].phase \in Handling /\ batch[b].event \in Events
      BY <1>1, <2>9, StatementDoes
    <3>2. ASSUME \A r \in Rules : points'[r] = "given" => points[r] = "given",
                 celebration' = "approved" => celebration = "approved",
                 Withdrawing(b)'
          PROVE  Withdrawn'
      BY <1>1, <1>5, <2>1, <3>1, <3>2, WithdrawnStep
    <3>3. ~Look(b) /\ ~Celebrate(b) /\ \A r \in Rules : ~Award(b, r)
      BY <2>2 DEF Look, Celebrate, Award
    <3>4. CASE Throw(b)
      <4>1. UNCHANGED <<points, celebration>> /\ batch'[b].phase = "fail"
        BY <1>1, <3>4, GotoDoes DEF Throw, table
      <4>2. QED
        BY <3>2, <4>1 DEF Withdrawing
    <3>5. CASE ReadEntries(b)
      <4> DEFINE entries == {r \in Rules : points[r] # "none"}
      <4>1. /\ UNCHANGED <<points, celebration>> /\ batch'[b].rules = entries
            /\ batch'[b].phase = IF entries = {} THEN "mark" ELSE "check"
        BY <1>1, <3>5, StateIs DEF ReadEntries, table, Batch
      <4>2. Withdrawing(b)'
        BY <4>1 DEF Withdrawing, NoPoints
      <4>3. QED
        BY <3>2, <4>1, <4>2
    <3>6. ASSUME NEW r \in Rules, CheckEntry(b, r) PROVE Withdrawn'
      <4>1. /\ UNCHANGED <<points, celebration>> /\ batch[b].phase = "check" /\ r \in batch[b].rules
        BY <3>6 DEF CheckEntry, table
      <4>2. \A s \in Rules : points[s] = "given" => s \in batch[b].rules
        BY <4>1 DEF Withdrawn, Withdrawing
      <4>3. CASE points[r] = "reversed"
        <5>1. /\ batch'[b].rules = batch[b].rules \ {r}
              /\ batch'[b].phase = IF batch[b].rules = {r} THEN "mark" ELSE "check"
          BY <1>1, <3>6, <4>3, FurtherDoes DEF CheckEntry
        <5>2. Withdrawing(b)'
          BY <4>1, <4>2, <4>3, <5>1 DEF Withdrawing, NoPoints
        <5>3. QED
          BY <3>2, <4>1, <5>2
      <4>4. CASE points[r] # "reversed"
        <5>1. batch'[b].rules = batch[b].rules /\ batch'[b].phase = "negate"
          BY <1>1, <3>6, <4>4, StateIs DEF CheckEntry, Batch
        <5>2. Withdrawing(b)'
          BY <4>1, <4>2, <5>1 DEF Withdrawing
        <5>3. QED
          BY <3>2, <4>1, <5>2
      <4>5. QED
        BY <4>3, <4>4
    <3>7. CASE Negate(b)
      <4> DEFINE r == batch[b].rule
      <4>1. celebration' = celebration /\ batch[b].phase = "negate" /\ r \in batch[b].rules
        BY <1>1, <3>7 DEF Negate, Safe, TypeOK
      <4>2. r \in Rules /\ \A s \in Rules : points[s] = "given" => s \in batch[b].rules
        BY <1>1, <4>1, StateIs DEF Withdrawn, Withdrawing, Batch
      <4>3. CASE points[r] = "reversed"
        <5>1. points' = points /\ batch'[b].phase = "fail"
          BY <1>1, <3>7, <4>3, GotoDoes DEF Negate
        <5>2. QED
          BY <3>2, <4>1, <5>1 DEF Withdrawing
      <4>4. CASE points[r] # "reversed"
        <5>1. /\ batch'[b].rules = batch[b].rules \ {r}
              /\ batch'[b].phase = IF batch[b].rules = {r} THEN "mark" ELSE "check"
          BY <1>1, <3>7, <4>4, FurtherDoes DEF Negate
        <5>2. \A s \in Rules : points'[s] = "given" => points[s] = "given" /\ s # r
          BY <1>1, <3>7, <4>2, <4>4, StateIs DEF Negate
        <5>3. Withdrawing(b)'
          BY <4>2, <5>1, <5>2 DEF Withdrawing, NoPoints
        <5>4. QED
          BY <3>2, <4>1, <5>2, <5>3
      <4>5. QED
        BY <4>3, <4>4
    <3>8. CASE MarkCelebration(b)
      <4>1. /\ points' = points /\ celebration' # "approved" /\ NoPoints
            /\ batch'[b].phase = "publish"
        BY <1>1, <3>8, GotoDoes DEF MarkCelebration, Withdrawn, Withdrawing
      <4>2. Withdrawing(b)'
        BY <4>1 DEF Withdrawing, Cleared, NoPoints
      <4>3. QED
        BY <3>2, <4>1, <4>2
    <3>9. QED
      BY <2>9, <3>3, <3>4, <3>5, <3>6, <3>7, <3>8 DEF Statement
  <2>10. QED
    BY <1>5, <2>1, <2>3, <2>4, <2>5, <2>6, <2>7, <2>8, <2>9 DEF Next, Work, Statement
<1>6. QED
  BY <1>2, <1>3, <1>4, <1>5


-----------------------------------------------------------------------------
(* A won deal: only the handler that inserted the celebration gives its    *)
(* points, so a rule without its points is still ahead of that handler, or *)
(* the event it handled shows for ever that it threw or died.              *)

Spoiled(e) ==
  \/ event[e].attempts > 0
  \/ Abandoned(e)
  \/ \E b \in Batches : batch[b].phase = "fail" /\ batch[b].event = e
Awarding(r) == \E b \in Batches : batch[b].phase = "award" /\ r \in batch[b].rules
Celebrated ==
  /\ \A b \in Batches :
       \/ batch[b].phase = "award"
       \/ batch[b].phase \in {"publish", "complete"} /\ event[batch[b].event].type = "won"
       => celebration # "none"
  /\ \A e \in Events : event[e].type = "won" /\ event[e].status = "processed" => celebration # "none"
Arriving ==
  deal # "cancelled" =>
    /\ celebration # "reversed" /\ \A r \in Rules : points[r] # "reversed"
    /\ celebration = "approved" =>
         \A r \in Rules : points[r] = "given" \/ Awarding(r) \/ \E e \in Emitted : Spoiled(e)

LEMMA SpoiledKept ==
  ASSUME Base, Next, NEW e \in Events, event[e].type # "none", Spoiled(e)
  PROVE  Spoiled(e)'
<1>1. Safe /\ Rows /\ Routed /\ event \in [Events -> EventRow]
  BY DEF Base, Safe, TypeOK
<1>2. \A b \in Batches, f \in Events : event[f].lock = b <=> f \in Held(b)
  BY <1>1 DEF Safe, HandledByOne
<1>3. event[e].attempts \in Nat /\ Ghost \notin Batches /\ None \notin Batches /\ Ghost # None
  BY <1>1, OutboxAssumption DEF EventRow
(* It is enough that an attempt stays counted, an abandoned event stays    *)
(* abandoned, and a batch that records a failure goes on to do so.         *)
<1>4. ASSUME UNCHANGED batch, event'[e].attempts = event[e].attempts,
             event'[e].status = event[e].status, event'[e].lock \in {event[e].lock, None}
      PROVE  Spoiled(e)'
  BY <1>3, <1>4 DEF Spoiled, Abandoned
<1>5. ASSUME NEW b \in Batches, Others(b), event'[e].attempts >= event[e].attempts,
             Abandoned(e) => Abandoned(e)',
             event'[e].attempts \in Nat,
             batch[b].phase = "fail" /\ batch[b].event = e =>
               event'[e].attempts > 0 \/ Abandoned(e)'
      PROVE  Spoiled(e)'
  <2>1. CASE event[e].attempts > 0 \/ Abandoned(e)
    BY <1>3, <1>5, <2>1 DEF Spoiled
  <2>2. ASSUME NEW c \in Batches, batch[c].phase = "fail", batch[c].event = e PROVE Spoiled(e)'
    BY <1>5, <2>2 DEF Spoiled, Others
  <2>3. QED
    BY <2>1, <2>2 DEF Spoiled
<1>6. CASE WinDeal \/ CancelDeal
  <2>1. PICK type \in {"won", "cancelled"} : Emit(type)
    BY <1>6 DEF WinDeal, CancelDeal
  <2>2. UNCHANGED batch /\ \E n \in Events \ Emitted : \A f \in Events \ {n} : event'[f] = event[f]
    BY <1>1, <2>1, EmitDoes DEF Rows
  <2>3. event'[e] = event[e]
    BY <2>2 DEF Emitted
  <2>4. QED
    BY <1>4, <2>2, <2>3
<1>7. ASSUME NEW f \in Events, LeaseEnds(f) \/ BecomesDue(f) PROVE Spoiled(e)'
  <2>1. UNCHANGED batch /\ event'[e].status = event[e].status /\ event'[e].lock \in {event[e].lock, None}
        /\ event'[e].attempts = event[e].attempts
    BY <1>1, <1>7, LeaseEndsDoes, BecomesDueDoes DEF Row
  <2>2. QED
    BY <1>4, <2>1
<1>8. ASSUME NEW b \in Batches, ReadCandidates(b) PROVE Spoiled(e)'
  <2>1. Others(b) /\ UNCHANGED table /\ batch[b].phase = "idle"
    BY <1>1, <1>8, ReadCandidatesDoes DEF ReadCandidates
  <2>2. QED
    BY <1>3, <1>5, <2>1 DEF table, Abandoned
<1>9. ASSUME NEW b \in Batches, Claim(b) PROVE Spoiled(e)'
  <2>1. /\ Others(b) /\ batch[b].phase = "read"
        /\ batch'[b].todo = {f \in batch[b].todo : event[f].lock = None}
        /\ \A f \in batch'[b].todo : event'[f].attempts = event[f].attempts
        /\ \A f \in Events \ batch'[b].todo : event'[f] = event[f]
    BY <1>1, <1>9, ClaimDoes
  <2>2. Abandoned(e) => e \notin batch'[b].todo
    BY <1>1, <2>1 DEF Abandoned, Routed
  <2>3. event'[e].attempts = event[e].attempts
    BY <2>1
  <2>4. Abandoned(e) => Abandoned(e)'
    BY <2>1, <2>2 DEF Abandoned
  <2>5. QED
    BY <1>3, <1>5, <2>1, <2>3, <2>4
<1>10. ASSUME NEW b \in Batches, NEW f \in Events, Begin(b, f) PROVE Spoiled(e)'
  <2>1. Others(b) /\ UNCHANGED table /\ batch[b].phase = "next"
    BY <1>1, <1>10, BeginDoes
  <2>2. QED
    BY <1>3, <1>5, <2>1 DEF table, Abandoned
<1>11. ASSUME NEW b \in Batches, NEW late \in BOOLEAN, Complete(b, late) PROVE Spoiled(e)'
  <2> DEFINE f == batch[b].event
  <2>1. /\ Others(b) /\ batch[b].phase = "complete" /\ f \in Events
        /\ event'[f].attempts = event[f].attempts
        /\ \A g \in Events \ {f} : event'[g] = event[g]
    BY <1>1, <1>11, CompleteDoes
  <2>2. event[f].lock = b
    BY <1>2, <2>1 DEF Held, Handling
  <2> HIDE DEF f
  <2>3. Abandoned(e) => Abandoned(e)'
    BY <2>1, <2>2 DEF Abandoned
  <2>4. event'[e].attempts = event[e].attempts
    BY <2>1
  <2>5. QED
    BY <1>3, <1>5, <2>1, <2>3, <2>4
<1>12. ASSUME NEW b \in Batches, NEW late \in BOOLEAN, Fail(b, late) PROVE Spoiled(e)'
  <2> DEFINE f == batch[b].event
  <2>1. /\ Others(b) /\ batch[b].phase = "fail" /\ f \in Events
        /\ event'[f].attempts = event[f].attempts + 1
        /\ \A g \in Events \ {f} : event'[g] = event[g]
    BY <1>1, <1>12, FailDoes
  <2>2. event[f].lock = b
    BY <1>2, <2>1 DEF Held, Handling
  <2>3. f = e => event'[e].attempts > 0 /\ event'[e].attempts \in Nat
    BY <1>3, <2>1
  <2>4. Abandoned(e) => Abandoned(e)'
    BY <2>1, <2>2 DEF Abandoned
  <2>5. event'[e].attempts >= event[e].attempts /\ event'[e].attempts \in Nat
    BY <1>3, <2>1
  <2>6. QED
    BY <1>5, <2>1, <2>3, <2>4, <2>5
<1>13. ASSUME NEW b \in Batches, NEW late \in BOOLEAN, WriteDeadLetter(b, late) PROVE Spoiled(e)'
  <2>1. Others(b) /\ batch[b].phase = "letter" /\ Row(e)
    BY <1>1, <1>13, WriteDeadLetterDoes
  <2>2. QED
    BY <1>3, <1>5, <2>1 DEF Row, Abandoned
<1>14. ASSUME NEW b \in Batches, NEW f \in Events, Skip(b, f) PROVE Spoiled(e)'
  <2>1. /\ Others(b) /\ f \in batch[b].todo /\ batch[b].phase = "skip"
        /\ event'[f].attempts = event[f].attempts
        /\ \A g \in Events \ {f} : event'[g] = event[g]
    BY <1>1, <1>14, SkipDoes
  <2>2. event[f].lock = b
    BY <1>2, <2>1 DEF Held
  <2>3. Abandoned(e) => Abandoned(e)'
    BY <2>1, <2>2 DEF Abandoned
  <2>4. event'[e].attempts = event[e].attempts
    BY <2>1
  <2>5. QED
    BY <1>3, <1>5, <2>1, <2>3, <2>4
<1>15. ASSUME NEW b \in Batches, Crash(b) PROVE Spoiled(e)'
  <2>1. /\ Others(b) /\ event'[e].attempts = event[e].attempts
        /\ event'[e].status = event[e].status
        /\ event'[e].lock = IF event[e].lock = b THEN Ghost ELSE event[e].lock
    BY <1>1, <1>15, CrashDoes
  <2>2. batch[b].phase = "fail" /\ batch[b].event = e => event[e].lock = b
    BY <1>2 DEF Held
  <2>3. event[e].lock = b => Abandoned(e)'
    BY <1>1, <1>3, <2>1 DEF Rows, Abandoned
  <2>4. Abandoned(e) => Abandoned(e)'
    BY <1>3, <2>1 DEF Abandoned
  <2>5. QED
    BY <1>3, <1>5, <2>1, <2>2, <2>3, <2>4
<1>16. ASSUME NEW b \in Batches, Publish(b) \/ Statement(b) PROVE Spoiled(e)'
  <2>1. Others(b) /\ Row(e) /\ batch[b].phase \in Handling
    BY <1>1, <1>16, PublishDoes, StatementDoes DEF Row, Handling
  <2>2. QED
    BY <1>3, <1>5, <2>1 DEF Row, Abandoned, Handling
<1>17. QED
  BY <1>6, <1>7, <1>8, <1>9, <1>10, <1>11, <1>12, <1>13, <1>14, <1>15, <1>16
  DEF Next, Work, Statement

LEMMA ArrivingStep ==
  ASSUME Base, Base', Next, Celebrated, Arriving, NEW b \in Batches, Others(b), deal' = deal,
         \A e \in Events : event'[e].type = event[e].type,
         celebration # "none" => celebration' # "none",
         batch'[b].phase = "award" => celebration' # "none",
         batch'[b].phase \in {"publish", "complete"} /\ event[batch'[b].event].type = "won" =>
           celebration' # "none",
         \A e \in Events : event[e].type = "won" /\ event'[e].status = "processed" =>
           event[e].status = "processed" \/ celebration' # "none",
         deal # "cancelled" =>
           /\ celebration' # "reversed" /\ \A r \in Rules : points'[r] # "reversed"
           /\ \A r \in Rules : points[r] = "given" => points'[r] = "given"
           /\ celebration' = "approved" => \A r \in Rules :
                \/ celebration = "approved" /\ ~(batch[b].phase = "award" /\ r \in batch[b].rules)
                \/ points'[r] = "given"
                \/ batch'[b].phase = "award" /\ r \in batch'[b].rules
                \/ \E e \in Emitted : Spoiled(e)'
  PROVE  Celebrated' /\ Arriving'
<1>1. Safe /\ Safe'
  BY DEF Base
<1>2. \A c \in Batches : batch'[c].phase \in Handling => batch'[c].event \in Events
  BY <1>1 DEF Safe, TypeOK
<1>3. Celebrated'
  BY <1>2 DEF Celebrated, Others, Handling
<1>4. Emitted' = Emitted
  BY DEF Emitted
<1>5. \A e \in Emitted : Spoiled(e) => Spoiled(e)'
  BY SpoiledKept DEF Emitted
<1>6. ASSUME deal # "cancelled", celebration' = "approved", NEW r \in Rules, points'[r] # "given",
             ~\E e \in Emitted : Spoiled(e)'
      PROVE  Awarding(r)'
  <2>1. CASE batch'[b].phase = "award" /\ r \in batch'[b].rules
    BY <2>1 DEF Awarding
  <2>2. CASE celebration = "approved" /\ ~(batch[b].phase = "award" /\ r \in batch[b].rules)
    <3>1. points[r] # "given" /\ ~\E e \in Emitted : Spoiled(e)
      BY <1>5, <1>6
    <3>2. PICK c \in Batches : batch[c].phase = "award" /\ r \in batch[c].rules
      BY <1>6, <2>2, <3>1 DEF Arriving, Awarding
    <3>3. c # b
      BY <2>2, <3>2
    <3>4. QED
      BY <3>2, <3>3 DEF Awarding, Others
  <2>3. QED
    BY <1>6, <2>1, <2>2
<1>7. Arriving'
  BY <1>4, <1>6 DEF Arriving
<1>8. QED
  BY <1>3, <1>7

LEMMA ArrivingKept ==
  ASSUME Base, Celebrated, Arriving, [Next]_vars
  PROVE  Celebrated' /\ Arriving'
<1>1. Base' /\ Safe /\ Rows /\ Routed /\ event \in [Events -> EventRow]
      /\ celebration \in {"none", "approved", "reversed"}
  BY BaseKept DEF Base, Safe, TypeOK
<1>2. CASE UNCHANGED vars
  <2>1. UNCHANGED <<deal, event, batch, celebration, points>>
    BY <1>2 DEF vars, table
  <2>2. QED
    BY <2>1 DEF Celebrated, Arriving, Awarding, Spoiled, Abandoned, Emitted
<1>3. ASSUME Next, UNCHANGED <<batch, celebration, points>>,
             deal = "cancelled" => deal' = "cancelled",
             \A e \in Events : event[e].type # "none" =>
               event'[e].type = event[e].type /\ event'[e].status = event[e].status,
             \A e \in Events : event[e].type = "none" => event'[e].status # "processed"
      PROVE  Celebrated' /\ Arriving'
  <2>1. \A e \in Emitted : e \in Emitted' /\ (Spoiled(e) => Spoiled(e)')
    BY <1>3, SpoiledKept DEF Emitted
  <2>2. \A b \in Batches : batch[b].phase \in Handling =>
          batch[b].event \in Events /\ event[batch[b].event].type # "none"
    BY <1>1 DEF Safe, TypeOK, Routed, Knows
  <2>3. Celebrated'
    BY <1>3, <2>2 DEF Celebrated, Handling
  <2>4. Arriving'
    BY <1>3, <2>1 DEF Arriving, Awarding
  <2>5. QED
    BY <2>3, <2>4
<1>4. CASE WinDeal \/ CancelDeal
  <2>1. PICK type \in {"won", "cancelled"} : Emit(type)
    BY <1>4 DEF WinDeal, CancelDeal
  <2>2. UNCHANGED <<batch, celebration, points>> /\
        \E n \in Events \ Emitted : /\ event'[n].status = "pending"
                                    /\ \A f \in Events \ {n} : event'[f] = event[f]
    BY <1>1, <2>1, EmitDoes DEF Rows
  <2>3. \A e \in Events : event[e].type = "none" => event'[e].status # "processed"
    BY <1>1, <2>2 DEF Rows
  <2>4. deal = "cancelled" => deal' = "cancelled"
    BY <1>4 DEF WinDeal, CancelDeal
  <2>5. Next
    BY <1>4 DEF Next
  <2>6. QED
    BY <1>3, <2>2, <2>3, <2>4, <2>5 DEF Emitted
<1>5. ASSUME NEW e \in Events, LeaseEnds(e) \/ BecomesDue(e) PROVE Celebrated' /\ Arriving'
  <2>1. UNCHANGED <<deal, batch, celebration, points>>
        /\ \A f \in Events : event'[f].type = event[f].type /\ event'[f].status = event[f].status
    BY <1>1, <1>5, LeaseEndsDoes, BecomesDueDoes DEF Row
  <2>2. \A f \in Events : event[f].type = "none" => event'[f].status # "processed"
    BY <1>1, <2>1 DEF Rows
  <2>3. Next
    BY <1>5 DEF Next
  <2>4. QED
    BY <1>3, <2>1, <2>2, <2>3
(* A step of a batch that leaves celebration and points as they are        *)
<1>6. ASSUME Next, NEW b \in Batches, Others(b), UNCHANGED <<deal, celebration, points>>,
             \A e \in Events : event'[e].type = event[e].type,
             batch'[b].phase \notin {"award", "publish", "complete"},
             \A e \in Events : event[e].type = "won" /\ event'[e].status = "processed" =>
               event[e].status = "processed" \/ celebration # "none",
             batch[b].phase # "award" \/ \E e \in Emitted : Spoiled(e)'
      PROVE  Celebrated' /\ Arriving'
  BY <1>1, <1>6, ArrivingStep DEF Arriving
<1>7. ASSUME NEW b \in Batches, ReadCandidates(b) \/ Claim(b) PROVE Celebrated' /\ Arriving'
  <2>1. /\ Others(b) /\ UNCHANGED <<deal, celebration, points>>
        /\ \A f \in Events : /\ event'[f].type = event[f].type
                             /\ event'[f].status = "processed" => event[f].status = "processed"
        /\ batch'[b].phase \in {"read", "idle", "next"} /\ batch[b].phase \in {"idle", "read"}
    BY <1>1, <1>7, ReadCandidatesDoes, ClaimDoes DEF table, ReadCandidates
  <2>2. Next
    BY <1>7 DEF Next, Work
  <2>3. QED
    BY <1>6, <2>1, <2>2
<1>8. ASSUME NEW b \in Batches, NEW e \in Events, Begin(b, e) \/ Skip(b, e) PROVE Celebrated' /\ Arriving'
  <2>1. /\ Others(b) /\ UNCHANGED <<deal, celebration, points>>
        /\ \A f \in Events : /\ event'[f].type = event[f].type
                             /\ event'[f].status = "processed" => event[f].status = "processed"
        /\ batch'[b].phase \in {"look", "entries", "idle", "next", "skip"}
        /\ batch[b].phase \in {"next", "skip"}
    BY <1>1, <1>8, BeginDoes, SkipDoes DEF table
  <2>2. Next
    BY <1>8 DEF Next, Work
  <2>3. QED
    BY <1>6, <2>1, <2>2
<1>9. ASSUME NEW b \in Batches, NEW late \in BOOLEAN, Fail(b, late) \/ WriteDeadLetter(b, late)
      PROVE  Celebrated' /\ Arriving'
  <2>1. /\ Others(b) /\ UNCHANGED <<deal, celebration, points>>
        /\ \A f \in Events : /\ event'[f].type = event[f].type
                             /\ event'[f].status = "processed" => event[f].status = "processed"
        /\ batch'[b].phase \in {"letter", "idle", "next", "skip"}
        /\ batch[b].phase \in {"fail", "letter"}
    BY <1>1, <1>9, FailDoes, WriteDeadLetterDoes DEF Row
  <2>2. Next
    BY <1>9 DEF Next, Work
  <2>3. QED
    BY <1>6, <2>1, <2>2
<1>10. ASSUME NEW b \in Batches, NEW late \in BOOLEAN, Complete(b, late) PROVE Celebrated' /\ Arriving'
  <2> DEFINE e == batch[b].event
  <2>1. /\ Others(b) /\ UNCHANGED <<deal, celebration, points>>
        /\ batch[b].phase = "complete" /\ e \in Events
        /\ event'[e].type = event[e].type /\ \A f \in Events \ {e} : event'[f] = event[f]
        /\ batch'[b].phase \in {"idle", "next", "skip"}
    BY <1>1, <1>10, CompleteDoes
  <2>2. event[e].type = "won" => celebration # "none"
    BY <2>1 DEF Celebrated
  <2> HIDE DEF e
  <2>3. \A f \in Events : event[f].type = "won" /\ event'[f].status = "processed" =>
          event[f].status = "processed" \/ celebration # "none"
    BY <2>1, <2>2
  <2>4. Next /\ \A f \in Events : event'[f].type = event[f].type
    BY <1>10, <2>1 DEF Next, Work
  <2>5. QED
    BY <1>6, <2>1, <2>3, <2>4
<1>11. ASSUME NEW b \in Batches, Crash(b) PROVE Celebrated' /\ Arriving'
  <2>1. /\ Others(b) /\ UNCHANGED <<deal, celebration, points>> /\ batch'[b].phase = "idle"
        /\ \A f \in Events :
             /\ event'[f].type = event[f].type /\ event'[f].status = event[f].status
             /\ event'[f].lock = IF event[f].lock = b THEN Ghost ELSE event[f].lock
    BY <1>1, <1>11, CrashDoes
  <2>2. ASSUME batch[b].phase = "award" PROVE \E e \in Emitted : Spoiled(e)'
    <3>1. PICK e \in Events : e = batch[b].event
      BY <1>1, <2>2 DEF Safe, TypeOK, Handling
    <3>2. e \in Held(b) /\ event[e].type = "won"
      BY <1>1, <2>2, <3>1 DEF Held, Handling, Routed
    <3>3. event[e].lock = b
      BY <1>1, <3>2 DEF Safe, HandledByOne
    <3>4. Abandoned(e)'
      BY <1>1, <2>1, <3>3, OutboxAssumption DEF Rows, Abandoned
    <3>5. QED
      BY <3>2, <3>4 DEF Spoiled, Emitted
  <2>3. Next
    BY <1>11 DEF Next
  <2>4. QED
    BY <1>6, <2>1, <2>2, <2>3
<1>12. ASSUME NEW b \in Batches, Publish(b) PROVE Celebrated' /\ Arriving'
  <2>1. /\ Others(b) /\ Stays(b) /\ UNCHANGED <<deal, celebration, points>>
        /\ batch[b].phase = "publish" /\ batch'[b].phase = "complete"
        /\ \A f \in Events : event'[f].type = event[f].type /\ event'[f].status = event[f].status
    BY <1>1, <1>12, PublishDoes DEF Row
  <2>2. event[batch'[b].event].type = "won" => celebration # "none"
    BY <2>1 DEF Celebrated, Stays
  <2>3. Next
    BY <1>12 DEF Next, Work
  <2>4. QED
    BY <1>1, <2>1, <2>2, <2>3, ArrivingStep DEF Arriving
<1>13. ASSUME NEW b \in Batches, Statement(b) PROVE Celebrated' /\ Arriving'
  <2>1. /\ Others(b) /\ Stays(b) /\ UNCHANGED <<deal, event>>
        /\ batch[b].phase \in Handling /\ batch[b].event \in Events
    BY <1>1, <1>13, StatementDoes
  <2>2. Next
    BY <1>13 DEF Next, Work, Statement
  <2>3. CASE Look(b)
    <3>1. /\ UNCHANGED <<celebration, points>> /\ batch[b].phase = "look"
          /\ batch'[b].phase = IF celebration = "none" THEN "celebrate" ELSE "publish"
      BY <1>1, <2>3, GotoDoes DEF Look, table
    <3>2. QED
      BY <1>1, <2>1, <2>2, <3>1, ArrivingStep DEF Arriving
  <2>4. CASE Celebrate(b)
    <3>1. CASE celebration # "none"
      <4>1. UNCHANGED <<celebration, points>> /\ batch[b].phase = "celebrate" /\ batch'[b].phase = "fail"
        BY <1>1, <2>4, <3>1, GotoDoes DEF Celebrate
      <4>2. QED
        BY <1>6, <2>1, <2>2, <4>1
    <3>2. CASE celebration = "none"
      <4>1. /\ celebration' = "approved" /\ UNCHANGED points /\ batch'[b].rules = Rules
            /\ batch'[b].phase = IF Rules = {} THEN "publish" ELSE "award"
        BY <1>1, <2>4, <3>2, StateIs DEF Celebrate, Batch
      <4>2. \A r \in Rules : batch'[b].phase = "award" /\ r \in batch'[b].rules
        BY <4>1
      <4>3. deal # "cancelled" => \A r \in Rules : points'[r] # "reversed"
        BY <4>1 DEF Arriving
      <4>4. QED
        BY <1>1, <2>1, <2>2, <4>1, <4>2, <4>3, ArrivingStep
    <3>3. QED
      BY <3>1, <3>2
  <2>5. ASSUME NEW r \in Rules, Award(b, r) PROVE Celebrated' /\ Arriving'
    <3>1. /\ UNCHANGED celebration /\ batch[b].phase = "award"
          /\ points' = [points EXCEPT ![r] = IF @ = "none" THEN "given" ELSE @]
          /\ batch'[b].rules = batch[b].rules \ {r}
          /\ batch'[b].phase = IF batch[b].rules = {r} THEN "publish" ELSE "award"
      BY <1>1, <2>5, StateIs DEF Award, Batch
    <3>2. celebration # "none"
      BY <3>1 DEF Celebrated
    <3>3. deal # "cancelled" =>
            /\ celebration' # "reversed" /\ \A s \in Rules : points'[s] # "reversed"
            /\ \A s \in Rules : points[s] = "given" => points'[s] = "given"
            /\ points'[r] = "given"
      BY <1>1, <3>1, StateIs DEF Arriving
    <3>4. \A s \in batch[b].rules \ {r} : batch'[b].phase = "award" /\ s \in batch'[b].rules
      BY <3>1
    <3>5. deal # "cancelled" /\ celebration' = "approved" => \A s \in Rules :
            \/ celebration = "approved" /\ ~(batch[b].phase = "award" /\ s \in batch[b].rules)
            \/ points'[s] = "given"
            \/ batch'[b].phase = "award" /\ s \in batch'[b].rules
      BY <3>1, <3>3, <3>4
    <3>6. QED
      BY <1>1, <2>1, <2>2, <3>1, <3>2, <3>3, <3>5, ArrivingStep
  <2>6. CASE Throw(b)
    <3>1. UNCHANGED <<celebration, points>> /\ batch'[b].phase = "fail"
      BY <1>1, <2>6, GotoDoes DEF Throw, table
    <3>2. PICK e \in Events : e = batch[b].event
      BY <2>1
    <3>3. Spoiled(e)' /\ e \in Emitted
      BY <1>1, <2>1, <3>1, <3>2 DEF Spoiled, Stays, Routed, Knows, Emitted
    <3>4. QED
      BY <1>6, <2>1, <2>2, <3>1, <3>3
  <2>7. ASSUME \/ ReadEntries(b) \/ Negate(b) \/ MarkCelebration(b) \/ \E r \in Rules : CheckEntry(b, r)
        PROVE  Celebrated' /\ Arriving'
    <3>1. batch[b].phase \in {"entries", "check", "negate", "mark"}
      BY <2>7 DEF ReadEntries, Negate, MarkCelebration, CheckEntry
    <3>2. event[batch[b].event].type = "cancelled" /\ deal = "cancelled"
      BY <1>1, <2>1, <3>1 DEF Routed, Rows
    <3>3. celebration # "none" => celebration' # "none"
      BY <2>7 DEF ReadEntries, Negate, MarkCelebration, CheckEntry, table
    <3>4. batch'[b].phase # "award"
      BY <1>1, <2>7, <3>1, StatementPhases DEF Statement
    <3>5. event[batch'[b].event].type # "won"
      BY <2>1, <3>2 DEF Stays
    <3>6. QED
      BY <1>1, <2>1, <2>2, <3>2, <3>3, <3>4, <3>5, ArrivingStep
  <2>8. QED
    BY <1>13, <2>3, <2>4, <2>5, <2>6, <2>7 DEF Statement
<1>14. QED
  BY <1>2, <1>4, <1>5, <1>7, <1>8, <1>9, <1>10, <1>11, <1>12, <1>13 DEF Next, Work, Statement

-----------------------------------------------------------------------------
(* Theorems *)

(* The rows and the batches keep their types.                              *)
THEOREM TypeCorrect == Spec => []TypeOK
<1>1. Init => Safe
  BY InitSafe
<1>2. Safe /\ [Next]_vars => Safe'
  BY SafeKept
<1>3. Safe => TypeOK
  BY DEF Safe
<1>4. QED
  BY <1>1, <1>2, <1>3, PTL DEF Spec

(* claimEvents: however many batches read the same events before they      *)
(* claim them, and whichever die, an event is handled by the batch that    *)
(* locked it and by no other.                                              *)
THEOREM OneBatchHandles == Spec => []HandledByOne
<1>1. Init => Safe
  BY InitSafe
<1>2. Safe /\ [Next]_vars => Safe'
  BY SafeKept
<1>3. Safe => HandledByOne
  BY DEF Safe
<1>4. QED
  BY <1>1, <1>2, <1>3, PTL DEF Spec

(* outbox.js:33: an event counts as processed only with its deliveries     *)
(* written, whatever returned early, threw, was retried or died before.    *)
THEOREM ProcessedIsDelivered == Spec => []Delivered
<1>1. Init => Safe /\ Published
  BY InitSafe, IdleBatch DEF Init, Published, Delivered
<1>2. Safe /\ Published /\ [Next]_vars => (Safe /\ Published)'
  BY SafeKept, PublishedKept
<1>3. Safe /\ Published => Delivered
  BY DEF Published
<1>4. QED
  BY <1>1, <1>2, <1>3, PTL DEF Spec

(* user-flows.md:84: however the handlers of a cancelled deal throw, die   *)
(* or come late, one cancellation that was processed leaves no points and  *)
(* no celebration, as long as the deal was cancelled only when its wins    *)
(* had been dealt with.                                                    *)
THEOREM CancelledIsClear == ASSUME Patient PROVE Spec => []CancelledLeavesNothing
<1>1. Init => Base /\ Withdrawn
  BY InitBase, NothingToWithdraw DEF Init
<1>2. Base /\ Withdrawn /\ [Next]_vars => (Base /\ Withdrawn)'
  BY BaseKept, WithdrawnKept
<1>3. Base /\ Withdrawn => CancelledLeavesNothing
  BY DEF Withdrawn, CancelledLeavesNothing, Emitted, Cleared, NoPoints
<1>4. QED
  BY <1>1, <1>2, <1>3, PTL DEF Spec

(* user-flows.md:82: a won deal ends with its celebration and all of its   *)
(* points, however often it was won and whichever batches raced for its    *)
(* events, unless one of them threw or died.                               *)
THEOREM WonDealHasItsPoints == Spec => []PointsArrive
<1>1. Init => Base /\ Celebrated /\ Arriving
  BY InitBase DEF Init, Celebrated, Arriving, Idle
<1>2. Base /\ Celebrated /\ Arriving /\ [Next]_vars => (Base /\ Celebrated /\ Arriving)'
  BY BaseKept, ArrivingKept
<1>3. Base /\ Celebrated /\ Arriving => PointsArrive
  <2> SUFFICES ASSUME Base, Celebrated, Arriving, Quiet, deal = "won",
                      \A e \in Emitted : event[e].status = "processed" /\ event[e].attempts = 0
               PROVE  (\A r \in Rules : points[r] = "given") /\ celebration = "approved"
    BY DEF PointsArrive
  <2>1. Safe /\ Rows /\ Routed
    BY DEF Base
  <2>2. \E e \in Events : event[e].type = "won" /\ event[e].status = "processed"
    BY <2>1 DEF Rows, Emitted, Safe, TypeOK, EventRow
  <2>3. celebration = "approved"
    BY <2>1, <2>2 DEF Celebrated, Arriving, Safe, TypeOK
  <2>4. \A e \in Emitted : ~Spoiled(e)
    BY DEF Quiet, Settled, Spoiled, Abandoned
  <2>5. \A r \in Rules : ~Awarding(r)
    <3>1. \A b \in Batches : batch[b].phase # "award"
      BY <2>1 DEF Safe, TypeOK, Routed, Quiet, Settled, Emitted, Handling
    <3>2. QED
      BY <3>1 DEF Awarding
  <2>6. QED
    BY <2>3, <2>4, <2>5 DEF Arriving
<1>4. QED
  BY <1>1, <1>2, <1>3, PTL DEF Spec

-----------------------------------------------------------------------------
(* The batches implement Leases, as those of JobQueue do                   *)

Locked(b) == {e \in Events : event[e].lock = b}
(* The locks of all other rows stay with the batches they are with *)
LocksStay(S) == \A e \in Events \ S, c \in Batches : event'[e].lock = c <=> event[e].lock = c

LEMMA HandsAreLocks == ASSUME TypeOK, HandledByOne PROVE Hands = [b \in Batches |-> Locked(b)]
<1>1. \A b \in Batches : Held(b) = Locked(b)
  BY DEF HandledByOne, Locked, Held
<1>2. QED
  BY <1>1 DEF Hands

LEMMA NothingMoves ==
  ASSUME Hands = [b \in Batches |-> Locked(b)], Hands' = [b \in Batches |-> Locked(b)'],
         LocksStay({})
  PROVE  UNCHANGED Hands
<1>1. \A b \in Batches : Locked(b)' = Locked(b)
  BY DEF LocksStay, Locked
<1>2. QED
  BY <1>1

LEMMA TakesHand ==
  ASSUME Hands = [b \in Batches |-> Locked(b)], Hands' = [b \in Batches |-> Locked(b)'],
         NEW b \in Batches, NEW S \in SUBSET Events, LocksStay(S),
         \A e \in S : event[e].lock \notin Batches /\ event'[e].lock = b
  PROVE  Lease!Next
<1>1. S \in SUBSET Lease!Free
  BY DEF Lease!Free, Locked
<1>2. \A c \in Batches : Locked(c)' = IF c = b THEN Locked(c) \cup S ELSE Locked(c)
  BY DEF LocksStay, Locked
<1>3. Hands' = [Hands EXCEPT ![b] = @ \cup S]
  BY <1>2
<1>4. Lease!Take(b)
  BY <1>1, <1>3 DEF Lease!Take
<1>5. QED
  BY <1>4 DEF Lease!Next

LEMMA LaysDownHand ==
  ASSUME Hands = [b \in Batches |-> Locked(b)], Hands' = [b \in Batches |-> Locked(b)'],
         NEW b \in Batches, NEW S \in SUBSET Events, LocksStay(S),
         \A e \in S : event[e].lock = b /\ event'[e].lock \notin Batches
  PROVE  Lease!Next
<1>1. S \in SUBSET Hands[b]
  BY DEF Locked
<1>2. \A c \in Batches : Locked(c)' = IF c = b THEN Locked(c) \ S ELSE Locked(c)
  BY DEF LocksStay, Locked
<1>3. Hands' = [Hands EXCEPT ![b] = @ \ S]
  BY <1>2
<1>4. Lease!LayDown(b)
  BY <1>1, <1>3 DEF Lease!LayDown
<1>5. QED
  BY <1>4 DEF Lease!Next

LEMMA LeasesStep == ASSUME Safe, [Next]_vars PROVE [Lease!Next]_Hands
<1> USE OutboxAssumption
<1>1. TypeOK /\ HandledByOne /\ Hands = [b \in Batches |-> Locked(b)]
  BY HandsAreLocks DEF Safe
<1>2. Hands' = [b \in Batches |-> Locked(b)']
  <2>1. (TypeOK /\ HandledByOne)'
    BY SafeKept DEF Safe
  <2>2. (TypeOK /\ HandledByOne => Hands = [b \in Batches |-> Locked(b)])'
    BY HandsAreLocks, PTL
  <2>3. QED
    BY <2>1, <2>2
<1>3. ASSUME \A e \in Events : event'[e].lock = event[e].lock PROVE UNCHANGED Hands
  BY <1>1, <1>2, <1>3, NothingMoves DEF LocksStay
<1>4. CASE UNCHANGED event
  BY <1>3, <1>4
<1>5. ASSUME WinDeal \/ CancelDeal PROVE UNCHANGED Hands
  <2>1. \A e \in Events : event'[e].lock = event[e].lock
    BY <1>1, <1>5 DEF WinDeal, CancelDeal, Emit, TypeOK, EventRow
  <2>2. QED
    BY <1>3, <2>1
<1>6. ASSUME NEW e \in Events, LeaseEnds(e) \/ BecomesDue(e) PROVE UNCHANGED Hands
  <2>1. /\ \A d \in Events \ {e} : event'[d] = event[d]
        /\ event'[e].lock = event[e].lock \/ (event[e].lock = Ghost /\ event'[e].lock = None)
    BY <1>1, <1>6 DEF LeaseEnds, BecomesDue, TypeOK, EventRow
  <2>2. LocksStay({})
    BY <2>1 DEF LocksStay
  <2>3. QED
    BY <1>1, <1>2, <2>2, NothingMoves
<1>7. ASSUME NEW b \in Batches, Claim(b) PROVE Lease!Next
  <2> DEFINE taken == {e \in batch[b].todo : Unlocked(e)}
  <2>1. taken \in SUBSET Events
    BY <1>1 DEF TypeOK, Batch
  <2>2. \A e \in Events : event'[e] = IF e \in taken
                                         THEN [event[e] EXCEPT !.status = "processing", !.lock = b]
                                         ELSE event[e]
    BY <1>7 DEF Claim
  <2>3. \A e \in taken : event[e].lock = None /\ event'[e].lock = b
    BY <1>1, <2>1, <2>2 DEF Unlocked, TypeOK, EventRow
  <2>4. LocksStay(taken)
    BY <2>2 DEF LocksStay
  <2>5. QED
    BY <1>1, <1>2, <2>1, <2>3, <2>4, TakesHand
<1>8. ASSUME NEW b \in Batches, NEW e \in Held(b), event'[e].lock = None,
             \A d \in Events \ {e} : event'[d] = event[d]
      PROVE  Lease!Next
  <2>1. e \in Events /\ event[e].lock = b
    BY <1>1, <1>8 DEF Held, HandledByOne
  <2>2. LocksStay({e})
    BY <1>8 DEF LocksStay
  <2>3. QED
    BY <1>1, <1>2, <1>8, <2>1, <2>2, LaysDownHand
<1>9. ASSUME NEW b \in Batches, NEW late \in BOOLEAN, Complete(b, late) \/ Fail(b, late)
      PROVE  Lease!Next
  <2>1. batch[b].event \in Held(b)
    BY <1>1, <1>9 DEF Complete, Fail, Held, Handling, Recording, TypeOK
  <2>2. event'[batch[b].event].lock = None
        /\ \A d \in Events \ {batch[b].event} : event'[d] = event[d]
    BY <1>1, <1>9, <2>1 DEF Complete, Fail, TypeOK, EventRow, Held
  <2>3. QED
    BY <1>8, <2>1, <2>2
<1>10. ASSUME NEW b \in Batches, NEW e \in Events, Skip(b, e) PROVE Lease!Next
  <2>1. e \in Held(b)
    BY <1>10 DEF Skip, Held
  <2>2. event'[e].lock = None /\ \A d \in Events \ {e} : event'[d] = event[d]
    BY <1>1, <1>10 DEF Skip, TypeOK, EventRow
  <2>3. QED
    BY <1>8, <2>1, <2>2
<1>11. ASSUME NEW b \in Batches, Crash(b) PROVE Lease!Next
  <2> DEFINE S == {e \in Events : event[e].lock = b}
  <2>1. \A e \in Events : event'[e] = IF event[e].lock = b THEN [event[e] EXCEPT !.lock = Ghost]
                                                           ELSE event[e]
    BY <1>11 DEF Crash
  <2>2. \A e \in S : event'[e].lock = Ghost
    BY <1>1, <2>1 DEF TypeOK, EventRow
  <2>3. LocksStay(S)
    BY <2>1 DEF LocksStay
  <2>4. QED
    BY <1>1, <1>2, <2>2, <2>3, LaysDownHand
<1>12. ASSUME NEW b \in Batches, Publish(b) \/ \E late \in BOOLEAN : WriteDeadLetter(b, late)
       PROVE  UNCHANGED Hands
  <2>1. \A e \in Events : event'[e].lock = event[e].lock
    BY <1>1, <1>12 DEF Publish, WriteDeadLetter, TypeOK, EventRow
  <2>2. QED
    BY <1>3, <2>1
<1>13. ASSUME NEW b \in Batches, ReadCandidates(b) \/ Work(b)
       PROVE  UNCHANGED event \/ UNCHANGED Hands \/ Lease!Next
  BY <1>7, <1>9, <1>10, <1>12, <1>13
     DEF Work, ReadCandidates, Begin, Look, Celebrate, ReadEntries, Negate, MarkCelebration, Award,
         CheckEntry, Throw, table
<1>14. QED
  BY <1>4, <1>5, <1>6, <1>11, <1>13 DEF Next, vars, table

(* outbox.js:52: however the statements of batches, the faults and the     *)
(* leases fall, an event goes into a hand only from none, and out of it    *)
(* only by its batch or the death of it.                                   *)
THEOREM BatchesImplementLeases == Spec => ImplementsLeases
<1>1. Init => Lease!Init
  BY DEF Init, Lease!Init, Hands, Held, Idle, Handling
<1>2. Init => Safe
  BY InitSafe
<1>3. Safe /\ [Next]_vars => Safe'
  BY SafeKept
<1>4. Safe /\ [Next]_vars => [Lease!Next]_Hands
  BY LeasesStep
<1>5. QED
  BY <1>1, <1>2, <1>3, <1>4, PTL DEF Spec, ImplementsLeases, Lease!Spec

=============================================================================
