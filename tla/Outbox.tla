------------------------------- MODULE Outbox -------------------------------
(***************************************************************************)
(* The events of one deal on their way through the outbox, and what their  *)
(* handlers leave on the sales screen: the celebration of the deal and the *)
(* points given for it (core/outbox.js, jobs/outbox-processor.js and       *)
(* modules/sales-screen/service.js).                                       *)
(*                                                                         *)
(* An event is written in the transaction of the stage change it reports.  *)
(* Batches claim events and handle them; every statement of a handler is a *)
(* step, any of them may throw, and a batch may die between any two.  The  *)
(* deal is eligible for the sales screen and has an agent, and the tenant  *)
(* approves celebrations automatically.                                    *)
(***************************************************************************)
EXTENDS Integers, FiniteSets

CONSTANTS
  MaxEvents,    \* stage changes of the deal (bound, below a batch's limit)
  Rules,        \* the active points rules for a won deal
  Batches,      \* calls of processOutboxBatch that may be under way together
  None,         \* an SQL NULL
  Ghost,        \* locked_by of a batch that died
  MaxAttempts,  \* maxAttempts of failEvent
  MaxFaults,    \* how often a statement may throw or a batch die (bound)
  Patient,      \* whether a won deal is cancelled only when its win is dealt with
  InOrder       \* whether claimEvents returns the events in the order of their ids,
                \* although its query asks for no order

ASSUME OutboxAssumption ==
  /\ None \notin Batches \cup Rules \cup (1..MaxEvents) /\ Ghost \notin Batches \cup {None}
  /\ MaxEvents \in Nat /\ MaxAttempts \in Nat \ {0} /\ MaxFaults \in Nat
  /\ Patient \in BOOLEAN /\ InOrder \in BOOLEAN

Events == 1..MaxEvents

VARIABLES
  deal,         \* the stage of the deal
  event,        \* outbox_events in the order of emission, type "none" before
  batch,        \* where each batch is
  celebration,  \* the sales_events row of the deal, "none" before the insert
  points,       \* for each rule, its entry in points_ledger and the reversal
  faults        \* how often a statement threw or a batch died

table == <<deal, event, celebration, points>>
vars == <<table, batch, faults>>

EventStatus == {"none", "pending", "processing", "processed", "dead"}
EventRow == [type : {"none", "won", "cancelled"}, status : EventStatus, attempts : Nat,
             lock : Batches \cup {None, Ghost}, due : BOOLEAN,
             delivered : BOOLEAN,  \* it has rows in webhook_deliveries
             letter : BOOLEAN]     \* it has a row in dead_letter_jobs

Handling == {"look", "celebrate", "award", "entries", "check", "negate", "mark", "publish",
             "complete"}
Recording == {"fail", "letter"}
Phase == {"idle", "read", "next", "skip"} \cup Handling \cup Recording
Batch == [phase : Phase, todo : SUBSET Events, event : Events \cup {None},
          rules : SUBSET Rules, rule : Rules \cup {None}]
Idle == [phase |-> "idle", todo |-> {}, event |-> None, rules |-> {}, rule |-> None]

Init ==
  /\ deal = "signed"
  /\ event = [e \in Events |-> [type |-> "none", status |-> "none", attempts |-> 0, lock |-> None,
                                due |-> FALSE, delivered |-> FALSE, letter |-> FALSE]]
  /\ batch = [b \in Batches |-> Idle]
  /\ celebration = "none"
  /\ points = [r \in Rules |-> "none"]
  /\ faults = 0

-----------------------------------------------------------------------------
(* The deal.  The machine of its stages lets a stage be asked for again.   *)

Emitted == {e \in Events : event[e].type # "none"}
(* emitEvent, in the transaction of the stage change                       *)
Emit(type) ==
  LET e == Cardinality(Emitted) + 1 IN
  /\ e \in Events
  /\ event' = [event EXCEPT ![e].type = type, ![e].status = "pending", ![e].due = TRUE]
  /\ UNCHANGED <<batch, celebration, points, faults>>

WinDeal ==
  /\ deal \in {"signed", "won"}
  /\ deal' = "won"
  /\ Emit("won")

(* No batch will do anything more with the event.                          *)
Abandoned(e) == event[e].status = "processing" /\ event[e].lock \notin Batches
Settled(e) ==
  /\ event[e].status \in {"processed", "dead"} \/ Abandoned(e)
  /\ \A b \in Batches : e \notin batch[b].todo /\ batch[b].event # e

CancelDeal ==
  /\ Patient => \A e \in Emitted : event[e].type = "won" => Settled(e)
  /\ deal' = "cancelled"
  /\ Emit("cancelled")

-----------------------------------------------------------------------------
(* claimEvents: two statements, as for jobs *)

Claimable(e) == event[e].status = "pending" /\ event[e].due /\ event[e].lock = None

ReadCandidates(b) ==
  LET claimable == {e \in Events : Claimable(e)} IN
  /\ batch[b].phase = "idle" /\ claimable # {}
  /\ batch' = [batch EXCEPT ![b] = [Idle EXCEPT !.phase = "read", !.todo = claimable]]
  /\ UNCHANGED <<table, faults>>

Resume(todo, late) ==
  [Idle EXCEPT !.phase = IF todo = {} THEN "idle" ELSE IF late THEN "skip" ELSE "next",
               !.todo = todo]

TakeLocked(e) == TRUE  \* mutant
Unlocked(e) == event[e].lock = None
Claim(b) ==
  LET taken == {e \in batch[b].todo : Unlocked(e)} IN
  /\ batch[b].phase = "read"
  /\ event' = [e \in Events |-> IF e \in taken
                                  THEN [event[e] EXCEPT !.status = "processing", !.lock = b]
                                  ELSE event[e]]
  /\ batch' = [batch EXCEPT ![b] = Resume(taken, FALSE)]
  /\ UNCHANGED <<deal, celebration, points, faults>>

-----------------------------------------------------------------------------
(* handleOutboxEvent *)

Goto(b, phase) == batch' = [batch EXCEPT ![b].phase = phase]

Begin(b, e) ==
  /\ batch[b].phase = "next" /\ e \in batch[b].todo
  /\ InOrder => \A f \in batch[b].todo : e <= f
  /\ batch' = [batch EXCEPT ![b].phase = IF event[e].type = "won" THEN "look" ELSE "entries",
                            ![b].todo = @ \ {e}, ![b].event = e]
  /\ UNCHANGED <<table, faults>>

LookAndLeave(b) ==  \* mutant
  /\ batch[b].phase = "look"
  /\ Goto(b, IF celebration = "none" THEN "celebrate" ELSE "complete")
  /\ UNCHANGED <<table, faults>>
(* createSalesEvent is done when the celebration is there already.         *)
Look(b) ==
  /\ batch[b].phase = "look"
  /\ Goto(b, IF celebration = "none" THEN "celebrate" ELSE "publish")
  /\ UNCHANGED <<table, faults>>

(* The key of the celebration is unique: a second insert throws.           *)
Celebrate(b) ==
  /\ batch[b].phase = "celebrate"
  /\ IF celebration = "none"
       THEN /\ celebration' = "approved"
            /\ batch' = [batch EXCEPT ![b].phase = IF Rules = {} THEN "publish" ELSE "award",
                                      ![b].rules = Rules]
       ELSE Goto(b, "fail") /\ UNCHANGED celebration
  /\ UNCHANGED <<deal, event, points, faults>>

AwardOne(b, r) ==  \* mutant
  /\ batch[b].phase = "award" /\ r \in batch[b].rules
  /\ points' = [points EXCEPT ![r] = IF @ = "none" THEN "given" ELSE @]
  /\ batch' = [batch EXCEPT ![b].phase = "publish", ![b].rules = {}]
  /\ UNCHANGED <<deal, event, celebration, faults>>
(* awardPoints, one rule.  Its look and its insert are one step: only the  *)
(* handler that inserted the celebration comes here.                       *)
Award(b, r) ==
  /\ batch[b].phase = "award" /\ r \in batch[b].rules
  /\ points' = [points EXCEPT ![r] = IF @ = "none" THEN "given" ELSE @]
  /\ batch' = [batch EXCEPT ![b].phase = IF batch[b].rules = {r} THEN "publish" ELSE "award",
                            ![b].rules = @ \ {r}]
  /\ UNCHANGED <<deal, event, celebration, faults>>

(* reversePointsFor reads the entries of the deal and goes through them.   *)
ReadEntries(b) ==
  LET entries == {r \in Rules : points[r] # "none"} IN
  /\ batch[b].phase = "entries"
  /\ batch' = [batch EXCEPT ![b].phase = IF entries = {} THEN "mark" ELSE "check",
                            ![b].rules = entries]
  /\ UNCHANGED <<table, faults>>

Further(b, r) ==
  batch' = [batch EXCEPT ![b].phase = IF batch[b].rules = {r} THEN "mark" ELSE "check",
                         ![b].rules = @ \ {r}, ![b].rule = None]

CheckEntry(b, r) ==
  /\ batch[b].phase = "check" /\ r \in batch[b].rules
  /\ IF points[r] = "reversed"
       THEN Further(b, r)
       ELSE batch' = [batch EXCEPT ![b].phase = "negate", ![b].rule = r]
  /\ UNCHANGED <<table, faults>>

NegateOne(b) ==  \* mutant
  LET r == batch[b].rule IN
  /\ batch[b].phase = "negate"
  /\ points' = [points EXCEPT ![r] = "reversed"]
  /\ batch' = [batch EXCEPT ![b].phase = "mark", ![b].rules = {}, ![b].rule = None]
  /\ UNCHANGED <<deal, event, celebration, faults>>
(* The key of a reversal is unique: another handler may have come first.   *)
Negate(b) ==
  LET r == batch[b].rule IN
  /\ batch[b].phase = "negate"
  /\ IF points[r] = "reversed"
       THEN Goto(b, "fail") /\ UNCHANGED points
       ELSE Further(b, r) /\ points' = [points EXCEPT ![r] = "reversed"]
  /\ UNCHANGED <<deal, event, celebration, faults>>

MarkCelebration(b) ==
  /\ batch[b].phase = "mark"
  /\ celebration' = IF celebration = "none" THEN "none" ELSE "reversed"
  /\ Goto(b, "publish")
  /\ UNCHANGED <<deal, event, points, faults>>

(* The workflows triggered and a delivery for every endpoint subscribed.   *)
Publish(b) ==
  /\ batch[b].phase = "publish"
  /\ event' = [event EXCEPT ![batch[b].event].delivered = TRUE]
  /\ Goto(b, "complete")
  /\ UNCHANGED <<deal, celebration, points, faults>>

-----------------------------------------------------------------------------
(* The outcome of an event *)

(* Any statement of the handler, or of completeEvent, may throw.           *)
Throw(b) ==
  /\ faults < MaxFaults
  /\ batch[b].phase \in Handling
  /\ faults' = faults + 1
  /\ Goto(b, "fail")
  /\ UNCHANGED table

Complete(b, late) ==
  /\ batch[b].phase = "complete"
  /\ event' = [event EXCEPT ![batch[b].event].status = "processed", ![batch[b].event].lock = None]
  /\ batch' = [batch EXCEPT ![b] = Resume(@.todo, late)]
  /\ UNCHANGED <<deal, celebration, points, faults>>

Exhausted(attempts) == attempts >= MaxAttempts
StatusOfAttempt(attempts) == IF Exhausted(attempts) THEN "dead" ELSE "failed"  \* mutant
StatusAfter(attempts) == IF Exhausted(attempts) THEN "dead" ELSE "pending"

Fail(b, late) ==
  LET e == batch[b].event
      attempts == event[e].attempts + 1
  IN
  /\ batch[b].phase = "fail"
  /\ event' = [event EXCEPT ![e].status = StatusAfter(attempts), ![e].attempts = attempts,
                            ![e].lock = None, ![e].due = FALSE]
  /\ IF Exhausted(attempts) THEN Goto(b, "letter")
                            ELSE batch' = [batch EXCEPT ![b] = Resume(@.todo, late)]
  /\ UNCHANGED <<deal, celebration, points, faults>>

WriteDeadLetter(b, late) ==
  /\ batch[b].phase = "letter"
  /\ event' = [event EXCEPT ![batch[b].event].letter = TRUE]
  /\ batch' = [batch EXCEPT ![b] = Resume(@.todo, late)]
  /\ UNCHANGED <<deal, celebration, points, faults>>

(* Past its time budget a batch gives the rest of its events back.         *)
Skip(b, e) ==
  /\ batch[b].phase = "skip" /\ e \in batch[b].todo
  /\ event' = [event EXCEPT ![e].status = "pending", ![e].lock = None]
  /\ batch' = [batch EXCEPT ![b] = Resume(@.todo \ {e}, TRUE)]
  /\ UNCHANGED <<deal, celebration, points, faults>>

-----------------------------------------------------------------------------
(* Time, and the platform that runs the functions *)

Crash(b) ==
  /\ faults < MaxFaults
  /\ batch[b].phase # "idle"
  /\ faults' = faults + 1
  /\ event' = [e \in Events |-> IF event[e].lock = b THEN [event[e] EXCEPT !.lock = Ghost]
                                                    ELSE event[e]]
  /\ batch' = [batch EXCEPT ![b] = Idle]
  /\ UNCHANGED <<deal, celebration, points>>

(* A lease is as long as a function may live: it does not run out under a  *)
(* live batch, nor under one that has read the event as a candidate.       *)
LeaseEnds(e) ==
  /\ event[e].lock = Ghost
  /\ \A b \in Batches : batch[b].phase = "read" => e \notin batch[b].todo
  /\ event' = [event EXCEPT ![e].lock = None]
  /\ UNCHANGED <<deal, batch, celebration, points, faults>>

BecomesDue(e) ==
  /\ event[e].status = "pending" /\ ~event[e].due
  /\ event' = [event EXCEPT ![e].due = TRUE]
  /\ UNCHANGED <<deal, batch, celebration, points, faults>>

Work(b) ==
  \/ Claim(b)
  \/ \E e \in Events : Begin(b, e) \/ Skip(b, e)
  \/ Look(b) \/ Celebrate(b) \/ ReadEntries(b) \/ Negate(b) \/ MarkCelebration(b) \/ Publish(b)
  \/ \E r \in Rules : Award(b, r) \/ CheckEntry(b, r)
  \/ Throw(b)
  \/ \E late \in BOOLEAN : Complete(b, late) \/ Fail(b, late) \/ WriteDeadLetter(b, late)

Next ==
  \/ WinDeal \/ CancelDeal
  \/ \E b \in Batches : ReadCandidates(b) \/ Work(b) \/ Crash(b)
  \/ \E e \in Events : LeaseEnds(e) \/ BecomesDue(e)

Spec == Init /\ [][Next]_vars

-----------------------------------------------------------------------------
(* Properties *)

(* Types of the rows and of the batches; a batch that handles an event has *)
(* taken it off its list.                                                  *)
TypeOK ==
  /\ deal \in {"signed", "won", "cancelled"}
  /\ event \in [Events -> EventRow]
  /\ batch \in [Batches -> Batch]
  /\ celebration \in {"none", "approved", "reversed"}
  /\ points \in [Rules -> {"none", "given", "reversed"}]
  /\ faults \in 0..MaxFaults
  /\ \A b \in Batches :
       /\ batch[b].phase \in Handling \cup Recording => batch[b].event \in Events \ batch[b].todo
       /\ batch[b].phase = "negate" => batch[b].rule \in batch[b].rules

Held(b) ==
  {e \in Events : \/ batch[b].phase \notin {"idle", "read"} /\ e \in batch[b].todo
                  \/ batch[b].phase \in Handling \cup {"fail"} /\ e = batch[b].event}

(* outbox.js:52, "safe to run concurrently": the lock of an event is the   *)
(* batch that holds it, so no event is handled twice at the same time.     *)
HandledByOne ==
  \A b \in Batches : \A e \in Events : event[e].lock = b <=> e \in Held(b)

(* The batches implement Leases, as those of JobQueue do: no event is in   *)
(* two hands, nor taken from one that is at it, whatever throws or dies.   *)
Hands == [b \in Batches |-> Held(b)]
Lease == INSTANCE Leases WITH Items <- Events, Holders <- Batches, hands <- Hands
ImplementsLeases == Lease!Spec

Quiet == \A e \in Emitted : Settled(e)

(* user-flows.md:84: cancelling a deal leaves "negative points entries".   *)
(* When its events are dealt with, and one of its cancellations did not    *)
(* die, no points are left, and the celebration is withdrawn.              *)
CancelledLeavesNothing ==
  Quiet /\ (\E e \in Emitted : event[e].type = "cancelled" /\ event[e].status = "processed") =>
    (\A r \in Rules : points[r] # "given") /\ celebration # "approved"

(* user-flows.md:82: a won deal has its celebration and all its points,    *)
(* however often it was won and by however many batches it was handled, as *)
(* long as none of them threw or died.                                     *)
PointsArrive ==
  Quiet /\ deal = "won" /\ (\A e \in Emitted : event[e].status = "processed" /\ event[e].attempts = 0)
    => (\A r \in Rules : points[r] = "given") /\ celebration = "approved"

(* outbox.js:33: an event is never lost for a change that committed.  When *)
(* it counts as processed its webhook deliveries exist, also when an early *)
(* return, a retry or another batch came in between.                       *)
Delivered == \A e \in Events : event[e].status = "processed" => event[e].delivered

=============================================================================
