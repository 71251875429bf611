----------------------------- MODULE Inventory -----------------------------
(***************************************************************************)
(* Off-plan stock: units, the holds and reservations taken on them, the    *)
(* bookings made from reservations, and the expiry jobs that end both.     *)
(*                                                                         *)
(* A function of modules/offplan/inventory.js runs in one database         *)
(* transaction that takes the row locks of everything it changes before it *)
(* reads them, so it is one step here.  Three other writers of             *)
(* units.stock_status read the status first and write it later without a   *)
(* lock: the manual status change, the stock import and the winning of a   *)
(* deal.  Each of those is two steps, with the decided write in "writes"   *)
(* between them.                                                           *)
(***************************************************************************)
EXTENDS Integers

CONSTANTS
  Units, Holds, Reservations,  \* identifiers: the units and the ids newId() can draw
  Agents,                      \* memberships that hold and reserve
  Leads,                       \* leads a hold or a reservation may name
  Clerks,                      \* concurrent requests that write a status without a lock
  None,                        \* an SQL NULL
  Durations,                   \* lengths, in ticks, a hold or a reservation can be asked for
  MaxTime,                     \* the clock stops here (bound)
  MaxExpiry,                   \* no extension goes beyond this instant (bound)
  InitialStock,                \* statuses a unit may be created with (POST /units, import)
  EditTargets,                 \* statuses the status form and the import file ask for
  Paths                        \* which of the AllPaths below staff make use of

(* Ways to change a unit that go round the reservation flow.  All are      *)
(* offered by the API; a run or a theorem says which of them staff use.    *)
AllPaths == {"status", "override", "import", "cancel_ended", "deal"}

ASSUME ConstantsAssumption ==
  /\ None \notin Units \cup Holds \cup Reservations \cup Agents \cup Leads
  /\ Durations \subseteq Nat \ {0}
  /\ MaxTime \in Nat /\ MaxExpiry \in Nat
  /\ Paths \subseteq AllPaths

UnitStatus == {"draft", "unreleased", "available", "blocked", "on_hold", "reserved",
               "booked", "sold", "cancelled", "withdrawn", "unavailable"}

(* unitStockMachine: the moves a status change may ask for. *)
UnitMoves ==
  [draft       |-> {"unreleased", "available", "withdrawn"},
   unreleased  |-> {"available", "blocked", "withdrawn"},
   available   |-> {"on_hold", "reserved", "blocked", "unavailable", "withdrawn"},
   blocked     |-> {"available", "withdrawn", "unavailable"},
   on_hold     |-> {"available", "reserved", "blocked", "cancelled"},
   reserved    |-> {"booked", "available", "cancelled", "sold"},
   booked      |-> {"sold", "cancelled", "available"},
   sold        |-> {"cancelled"},
   cancelled   |-> {"available", "withdrawn"},
   withdrawn   |-> {"available", "draft"},
   unavailable |-> {"available", "withdrawn"}]

CanMove(from, to) == from = to \/ to \in UnitMoves[from]

Reservable == {"available", "on_hold"}
Committed == {"reserved", "booked", "sold"}
Live == {"pending", "confirmed", "extended"}
HoldStatus == {"active", "released", "expired", "converted"}
ReservationStatus == Live \cup {"expired", "cancelled", "converted"}

ASSUME StatusAssumption == InitialStock \subseteq UnitStatus /\ EditTargets \subseteq UnitStatus

VARIABLES
  now,       \* the clock
  stock,     \* units.stock_status
  holdOf,    \* units.hold_id
  resOf,     \* units.reservation_id
  hold,      \* unit_holds rows, status "none" before the insert
  res,       \* reservations rows, likewise
  bookings,  \* number of bookings rows made from each reservation
  jobs,      \* expiry jobs not yet completed
  writes     \* status writes decided but not yet made

rows == <<stock, holdOf, resOf, hold, res, bookings>>
vars == <<now, rows, jobs, writes>>

HoldRow == [status : HoldStatus \cup {"none"}, unit : Units \cup {None},
            by : Agents \cup {None}, lead : Leads \cup {None}, exp : Nat]
ReservationRow == [status : ReservationStatus \cup {"none"}, unit : Units \cup {None},
                   by : Agents \cup {None}, lead : Leads \cup {None}, exp : Nat]
Job == [kind : {"hold", "reservation"}, id : Holds \cup Reservations, at : Nat]
Write == [clerk : Clerks, unit : Units, to : UnitStatus, path : {"status", "import", "deal"}]

NoRow == [status |-> "none", unit |-> None, by |-> None, lead |-> None, exp |-> 0]
Row(status, u, a, l, exp) == [status |-> status, unit |-> u, by |-> a, lead |-> l, exp |-> exp]
HoldJob(h, at) == [kind |-> "hold", id |-> h, at |-> at]
ReservationJobAsHold(r, at) == [kind |-> "hold", id |-> r, at |-> at]  \* mutant
ReservationJob(r, at) == [kind |-> "reservation", id |-> r, at |-> at]

UnexpiredHolds(u) ==  \* mutant
  {h \in Holds : hold[h].status = "active" /\ hold[h].unit = u /\ hold[h].exp > now}
ActiveHolds(u) == {h \in Holds : hold[h].status = "active" /\ hold[h].unit = u}
LiveReservations(u) == {r \in Reservations : res[r].status \in Live /\ res[r].unit = u}

(* enqueueJob: the keys of expiry jobs are unique per deadline. *)
ScheduleOnce(j) == jobs' = IF \E k \in jobs : k.id = j.id THEN jobs ELSE jobs \cup {j}  \* mutant
Schedule(j) == jobs' = jobs \cup {j}

(* The handlers read the row again: its deadline may have moved since. *)
DueAtOnce(row) == TRUE  \* mutant
DueLate(row) == row.exp < now  \* mutant
Due(row) == row.exp <= now

(* Extending and booking refuse a reservation that has ended. *)
NotCancelled(r) == res[r].status \in Live \cup {"expired", "converted"}  \* mutant
StillLive(r) == res[r].status \in Live

Init ==
  /\ now = 0
  /\ stock \in [Units -> InitialStock]
  /\ holdOf = [u \in Units |-> None]
  /\ resOf = [u \in Units |-> None]
  /\ hold = [h \in Holds |-> NoRow]
  /\ res = [r \in Reservations |-> NoRow]
  /\ bookings = [r \in Reservations |-> 0]
  /\ jobs = {}
  /\ writes = {}

Tick == now < MaxTime /\ now' = now + 1 /\ UNCHANGED <<rows, jobs, writes>>

-----------------------------------------------------------------------------
(* Holds *)

(* An agent places an expiring soft lock and its expiry job is scheduled. *)
CreateHold(h, a, l, u, d) ==
  /\ stock[u] \in Reservable
  /\ ActiveHolds(u) = {}
  /\ CanMove(stock[u], "on_hold")
  /\ hold[h].status = "none"
  /\ hold' = [hold EXCEPT ![h] = Row("active", u, a, l, now + d)]
  /\ stock' = [stock EXCEPT ![u] = "on_hold"]
  /\ holdOf' = [holdOf EXCEPT ![u] = h]
  /\ Schedule(HoldJob(h, now + d))
  /\ UNCHANGED <<now, resOf, res, bookings, writes>>

(* The end of an active hold: the unit is freed only while it is on hold. *)
EndHold(h, status) ==
  LET u == hold[h].unit IN
  /\ hold' = [hold EXCEPT ![h].status = status]
  /\ IF stock[u] = "on_hold"
       THEN /\ stock' = [stock EXCEPT ![u] = "available"]
            /\ holdOf' = [holdOf EXCEPT ![u] = None]
       ELSE UNCHANGED <<stock, holdOf>>
  /\ UNCHANGED <<resOf, res, bookings>>

ReleaseHold(h) ==
  /\ hold[h].status = "active"
  /\ EndHold(h, "released")
  /\ UNCHANGED <<now, jobs, writes>>

(* The expiry job of a hold.  A job may be run twice, by two workers that  *)
(* claimed it together, so it need not leave the queue.                    *)
ExpireHold(j, again) ==
  /\ j.kind = "hold" /\ j.at <= now
  /\ IF hold[j.id].status = "active" /\ Due(hold[j.id])
       THEN EndHold(j.id, "expired")
       ELSE UNCHANGED rows
  /\ jobs' = IF again THEN jobs ELSE jobs \ {j}
  /\ UNCHANGED <<now, writes>>

-----------------------------------------------------------------------------
(* Reservations *)

(* A hold lets its agent, or anyone working the same lead, reserve. *)
HoldBelongsTo(h, a, l) == hold[h].by = a \/ (l # None /\ hold[h].lead = l)

ConvertAnyHold(a, l, u) ==  \* mutant
  hold' = [h \in Holds |-> IF h \in ActiveHolds(u) THEN [hold[h] EXCEPT !.status = "converted"]
                                                  ELSE hold[h]]
(* The hold is looked at only when the unit's status says on_hold. *)
ConvertHold(a, l, u) ==
  \/ stock[u] = "available" /\ UNCHANGED hold
  \/ stock[u] = "on_hold" /\ ActiveHolds(u) = {} /\ UNCHANGED hold
  \/ /\ stock[u] = "on_hold"
     /\ \E h \in ActiveHolds(u) :
          /\ HoldBelongsTo(h, a, l)
          /\ hold' = [hold EXCEPT ![h].status = "converted"]

CreateReservation(r, a, l, u, d) ==
  /\ stock[u] \in Reservable
  /\ ConvertHold(a, l, u)
  /\ res[r].status = "none"
  /\ res' = [res EXCEPT ![r] = Row("pending", u, a, l, now + d)]
  /\ stock' = [stock EXCEPT ![u] = "reserved"]
  /\ holdOf' = [holdOf EXCEPT ![u] = None]
  /\ resOf' = [resOf EXCEPT ![u] = r]
  /\ Schedule(ReservationJob(r, now + d))
  /\ UNCHANGED <<now, bookings, writes>>

Later(x, y) == IF x >= y THEN x ELSE y

(* The new deadline counts from the old one, or from now if that is past. *)
ExtendReservation(r, d) ==
  LET next == Later(res[r].exp, now) + d IN
  /\ StillLive(r)
  /\ next <= MaxExpiry
  /\ res' = [res EXCEPT ![r].status = "extended", ![r].exp = next]
  /\ Schedule(ReservationJob(r, next))
  /\ UNCHANGED <<now, stock, holdOf, resOf, hold, bookings, writes>>

KeepUnit(u, from) == UNCHANGED <<stock, resOf>>  \* mutant
(* A reservation gives up its unit; whose the unit is now is not looked at. *)
FreeUnit(u, from) ==
  IF stock[u] \in from
    THEN /\ stock' = [stock EXCEPT ![u] = "available"]
         /\ resOf' = [resOf EXCEPT ![u] = None]
    ELSE UNCHANGED <<stock, resOf>>

(* Any reservation not yet cancelled can be cancelled: one already expired *)
(* or converted too, which is the path "cancel_ended".                     *)
CancelReservation(r, releaseUnit) ==
  /\ res[r].status \in ReservationStatus \ {"cancelled"}
  /\ res[r].status \in Live \/ "cancel_ended" \in Paths
  /\ res' = [res EXCEPT ![r].status = "cancelled"]
  /\ IF releaseUnit THEN FreeUnit(res[r].unit, {"reserved", "booked"})
                    ELSE UNCHANGED <<stock, resOf>>
  /\ UNCHANGED <<now, holdOf, hold, bookings, jobs, writes>>

ExpireReservation(j, again) ==
  LET r == j.id IN
  /\ j.kind = "reservation" /\ j.at <= now
  /\ IF StillLive(r) /\ Due(res[r])
       THEN /\ res' = [res EXCEPT ![r].status = "expired"]
            /\ FreeUnit(res[r].unit, {"reserved"})
            /\ UNCHANGED <<holdOf, hold, bookings>>
       ELSE UNCHANGED rows
  /\ jobs' = IF again THEN jobs ELSE jobs \ {j}
  /\ UNCHANGED <<now, writes>>

CreateBooking(r) ==
  LET u == res[r].unit IN
  /\ StillLive(r)
  /\ CanMove(stock[u], "booked")
  /\ bookings' = [bookings EXCEPT ![r] = @ + 1]
  /\ stock' = [stock EXCEPT ![u] = "booked"]
  /\ res' = [res EXCEPT ![r].status = "converted"]
  /\ UNCHANGED <<now, holdOf, resOf, hold, jobs, writes>>

-----------------------------------------------------------------------------
(* Writers that read first and write later, holding no lock in between *)

Idle(c) == \A w \in writes : w.clerk # c
Decide(c, u, to, path) ==
  /\ Idle(c)
  /\ writes' = writes \cup {[clerk |-> c, unit |-> u, to |-> to, path |-> path]}
  /\ UNCHANGED <<now, rows, jobs>>

(* POST /units/:id/status reads the unit and checks the move. *)
DecideStatusChange(c, u, to) ==
  /\ "status" \in Paths
  /\ CanMove(stock[u], to)
  /\ Decide(c, u, to, "status")

(* The same request with is_override, for those who hold the permission. *)
DecideOverride(c, u, to) == "override" \in Paths /\ Decide(c, u, to, "status")

(* The import evaluates a row for an existing unit; a row without a status *)
(* (None) passes the check and is normalised to "available".               *)
DecideImport(c, u, given) ==
  /\ "import" \in Paths
  /\ ~(stock[u] \in Committed /\ given # None /\ given # stock[u])
  /\ Decide(c, u, IF given = None THEN "available" ELSE given, "import")

(* Winning a deal reads the unit in its own snapshot. *)
DecideDealWon(c, u) ==
  /\ "deal" \in Paths
  /\ stock[u] \in {"reserved", "booked"}
  /\ Decide(c, u, "sold", "deal")

(* The decided status is written whatever the unit has become since. *)
MakeWrite(w) ==
  /\ stock' = [stock EXCEPT ![w.unit] = w.to]
  /\ writes' = writes \ {w}
  /\ UNCHANGED <<now, holdOf, resOf, hold, res, bookings, jobs>>

-----------------------------------------------------------------------------

HoldNext ==
  \/ \E h \in Holds, a \in Agents, l \in Leads \cup {None}, u \in Units, d \in Durations :
       CreateHold(h, a, l, u, d)
  \/ \E h \in Holds : ReleaseHold(h)
  \/ \E j \in jobs, again \in BOOLEAN : ExpireHold(j, again)

ReservationNext ==
  \/ \E r \in Reservations, a \in Agents, l \in Leads \cup {None}, u \in Units, d \in Durations :
       CreateReservation(r, a, l, u, d)
  \/ \E r \in Reservations, d \in Durations : ExtendReservation(r, d)
  \/ \E r \in Reservations, releaseUnit \in BOOLEAN : CancelReservation(r, releaseUnit)
  \/ \E j \in jobs, again \in BOOLEAN : ExpireReservation(j, again)
  \/ \E r \in Reservations : CreateBooking(r)

StaffNext ==
  \/ \E c \in Clerks, u \in Units, to \in EditTargets :
       DecideStatusChange(c, u, to) \/ DecideOverride(c, u, to)
  \/ \E c \in Clerks, u \in Units, given \in EditTargets \cup {None} : DecideImport(c, u, given)
  \/ \E c \in Clerks, u \in Units : DecideDealWon(c, u)
  \/ \E w \in writes : MakeWrite(w)

Next == Tick \/ HoldNext \/ ReservationNext \/ StaffNext

Spec == Init /\ [][Next]_vars

(* The job runner is driven by cron (modules/cron/routes.js), again and    *)
(* again: a due expiry job is eventually run and completed.                *)
Fairness ==
  /\ \A r \in Reservations : WF_vars(\E j \in jobs : j.id = r /\ ExpireReservation(j, FALSE))
  /\ \A h \in Holds : WF_vars(\E j \in jobs : j.id = h /\ ExpireHold(j, FALSE))

FairSpec == Spec /\ Fairness

-----------------------------------------------------------------------------
(* Properties *)

(* Types of every table the inventory functions touch; a row that exists   *)
(* names a unit.                                                           *)
TypeOK ==
  /\ now \in Nat
  /\ stock \in [Units -> UnitStatus]
  /\ holdOf \in [Units -> Holds \cup {None}]
  /\ resOf \in [Units -> Reservations \cup {None}]
  /\ hold \in [Holds -> HoldRow]
  /\ res \in [Reservations -> ReservationRow]
  /\ bookings \in [Reservations -> Nat]
  /\ jobs \subseteq Job
  /\ writes \subseteq Write
  /\ \A h \in Holds : hold[h].status # "none" => hold[h].unit \in Units
  /\ \A r \in Reservations : res[r].status # "none" => res[r].unit \in Units
  /\ \A j \in jobs : j.id \in IF j.kind = "hold" THEN Holds ELSE Reservations

(* user-flows.md 3.5, inventory.js:31: only one active hold per unit, on   *)
(* every path, also when a status write moves the unit under the hold.     *)
OneActiveHold ==
  \A h1, h2 \in Holds :
    hold[h1].status = "active" /\ hold[h2].status = "active" /\ hold[h1].unit = hold[h2].unit
      => h1 = h2

(* inventory.js:192 and 274: whatever extensions and early or repeated     *)
(* runs have happened, the queue still has a job for the current deadline  *)
(* of every live reservation and every active hold.                        *)
ExpiryScheduled ==
  /\ \A r \in Reservations : res[r].status \in Live => ReservationJob(r, res[r].exp) \in jobs
  /\ \A h \in Holds : hold[h].status = "active" => HoldJob(h, hold[h].exp) \in jobs

(* inventory.js:337 and 383: a job that outlived an extension, or was run  *)
(* early or twice, never ends a reservation or a hold before its deadline. *)
NeverExpiredEarly ==
  [][/\ \A r \in Reservations :
          res[r].status # "expired" /\ res'[r].status = "expired" => res[r].exp <= now
     /\ \A h \in Holds :
          hold[h].status # "expired" /\ hold'[h].status = "expired" => hold[h].exp <= now]_vars

(* A reservation that has ended is never live again, and its deadline only *)
(* moves forward while it lives.                                           *)
EndedStaysEnded ==
  [][\A r \in Reservations : res[r].status # "none" =>
       /\ res'[r].status \in Live => res[r].status \in Live
       /\ res'[r].exp >= res[r].exp]_vars

(* user-flows.md 3.6, README.md:24: two agents never both have the unit.   *)
NoDoubleReservation ==
  \A r1, r2 \in Reservations :
    res[r1].status \in Live /\ res[r2].status \in Live /\ res[r1].unit = res[r2].unit => r1 = r2

(* The same promise one stage later: a unit is booked at most once.        *)
NoDoubleBooking ==
  \A r1, r2 \in Reservations :
    bookings[r1] > 0 /\ bookings[r2] > 0 /\ res[r1].unit = res[r2].unit
      => r1 = r2 /\ bookings[r1] = 1

(* user-flows.md 3.8: a reserved unit is backed by a live reservation, or  *)
(* by one cancelled with release_unit = false; expiry never strands it.    *)
ReservedUnitBacked ==
  \A u \in Units : stock[u] = "reserved" /\ resOf[u] # None =>
    /\ res[resOf[u]].unit = u
    /\ res[resOf[u]].status \in Live \cup {"cancelled"}

(* inventory.js:123-132: while a hold is active nobody but its agent, or   *)
(* someone on its lead, takes a reservation on the unit.                   *)
HoldProtects ==
  [][\A r \in Reservations : res[r].status = "none" /\ res'[r].status # "none" =>
       \A h \in ActiveHolds(res'[r].unit) : HoldBelongsTo(h, res'[r].by, res'[r].lead)]_vars

(* user-flows.md 3.8: a reservation does not stay live for ever past its   *)
(* deadline, it is ended or extended.                                      *)
OverdueEnds ==
  \A r \in Reservations :
    (res[r].status \in Live /\ res[r].exp <= now) ~> ~(res[r].status \in Live /\ res[r].exp <= now)

(* The reservation flow implements UnitClaims: the claimant of a unit is   *)
(* its live reservation.                                                   *)
SomeOrNone(S) == IF S = {} THEN None ELSE CHOOSE x \in S : TRUE
Claimant(u) == SomeOrNone(LiveReservations(u))
Claims == INSTANCE UnitClaims WITH
            claimant <- [u \in Units |-> Claimant(u)],
            spent <- {r \in Reservations : res[r].status # "none"}
ImplementsClaims == Claims!Spec

(* stock-import.js:121: the status of a reserved, booked or sold unit      *)
(* "cannot be changed by import".                                          *)
ImportKeepsCommitted ==
  [][\A w \in writes : w.path = "import" /\ w \notin writes' /\ stock[w.unit] \in Committed
       => stock'[w.unit] = stock[w.unit]]_vars

-----------------------------------------------------------------------------
(* The reservation flow on its own: staff use no path round it but deals.  *)
Disciplined == Paths \subseteq {"deal"}

(* The inductive invariant behind the properties of the flow.              *)
HoldMatchesStock ==
  \A h \in Holds : hold[h].status = "active" => stock[hold[h].unit] \in {"on_hold", "sold"}
LiveMatchesStock ==
  \A r \in Reservations : res[r].status \in Live =>
    /\ stock[res[r].unit] \notin {"available", "on_hold", "booked"}
    /\ stock[res[r].unit] = "reserved" => resOf[res[r].unit] = r
BookedMatchesStock ==
  \A r \in Reservations : bookings[r] > 0 =>
    res[r].status = "converted" /\ bookings[r] = 1 /\ stock[res[r].unit] \in {"booked", "sold"}
OnlySales == \A w \in writes : w.to = "sold"

FlowInv ==
  /\ OneActiveHold
  /\ HoldMatchesStock
  /\ NoDoubleReservation
  /\ LiveMatchesStock
  /\ ReservedUnitBacked
  /\ NoDoubleBooking
  /\ BookedMatchesStock
  /\ OnlySales

=============================================================================
