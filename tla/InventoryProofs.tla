-------------------------- MODULE InventoryProofs --------------------------
(***************************************************************************)
(* Theorems about Inventory, for any number of units, holds, reservations, *)
(* agents and clerks, any clock bounds and any set of paths unless stated. *)
(***************************************************************************)
EXTENDS Inventory, TLAPS

-----------------------------------------------------------------------------
(* Type correctness *)

LEMMA RowType ==
  ASSUME NEW status \in HoldStatus \cup ReservationStatus, NEW u \in Units, NEW a \in Agents,
         NEW l \in Leads \cup {None}, NEW e \in Nat
  PROVE  /\ status \in HoldStatus => Row(status, u, a, l, e) \in HoldRow
         /\ status \in ReservationStatus => Row(status, u, a, l, e) \in ReservationRow
BY DEF Row, HoldRow, ReservationRow

LEMMA JobType ==
  ASSUME NEW at \in Nat
  PROVE  /\ \A h \in Holds : HoldJob(h, at) \in Job
         /\ \A r \in Reservations : ReservationJob(r, at) \in Job
BY DEF Job, HoldJob, ReservationJob

LEMMA InitTypeOK == Init => TypeOK
<1> SUFFICES ASSUME Init PROVE TypeOK
  OBVIOUS
<1>1. NoRow \in HoldRow /\ NoRow \in ReservationRow
  BY DEF NoRow, HoldRow, ReservationRow
<1>2. stock \in [Units -> UnitStatus]
  BY StatusAssumption DEF Init
<1>3. hold \in [Holds -> HoldRow] /\ res \in [Reservations -> ReservationRow]
  BY <1>1 DEF Init
<1>4. /\ \A h \in Holds : hold[h].status = "none"
      /\ \A r \in Reservations : res[r].status = "none"
  BY DEF Init, NoRow
<1>5. QED
  BY <1>2, <1>3, <1>4 DEF Init, TypeOK

(* The two ways a hold's end and a reservation's end touch the tables. *)
LEMMA EndHoldTypeOK ==
  ASSUME TypeOK, NEW h \in Holds, hold[h].status = "active",
         NEW status \in HoldStatus, EndHold(h, status)
  PROVE  /\ stock' \in [Units -> UnitStatus]
         /\ holdOf' \in [Units -> Holds \cup {None}]
         /\ hold' \in [Holds -> HoldRow]
         /\ \A k \in Holds : hold'[k].status # "none" => hold'[k].unit \in Units
         /\ UNCHANGED <<resOf, res, bookings>>
<1>1. hold[h] \in HoldRow /\ hold[h].unit \in Units
  BY DEF TypeOK
<1>2. hold' = [hold EXCEPT ![h].status = status]
  BY DEF EndHold
<1>3. [hold[h] EXCEPT !.status = status] \in HoldRow
  BY <1>1 DEF HoldRow
<1>4. hold' \in [Holds -> HoldRow]
  BY <1>2, <1>3 DEF TypeOK
<1>5. \A k \in Holds : hold'[k].unit = hold[k].unit
                       /\ (hold'[k].status # "none" => hold[k].status # "none")
  BY <1>1, <1>2 DEF TypeOK, HoldRow
<1>6. stock' \in [Units -> UnitStatus] /\ holdOf' \in [Units -> Holds \cup {None}]
  BY DEF EndHold, TypeOK, UnitStatus
<1>7. QED
  BY <1>4, <1>5, <1>6 DEF EndHold, TypeOK

LEMMA HoldTypeOK == TypeOK /\ HoldNext => TypeOK'
<1> SUFFICES ASSUME TypeOK, HoldNext PROVE TypeOK'
  OBVIOUS
<1>1. ASSUME NEW h \in Holds, NEW a \in Agents, NEW l \in Leads \cup {None}, NEW u \in Units,
             NEW d \in Durations, CreateHold(h, a, l, u, d)
      PROVE  TypeOK'
  <2>1. now + d \in Nat
    BY ConstantsAssumption DEF TypeOK
  <2>2. Row("active", u, a, l, now + d) \in HoldRow /\ HoldJob(h, now + d) \in Job
    BY <2>1, RowType, JobType DEF HoldStatus
  <2>3. hold' = [hold EXCEPT ![h] = Row("active", u, a, l, now + d)]
    BY <1>1 DEF CreateHold
  <2>4. hold' \in [Holds -> HoldRow]
    BY <2>2, <2>3 DEF TypeOK
  <2>5. \A k \in Holds : hold'[k].status # "none" => hold'[k].unit \in Units
    BY <2>3 DEF TypeOK, Row
  <2>6. jobs' = jobs \cup {HoldJob(h, now + d)}
    BY <1>1 DEF CreateHold, Schedule
  <2>7. jobs' \subseteq Job
        /\ \A j \in jobs' : j.id \in IF j.kind = "hold" THEN Holds ELSE Reservations
    BY <2>2, <2>6 DEF TypeOK, HoldJob
  <2>8. stock' \in [Units -> UnitStatus] /\ holdOf' \in [Units -> Holds \cup {None}]
    BY <1>1 DEF CreateHold, TypeOK, UnitStatus
  <2>9. QED
    BY <1>1, <2>4, <2>5, <2>7, <2>8 DEF CreateHold, TypeOK
<1>2. ASSUME NEW h \in Holds, ReleaseHold(h)
      PROVE  TypeOK'
  BY <1>2, EndHoldTypeOK DEF ReleaseHold, TypeOK, HoldStatus
<1>3. ASSUME NEW j \in jobs, NEW again \in BOOLEAN, ExpireHold(j, again)
      PROVE  TypeOK'
  <2>1. j.id \in Holds /\ jobs' \subseteq jobs
    BY <1>3 DEF ExpireHold, TypeOK
  <2>2. CASE hold[j.id].status = "active" /\ Due(hold[j.id])
    BY <1>3, <2>1, <2>2, EndHoldTypeOK DEF ExpireHold, TypeOK, HoldStatus
  <2>3. CASE ~(hold[j.id].status = "active" /\ Due(hold[j.id]))
    BY <1>3, <2>1, <2>3 DEF ExpireHold, TypeOK, rows
  <2>4. QED
    BY <2>2, <2>3
<1>4. QED
  BY <1>1, <1>2, <1>3 DEF HoldNext

LEMMA ReservationTypeOK == TypeOK /\ ReservationNext => TypeOK'
<1> SUFFICES ASSUME TypeOK, ReservationNext PROVE TypeOK'
  OBVIOUS
<1>1. ASSUME NEW r \in Reservations, NEW a \in Agents, NEW l \in Leads \cup {None},
             NEW u \in Units, NEW d \in Durations, CreateReservation(r, a, l, u, d)
      PROVE  TypeOK'
  <2>1. now + d \in Nat
    BY ConstantsAssumption DEF TypeOK
  <2>2. Row("pending", u, a, l, now + d) \in ReservationRow /\ ReservationJob(r, now + d) \in Job
    BY <2>1, RowType, JobType DEF ReservationStatus, Live
  <2>3. res' = [res EXCEPT ![r] = Row("pending", u, a, l, now + d)]
    BY <1>1 DEF CreateReservation
  <2>4. res' \in [Reservations -> ReservationRow]
        /\ \A k \in Reservations : res'[k].status # "none" => res'[k].unit \in Units
    BY <2>2, <2>3 DEF TypeOK, Row
  <2>5. jobs' = jobs \cup {ReservationJob(r, now + d)}
    BY <1>1 DEF CreateReservation, Schedule
  <2>6. jobs' \subseteq Job
        /\ \A j \in jobs' : j.id \in IF j.kind = "hold" THEN Holds ELSE Reservations
    BY <2>2, <2>5 DEF TypeOK, ReservationJob
  <2>7. ASSUME NEW h \in ActiveHolds(u), hold' = [hold EXCEPT ![h].status = "converted"]
        PROVE  /\ hold' \in [Holds -> HoldRow]
               /\ \A k \in Holds : hold'[k].status # "none" => hold'[k].unit \in Units
    <3>1. h \in Holds /\ hold[h] \in HoldRow /\ hold[h].unit \in Units
      BY DEF ActiveHolds, TypeOK
    <3>2. [hold[h] EXCEPT !.status = "converted"] \in HoldRow
      BY <3>1 DEF HoldRow, HoldStatus
    <3>3. hold' \in [Holds -> HoldRow]
      BY <2>7, <3>1, <3>2 DEF TypeOK
    <3>4. ASSUME NEW k \in Holds, hold'[k].status # "none"
          PROVE  hold'[k].unit \in Units
      BY <2>7, <3>1, <3>4 DEF TypeOK, HoldRow
    <3>5. QED
      BY <3>3, <3>4
  <2>8. /\ hold' \in [Holds -> HoldRow]
        /\ \A k \in Holds : hold'[k].status # "none" => hold'[k].unit \in Units
    BY <1>1, <2>7 DEF CreateReservation, ConvertHold, TypeOK
  <2>9. /\ stock' \in [Units -> UnitStatus]
        /\ holdOf' \in [Units -> Holds \cup {None}]
        /\ resOf' \in [Units -> Reservations \cup {None}]
    BY <1>1 DEF CreateReservation, TypeOK, UnitStatus
  <2>10. QED
    BY <1>1, <2>4, <2>6, <2>8, <2>9 DEF CreateReservation, TypeOK
<1>2. ASSUME NEW r \in Reservations, NEW d \in Durations, ExtendReservation(r, d)
      PROVE  TypeOK'
  <2> DEFINE next == Later(res[r].exp, now) + d
  <2>1. res[r] \in ReservationRow /\ next \in Nat
    BY ConstantsAssumption DEF TypeOK, ReservationRow, Later
  <2>2. res' = [res EXCEPT ![r].status = "extended", ![r].exp = next]
    BY <1>2 DEF ExtendReservation
  <2>3. [res[r] EXCEPT !.status = "extended", !.exp = next] \in ReservationRow
    BY <2>1 DEF ReservationRow, ReservationStatus, Live
  <2>4. res' \in [Reservations -> ReservationRow]
    BY <2>2, <2>3 DEF TypeOK
  <2>5. res[r].status # "none"
    BY <1>2 DEF ExtendReservation, StillLive, Live
  <2>6. \A k \in Reservations : res'[k].status # "none" => res'[k].unit \in Units
    BY <2>1, <2>2, <2>5 DEF TypeOK, ReservationRow
  <2>7. jobs' = jobs \cup {ReservationJob(r, next)} /\ ReservationJob(r, next) \in Job
    BY <1>2, <2>1, JobType DEF ExtendReservation, Schedule
  <2>8. jobs' \subseteq Job
        /\ \A j \in jobs' : j.id \in IF j.kind = "hold" THEN Holds ELSE Reservations
    BY <2>7 DEF TypeOK, ReservationJob
  <2>9. QED
    BY <1>2, <2>4, <2>6, <2>8 DEF ExtendReservation, TypeOK
<1>3. ASSUME NEW r \in Reservations, NEW status \in ReservationStatus,
             res[r].status # "none", res' = [res EXCEPT ![r].status = status]
      PROVE  /\ res' \in [Reservations -> ReservationRow]
             /\ \A k \in Reservations : res'[k].status # "none" => res'[k].unit \in Units
  <2>1. res[r] \in ReservationRow /\ [res[r] EXCEPT !.status = status] \in ReservationRow
    BY DEF TypeOK, ReservationRow
  <2>2. res' \in [Reservations -> ReservationRow]
    BY <1>3, <2>1 DEF TypeOK
  <2>3. ASSUME NEW k \in Reservations, res'[k].status # "none"
        PROVE  res'[k].unit \in Units
    BY <1>3, <2>1, <2>3 DEF TypeOK, ReservationRow
  <2>4. QED
    BY <2>2, <2>3
<1>4. ASSUME NEW r \in Reservations, NEW releaseUnit \in BOOLEAN, CancelReservation(r, releaseUnit)
      PROVE  TypeOK'
  <2>1. res[r].status # "none"
    BY <1>4 DEF CancelReservation, ReservationStatus, Live
  <2>2. stock' \in [Units -> UnitStatus] /\ resOf' \in [Units -> Reservations \cup {None}]
    BY <1>4 DEF CancelReservation, FreeUnit, TypeOK, UnitStatus
  <2>3. QED
    BY <1>3, <1>4, <2>1, <2>2 DEF CancelReservation, TypeOK, ReservationStatus
<1>5. ASSUME NEW j \in jobs, NEW again \in BOOLEAN, ExpireReservation(j, again)
      PROVE  TypeOK'
  <2>1. j.id \in Reservations /\ jobs' \subseteq jobs
    BY <1>5 DEF ExpireReservation, TypeOK
  <2>2. CASE StillLive(j.id) /\ Due(res[j.id])
    <3>1. res[j.id].status # "none"
      BY <2>2 DEF StillLive, Live
    <3>2. stock' \in [Units -> UnitStatus] /\ resOf' \in [Units -> Reservations \cup {None}]
      BY <1>5, <2>2 DEF ExpireReservation, FreeUnit, TypeOK, UnitStatus
    <3>3. QED
      BY <1>3, <1>5, <2>1, <2>2, <3>1, <3>2 DEF ExpireReservation, TypeOK, ReservationStatus
  <2>3. CASE ~(StillLive(j.id) /\ Due(res[j.id]))
    BY <1>5, <2>1, <2>3 DEF ExpireReservation, TypeOK, rows
  <2>4. QED
    BY <2>2, <2>3
<1>6. ASSUME NEW r \in Reservations, CreateBooking(r)
      PROVE  TypeOK'
  <2>1. res[r].status # "none"
    BY <1>6 DEF CreateBooking, StillLive, Live
  <2>2. bookings[r] \in Nat /\ bookings' = [bookings EXCEPT ![r] = bookings[r] + 1]
    BY <1>6 DEF CreateBooking, TypeOK
  <2>3. bookings' \in [Reservations -> Nat]
    BY <2>2 DEF TypeOK
  <2>4. stock' \in [Units -> UnitStatus]
    BY <1>6 DEF CreateBooking, TypeOK, UnitStatus
  <2>5. QED
    BY <1>3, <1>6, <2>1, <2>3, <2>4 DEF CreateBooking, TypeOK, ReservationStatus
<1>7. QED
  BY <1>1, <1>2, <1>4, <1>5, <1>6 DEF ReservationNext

LEMMA StaffTypeOK == TypeOK /\ StaffNext => TypeOK'
<1> SUFFICES ASSUME TypeOK, StaffNext PROVE TypeOK'
  OBVIOUS
<1>1. ASSUME NEW c \in Clerks, NEW u \in Units, NEW to \in UnitStatus,
             NEW path \in {"status", "import", "deal"}, Decide(c, u, to, path)
      PROVE  TypeOK'
  BY <1>1 DEF Decide, TypeOK, Write, rows
<1>2. ASSUME NEW c \in Clerks, NEW u \in Units, NEW to \in EditTargets,
             DecideStatusChange(c, u, to) \/ DecideOverride(c, u, to)
      PROVE  TypeOK'
  BY <1>1, <1>2, StatusAssumption DEF DecideStatusChange, DecideOverride
<1>3. ASSUME NEW c \in Clerks, NEW u \in Units, NEW given \in EditTargets \cup {None},
             DecideImport(c, u, given)
      PROVE  TypeOK'
  <2>1. (IF given = None THEN "available" ELSE given) \in UnitStatus
    BY StatusAssumption DEF UnitStatus
  <2>2. QED
    BY <1>1, <1>3, <2>1 DEF DecideImport
<1>4. ASSUME NEW c \in Clerks, NEW u \in Units, DecideDealWon(c, u)
      PROVE  TypeOK'
  BY <1>1, <1>4 DEF DecideDealWon, UnitStatus
<1>5. ASSUME NEW w \in writes, MakeWrite(w)
      PROVE  TypeOK'
  BY <1>5 DEF MakeWrite, TypeOK, Write
<1>6. QED
  BY <1>2, <1>3, <1>4, <1>5 DEF StaffNext

LEMMA NextTypeOK == TypeOK /\ [Next]_vars => TypeOK'
<1>1. TypeOK /\ Tick => TypeOK'
  BY DEF Tick, TypeOK, rows
<1>2. TypeOK /\ UNCHANGED vars => TypeOK'
  BY DEF vars, rows, TypeOK
<1>3. QED
  BY <1>1, <1>2, HoldTypeOK, ReservationTypeOK, StaffTypeOK DEF Next

(* Every table keeps its type, on every path. *)
THEOREM TypeCorrect == Spec => []TypeOK
BY InitTypeOK, NextTypeOK, PTL DEF Spec

-----------------------------------------------------------------------------
(* Holds, on every path *)

(* Only CreateHold makes an active hold or rewrites an active row. *)
LEMMA HoldSteps ==
  ASSUME TypeOK, [Next]_vars
  PROVE  \/ \E h \in Holds, a \in Agents, l \in Leads \cup {None}, u \in Units, d \in Durations :
               CreateHold(h, a, l, u, d)
         \/ \A h \in Holds : hold'[h].status = "active" => hold'[h] = hold[h]
<1>1. ASSUME NEW h \in Holds, NEW status \in HoldStatus \ {"active"},
             hold' = [hold EXCEPT ![h].status = status]
      PROVE  \A k \in Holds : hold'[k].status = "active" => hold'[k] = hold[k]
  <2>1. hold[h] \in HoldRow
    BY DEF TypeOK
  <2>2. ASSUME NEW k \in Holds, hold'[k].status = "active"
        PROVE  hold'[k] = hold[k]
    BY <1>1, <2>1, <2>2 DEF TypeOK, HoldRow
  <2>3. QED
    BY <2>2
<1>2. ASSUME NEW h \in Holds, ReleaseHold(h)
      PROVE  \A k \in Holds : hold'[k].status = "active" => hold'[k] = hold[k]
  BY <1>1, <1>2 DEF ReleaseHold, EndHold, HoldStatus
<1>3. ASSUME NEW j \in jobs, NEW again \in BOOLEAN, ExpireHold(j, again)
      PROVE  \A k \in Holds : hold'[k].status = "active" => hold'[k] = hold[k]
  <2>1. j.id \in Holds
    BY <1>3 DEF ExpireHold, TypeOK
  <2>2. QED
    BY <1>1, <1>3, <2>1 DEF ExpireHold, EndHold, HoldStatus, rows
<1>4. ASSUME NEW r \in Reservations, NEW a \in Agents, NEW l \in Leads \cup {None},
             NEW u \in Units, NEW d \in Durations, CreateReservation(r, a, l, u, d)
      PROVE  \A k \in Holds : hold'[k].status = "active" => hold'[k] = hold[k]
  BY <1>1, <1>4 DEF CreateReservation, ConvertHold, ActiveHolds, HoldStatus
<1>5. ReservationNext => \A k \in Holds : hold'[k].status = "active" => hold'[k] = hold[k]
  BY <1>4 DEF ReservationNext, ExtendReservation, CancelReservation, ExpireReservation,
              CreateBooking, rows
<1>6. StaffNext \/ Tick \/ UNCHANGED vars => UNCHANGED hold
  BY DEF StaffNext, DecideStatusChange, DecideOverride, DecideImport, DecideDealWon, Decide,
         MakeWrite, Tick, vars, rows
<1>7. QED
  BY <1>2, <1>3, <1>5, <1>6 DEF Next, HoldNext

LEMMA OneActiveHoldStep == TypeOK /\ OneActiveHold /\ [Next]_vars => OneActiveHold'
<1> SUFFICES ASSUME TypeOK, OneActiveHold, [Next]_vars PROVE OneActiveHold'
  OBVIOUS
<1>1. ASSUME NEW h \in Holds, NEW a \in Agents, NEW l \in Leads \cup {None}, NEW u \in Units,
             NEW d \in Durations, CreateHold(h, a, l, u, d)
      PROVE  OneActiveHold'
  <2>1. hold' = [hold EXCEPT ![h] = Row("active", u, a, l, now + d)] /\ hold \in [Holds -> HoldRow]
    BY <1>1 DEF CreateHold, TypeOK
  <2>2. \A k \in Holds : k # h => hold'[k] = hold[k]
    BY <2>1
  <2>3. hold'[h].unit = u
    BY <2>1 DEF Row
  <2>4. \A k \in Holds : ~(hold[k].status = "active" /\ hold[k].unit = u)
    BY <1>1 DEF CreateHold, ActiveHolds
  <2>5. QED
    BY <2>2, <2>3, <2>4 DEF OneActiveHold
<1>2. CASE \A h \in Holds : hold'[h].status = "active" => hold'[h] = hold[h]
  BY <1>2 DEF OneActiveHold
<1>3. QED
  BY <1>1, <1>2, HoldSteps

(* Only one active hold per unit, whatever staff do to its status. *)
THEOREM OneActiveHoldHolds == Spec => []OneActiveHold
<1>1. Init => OneActiveHold
  BY DEF Init, OneActiveHold, NoRow
<1>2. QED
  BY <1>1, TypeCorrect, OneActiveHoldStep, PTL DEF Spec

-----------------------------------------------------------------------------
(* Deadlines, on every path *)

(* Only creating and extending give a live reservation a row it had not. *)
LEMMA ReservationSteps ==
  ASSUME TypeOK, [Next]_vars
  PROVE  \/ \E r \in Reservations, a \in Agents, l \in Leads \cup {None}, u \in Units, d \in Durations :
               CreateReservation(r, a, l, u, d)
         \/ \E r \in Reservations, d \in Durations : ExtendReservation(r, d)
         \/ \A r \in Reservations : res'[r].status \in Live => res'[r] = res[r]
<1>1. ASSUME NEW r \in Reservations, NEW status \in ReservationStatus \ Live,
             res' = [res EXCEPT ![r].status = status]
      PROVE  \A k \in Reservations : res'[k].status \in Live => res'[k] = res[k]
  <2>1. res[r] \in ReservationRow
    BY DEF TypeOK
  <2>2. ASSUME NEW k \in Reservations, res'[k].status \in Live
        PROVE  res'[k] = res[k]
    BY <1>1, <2>1, <2>2 DEF TypeOK, ReservationRow
  <2>3. QED
    BY <2>2
<1>2. ASSUME NEW r \in Reservations, NEW releaseUnit \in BOOLEAN, CancelReservation(r, releaseUnit)
      PROVE  \A k \in Reservations : res'[k].status \in Live => res'[k] = res[k]
  BY <1>1, <1>2 DEF CancelReservation, ReservationStatus, Live
<1>3. ASSUME NEW j \in jobs, NEW again \in BOOLEAN, ExpireReservation(j, again)
      PROVE  \A k \in Reservations : res'[k].status \in Live => res'[k] = res[k]
  <2>1. j.id \in Reservations
    BY <1>3 DEF ExpireReservation, TypeOK
  <2>2. "expired" \in ReservationStatus \ Live
    BY DEF ReservationStatus, Live
  <2>3. QED
    BY <1>1, <1>3, <2>1, <2>2 DEF ExpireReservation, rows
<1>4. ASSUME NEW r \in Reservations, CreateBooking(r)
      PROVE  \A k \in Reservations : res'[k].status \in Live => res'[k] = res[k]
  BY <1>1, <1>4 DEF CreateBooking, ReservationStatus, Live
<1>5. HoldNext => UNCHANGED res
  BY DEF HoldNext, CreateHold, ReleaseHold, ExpireHold, EndHold, rows
<1>6. StaffNext \/ Tick \/ UNCHANGED vars => UNCHANGED res
  BY DEF StaffNext, DecideStatusChange, DecideOverride, DecideImport, DecideDealWon, Decide,
         MakeWrite, Tick, vars, rows
<1>7. QED
  BY <1>2, <1>3, <1>4, <1>5, <1>6 DEF Next, ReservationNext

(* A job leaves the queue only when it is run, and running the job of a    *)
(* deadline ends what the deadline is for.                                 *)
LEMMA JobSteps ==
  ASSUME TypeOK, [Next]_vars, NEW j \in jobs, j \notin jobs'
  PROVE  /\ j.at <= now
         /\ j.kind = "hold" => ~(hold'[j.id].status = "active" /\ Due(hold[j.id]))
         /\ j.kind = "reservation" => ~(res'[j.id].status \in Live /\ Due(res[j.id]))
<1>1. ASSUME NEW k \in jobs, NEW again \in BOOLEAN, ExpireHold(k, again)
      PROVE  j = k /\ j.kind = "hold" /\ j.at <= now
             /\ ~(hold'[j.id].status = "active" /\ Due(hold[j.id]))
  <2>1. j = k /\ k.kind = "hold" /\ k.at <= now /\ k.id \in Holds
    BY <1>1 DEF ExpireHold, TypeOK
  <2>2. CASE hold[k.id].status = "active" /\ Due(hold[k.id])
    <3>1. hold' = [hold EXCEPT ![k.id].status = "expired"] /\ hold[k.id] \in HoldRow
      BY <1>1, <2>1, <2>2 DEF ExpireHold, EndHold, TypeOK
    <3>2. hold'[k.id].status = "expired"
      BY <2>1, <3>1 DEF TypeOK, HoldRow
    <3>3. QED
      BY <2>1, <3>2
  <2>3. CASE ~(hold[k.id].status = "active" /\ Due(hold[k.id]))
    BY <1>1, <2>1, <2>3 DEF ExpireHold, rows
  <2>4. QED
    BY <2>2, <2>3
<1>2. ASSUME NEW k \in jobs, NEW again \in BOOLEAN, ExpireReservation(k, again)
      PROVE  j = k /\ j.kind = "reservation" /\ j.at <= now
             /\ ~(res'[j.id].status \in Live /\ Due(res[j.id]))
  <2>1. j = k /\ k.kind = "reservation" /\ k.at <= now /\ k.id \in Reservations
    BY <1>2 DEF ExpireReservation, TypeOK
  <2>2. CASE StillLive(k.id) /\ Due(res[k.id])
    <3>1. res' = [res EXCEPT ![k.id].status = "expired"] /\ res[k.id] \in ReservationRow
      BY <1>2, <2>1, <2>2 DEF ExpireReservation, TypeOK
    <3>2. res'[k.id].status = "expired"
      BY <2>1, <3>1 DEF TypeOK, ReservationRow
    <3>3. QED
      BY <2>1, <3>2 DEF Live
  <2>3. CASE ~(StillLive(k.id) /\ Due(res[k.id]))
    BY <1>2, <2>1, <2>3 DEF ExpireReservation, StillLive, rows
  <2>4. QED
    BY <2>2, <2>3
<1>3. ~UNCHANGED vars /\ ~Tick /\ ~StaffNext
  BY DEF vars, Tick, StaffNext, DecideStatusChange, DecideOverride, DecideImport, DecideDealWon,
         Decide, MakeWrite
<1>4. ASSUME HoldNext PROVE \E k \in jobs, again \in BOOLEAN : ExpireHold(k, again)
  BY <1>4 DEF HoldNext, CreateHold, ReleaseHold, Schedule
<1>5. ASSUME ReservationNext PROVE \E k \in jobs, again \in BOOLEAN : ExpireReservation(k, again)
  BY <1>5 DEF ReservationNext, CreateReservation, ExtendReservation, CancelReservation,
              CreateBooking, Schedule
<1>6. QED
  BY <1>1, <1>2, <1>3, <1>4, <1>5 DEF Next

LEMMA HoldDeadlineStep ==
  ASSUME TypeOK, ExpiryScheduled, [Next]_vars, NEW h \in Holds, hold'[h].status = "active"
  PROVE  HoldJob(h, hold'[h].exp) \in jobs'
<1>1. ASSUME NEW k \in Holds, NEW a \in Agents, NEW l \in Leads \cup {None}, NEW u \in Units,
             NEW d \in Durations, CreateHold(k, a, l, u, d)
      PROVE  HoldJob(h, hold'[h].exp) \in jobs'
  <2>1. /\ hold' = [hold EXCEPT ![k] = Row("active", u, a, l, now + d)]
        /\ jobs' = jobs \cup {HoldJob(k, now + d)}
    BY <1>1 DEF CreateHold, Schedule
  <2>2. CASE h = k
    BY <2>1, <2>2 DEF TypeOK, Row
  <2>3. CASE h # k
    BY <2>1, <2>3 DEF TypeOK, ExpiryScheduled
  <2>4. QED
    BY <2>2, <2>3
<1>2. CASE hold'[h] = hold[h]
  <2>1. HoldJob(h, hold[h].exp) \in jobs
    BY <1>2 DEF ExpiryScheduled
  <2>2. HoldJob(h, hold[h].exp).at = hold[h].exp /\ HoldJob(h, hold[h].exp).id = h
        /\ HoldJob(h, hold[h].exp).kind = "hold"
    BY DEF HoldJob
  <2>3. HoldJob(h, hold[h].exp) \in jobs'
    BY <2>1, <2>2, JobSteps DEF Due
  <2>4. QED
    BY <1>2, <2>3
<1>3. QED
  BY <1>1, <1>2, HoldSteps

LEMMA ReservationDeadlineStep ==
  ASSUME TypeOK, ExpiryScheduled, [Next]_vars, NEW r \in Reservations, res'[r].status \in Live
  PROVE  ReservationJob(r, res'[r].exp) \in jobs'
<1>1. ASSUME NEW k \in Reservations, NEW a \in Agents, NEW l \in Leads \cup {None}, NEW u \in Units,
             NEW d \in Durations, CreateReservation(k, a, l, u, d)
      PROVE  ReservationJob(r, res'[r].exp) \in jobs'
  <2>1. /\ res' = [res EXCEPT ![k] = Row("pending", u, a, l, now + d)]
        /\ jobs' = jobs \cup {ReservationJob(k, now + d)}
    BY <1>1 DEF CreateReservation, Schedule
  <2>2. CASE r = k
    BY <2>1, <2>2 DEF TypeOK, Row
  <2>3. CASE r # k
    BY <2>1, <2>3 DEF TypeOK, ExpiryScheduled
  <2>4. QED
    BY <2>2, <2>3
<1>2. ASSUME NEW k \in Reservations, NEW d \in Durations, ExtendReservation(k, d)
      PROVE  ReservationJob(r, res'[r].exp) \in jobs'
  <2> DEFINE next == Later(res[k].exp, now) + d
  <2>1. /\ res' = [res EXCEPT ![k].status = "extended", ![k].exp = next]
        /\ jobs' = jobs \cup {ReservationJob(k, next)}
        /\ res[k] \in ReservationRow
    BY <1>2 DEF ExtendReservation, Schedule, TypeOK
  <2>2. CASE r = k
    <3>1. res'[k].exp = next
      BY <2>1 DEF TypeOK, ReservationRow
    <3>2. QED
      BY <2>1, <2>2, <3>1
  <2>3. CASE r # k
    BY <2>1, <2>3 DEF TypeOK, ExpiryScheduled
  <2>4. QED
    BY <2>2, <2>3
<1>3. CASE res'[r] = res[r]
  <2>1. ReservationJob(r, res[r].exp) \in jobs
    BY <1>3 DEF ExpiryScheduled
  <2>2. ReservationJob(r, res[r].exp).at = res[r].exp /\ ReservationJob(r, res[r].exp).id = r
        /\ ReservationJob(r, res[r].exp).kind = "reservation"
    BY DEF ReservationJob
  <2>3. ReservationJob(r, res[r].exp) \in jobs'
    BY <2>1, <2>2, JobSteps DEF Due
  <2>4. QED
    BY <1>3, <2>3
<1>4. QED
  BY <1>1, <1>2, <1>3, ReservationSteps

(* On every path the queue holds a job for every deadline still running. *)
THEOREM ExpiryScheduledHolds == Spec => []ExpiryScheduled
<1>1. Init => ExpiryScheduled
  BY DEF Init, ExpiryScheduled, NoRow, Live
<1>2. TypeOK /\ ExpiryScheduled /\ [Next]_vars => ExpiryScheduled'
  <2> SUFFICES ASSUME TypeOK, ExpiryScheduled, [Next]_vars PROVE ExpiryScheduled'
    OBVIOUS
  <2>1. \A h \in Holds : hold'[h].status = "active" => HoldJob(h, hold'[h].exp) \in jobs'
    BY HoldDeadlineStep
  <2>2. \A r \in Reservations :
          res'[r].status \in Live => ReservationJob(r, res'[r].exp) \in jobs'
    BY ReservationDeadlineStep
  <2>3. QED
    BY <2>1, <2>2 DEF ExpiryScheduled, HoldJob, ReservationJob
<1>3. QED
  BY <1>1, <1>2, TypeCorrect, PTL DEF Spec

-----------------------------------------------------------------------------
(* The reservation flow on its own (Disciplined)                           *)

LEMMA FlowInit == Init => FlowInv
BY DEF Init, FlowInv, OneActiveHold, HoldMatchesStock, NoDoubleReservation, LiveMatchesStock,
       ReservedUnitBacked, NoDoubleBooking, BookedMatchesStock, OnlySales, NoRow, Live

LEMMA FlowCreateHold ==
  ASSUME TypeOK, FlowInv, OneActiveHold', NEW h \in Holds, NEW a \in Agents,
         NEW l \in Leads \cup {None}, NEW u \in Units, NEW d \in Durations,
         CreateHold(h, a, l, u, d)
  PROVE  FlowInv'
<1>1. /\ hold' = [hold EXCEPT ![h] = Row("active", u, a, l, now + d)]
      /\ stock' = [stock EXCEPT ![u] = "on_hold"]
      /\ stock[u] \in {"available", "on_hold"}
      /\ UNCHANGED <<resOf, res, bookings, writes>>
  BY DEF CreateHold, Reservable
<1>2. HoldMatchesStock'
  BY <1>1 DEF FlowInv, HoldMatchesStock, TypeOK, Row
<1>3. LiveMatchesStock'
  BY <1>1 DEF FlowInv, LiveMatchesStock, TypeOK, Live
<1>4. ReservedUnitBacked'
  BY <1>1 DEF FlowInv, ReservedUnitBacked, TypeOK
<1>5. BookedMatchesStock'
  BY <1>1 DEF FlowInv, BookedMatchesStock, TypeOK
<1>6. NoDoubleReservation' /\ NoDoubleBooking' /\ OnlySales'
  BY <1>1 DEF FlowInv, NoDoubleReservation, NoDoubleBooking, OnlySales
<1>7. QED
  BY <1>2, <1>3, <1>4, <1>5, <1>6 DEF FlowInv

LEMMA FlowEndHold ==
  ASSUME TypeOK, FlowInv, OneActiveHold', NEW h \in Holds, hold[h].status = "active",
         NEW status \in HoldStatus \ {"active"}, EndHold(h, status), UNCHANGED writes
  PROVE  FlowInv'
<1> DEFINE u == hold[h].unit
<1>1. /\ hold' = [hold EXCEPT ![h].status = status]
      /\ stock' = stock \/ (stock[u] = "on_hold" /\ stock' = [stock EXCEPT ![u] = "available"])
      /\ UNCHANGED <<resOf, res, bookings, writes>>
  BY DEF EndHold
<1>2. hold[h] \in HoldRow /\ u \in Units
  BY DEF TypeOK
<1>3. ASSUME NEW k \in Holds, hold'[k].status = "active"
      PROVE  hold'[k] = hold[k] /\ k # h /\ hold[k].unit # u
  BY <1>1, <1>2, <1>3 DEF TypeOK, HoldRow, FlowInv, OneActiveHold
<1>4. HoldMatchesStock'
  BY <1>1, <1>2, <1>3 DEF FlowInv, HoldMatchesStock, TypeOK
<1>5. LiveMatchesStock'
  BY <1>1, <1>2 DEF FlowInv, LiveMatchesStock, TypeOK, Live
<1>6. ReservedUnitBacked'
  BY <1>1, <1>2 DEF FlowInv, ReservedUnitBacked, TypeOK
<1>7. BookedMatchesStock'
  BY <1>1, <1>2 DEF FlowInv, BookedMatchesStock, TypeOK
<1>8. NoDoubleReservation' /\ NoDoubleBooking' /\ OnlySales'
  BY <1>1 DEF FlowInv, NoDoubleReservation, NoDoubleBooking, OnlySales
<1>9. QED
  BY <1>4, <1>5, <1>6, <1>7, <1>8 DEF FlowInv

LEMMA FlowCreateReservation ==
  ASSUME TypeOK, FlowInv, OneActiveHold', NEW r \in Reservations, NEW a \in Agents,
         NEW l \in Leads \cup {None}, NEW u \in Units, NEW d \in Durations,
         CreateReservation(r, a, l, u, d)
  PROVE  FlowInv'
<1>1. /\ res' = [res EXCEPT ![r] = Row("pending", u, a, l, now + d)]
      /\ stock' = [stock EXCEPT ![u] = "reserved"]
      /\ resOf' = [resOf EXCEPT ![u] = r]
      /\ stock[u] \in {"available", "on_hold"}
      /\ res[r].status = "none"
      /\ UNCHANGED <<bookings, writes>>
  BY DEF CreateReservation, Reservable
<1>2. res'[r].unit = u /\ res'[r].status = "pending"
  BY <1>1 DEF TypeOK, Row
<1>3. \A k \in Reservations : k # r => res'[k] = res[k]
  BY <1>1 DEF TypeOK
<1>4. \A k \in Reservations : res[k].status \in Live => res[k].unit # u
  BY <1>1 DEF FlowInv, LiveMatchesStock
<1>5. ASSUME NEW k \in Holds, hold'[k].status = "active"
      PROVE  hold[k] = hold'[k] /\ hold[k].unit # u
  <2>1. CASE UNCHANGED hold /\ (stock[u] = "available" \/ ActiveHolds(u) = {})
    BY <1>1, <1>5, <2>1 DEF FlowInv, HoldMatchesStock, CreateReservation, ConvertHold, ActiveHolds
  <2>2. CASE \E h \in ActiveHolds(u) : hold' = [hold EXCEPT ![h].status = "converted"]
    <3>1. PICK h \in ActiveHolds(u) : hold' = [hold EXCEPT ![h].status = "converted"]
      BY <2>2
    <3>2. h \in Holds /\ hold[h] \in HoldRow /\ hold[h].status = "active" /\ hold[h].unit = u
      BY <3>1 DEF ActiveHolds, TypeOK
    <3>3. k # h /\ hold'[k] = hold[k]
      BY <1>5, <3>1, <3>2 DEF TypeOK, HoldRow
    <3>4. QED
      BY <1>5, <3>2, <3>3 DEF FlowInv, OneActiveHold
  <2>3. QED
    BY <2>1, <2>2 DEF CreateReservation, ConvertHold
<1>6. HoldMatchesStock'
  BY <1>1, <1>5 DEF FlowInv, HoldMatchesStock, TypeOK
<1>7. NoDoubleReservation'
  BY <1>2, <1>3, <1>4 DEF FlowInv, NoDoubleReservation
<1>8. LiveMatchesStock'
  BY <1>1, <1>2, <1>3, <1>4 DEF FlowInv, LiveMatchesStock, TypeOK, Live
<1>9. ReservedUnitBacked'
  BY <1>1, <1>2, <1>3, ConstantsAssumption DEF FlowInv, ReservedUnitBacked, TypeOK, Live
<1>10. bookings[r] = 0
  BY <1>1 DEF FlowInv, BookedMatchesStock, TypeOK
<1>11. BookedMatchesStock' /\ NoDoubleBooking'
  BY <1>1, <1>3, <1>10 DEF FlowInv, BookedMatchesStock, NoDoubleBooking, TypeOK
<1>12. OnlySales'
  BY <1>1 DEF FlowInv, OnlySales
<1>13. QED
  BY <1>6, <1>7, <1>8, <1>9, <1>11, <1>12 DEF FlowInv

LEMMA FlowExtend ==
  ASSUME TypeOK, FlowInv, OneActiveHold', NEW r \in Reservations, NEW d \in Durations,
         ExtendReservation(r, d)
  PROVE  FlowInv'
<1>1. /\ res' = [res EXCEPT ![r].status = "extended", ![r].exp = Later(res[r].exp, now) + d]
      /\ res[r].status \in Live
      /\ UNCHANGED <<stock, resOf, hold, bookings, writes>>
  BY DEF ExtendReservation, StillLive
<1>2. /\ \A k \in Reservations : /\ res'[k].unit = res[k].unit
                                 /\ res'[k].status \in Live <=> res[k].status \in Live
                                 /\ k # r => res'[k].status = res[k].status
  BY <1>1 DEF TypeOK, ReservationRow, Live
<1>3. bookings[r] = 0
  BY <1>1 DEF FlowInv, BookedMatchesStock, TypeOK, Live
<1>4. HoldMatchesStock' /\ OnlySales'
  BY <1>1 DEF FlowInv, HoldMatchesStock, OnlySales
<1>5. NoDoubleReservation'
  BY <1>2 DEF FlowInv, NoDoubleReservation
<1>6. NoDoubleBooking'
  BY <1>1, <1>2 DEF FlowInv, NoDoubleBooking
<1>7. BookedMatchesStock'
  BY <1>1, <1>2, <1>3 DEF FlowInv, BookedMatchesStock, TypeOK
<1>8. LiveMatchesStock'
  BY <1>1, <1>2 DEF FlowInv, LiveMatchesStock
<1>9. ReservedUnitBacked'
  BY <1>1, <1>2 DEF FlowInv, ReservedUnitBacked, TypeOK
<1>10. QED
  BY <1>4, <1>5, <1>6, <1>7, <1>8, <1>9 DEF FlowInv

(* Cancelling, expiring: a live reservation ends and may free its unit. *)
LEMMA FlowEndReservation ==
  ASSUME TypeOK, FlowInv, OneActiveHold', NEW r \in Reservations, res[r].status \in Live,
         NEW status \in {"cancelled", "expired"},
         res' = [res EXCEPT ![r].status = status],
         UNCHANGED <<hold, bookings, writes>>,
         \/ status = "cancelled" /\ UNCHANGED <<stock, resOf>>
         \/ FreeUnit(res[r].unit, {"reserved", "booked"})
         \/ FreeUnit(res[r].unit, {"reserved"})
  PROVE  FlowInv'
<1> DEFINE u == res[r].unit
<1>1. res[r] \in ReservationRow /\ u \in Units
  BY DEF TypeOK, Live
<1>2. /\ \A k \in Reservations : res'[k].unit = res[k].unit
      /\ \A k \in Reservations : k # r => res'[k] = res[k]
      /\ res'[r].status = status
  BY <1>1 DEF TypeOK, ReservationRow
<1>3. \/ UNCHANGED <<stock, resOf>> /\ (stock[u] = "reserved" => status = "cancelled")
      \/ /\ stock[u] = "reserved"
         /\ stock' = [stock EXCEPT ![u] = "available"]
         /\ resOf' = [resOf EXCEPT ![u] = None]
  BY DEF FreeUnit, FlowInv, LiveMatchesStock
<1>4. \A k \in Reservations : res[k].status \in Live /\ res[k].unit = u => k = r
  BY DEF FlowInv, NoDoubleReservation
<1>5. HoldMatchesStock'
  BY <1>1, <1>3 DEF FlowInv, HoldMatchesStock, TypeOK
<1>6. NoDoubleReservation'
  BY <1>2 DEF FlowInv, NoDoubleReservation, Live
<1>7. LiveMatchesStock'
  <2>1. ASSUME NEW k \in Reservations, res'[k].status \in Live
        PROVE  k # r /\ res[k].status \in Live /\ res[k].unit # u /\ res[k].unit \in Units
    BY <1>2, <1>4, <2>1 DEF Live, TypeOK
  <2>2. QED
    BY <1>1, <1>2, <1>3, <2>1 DEF FlowInv, LiveMatchesStock, TypeOK
<1>8. ReservedUnitBacked'
  BY <1>1, <1>2, <1>3, ConstantsAssumption
     DEF FlowInv, ReservedUnitBacked, LiveMatchesStock, TypeOK
<1>9. bookings[r] = 0 /\ (stock' # stock => \A k \in Reservations : bookings[k] > 0 => res[k].unit # u)
  BY <1>3 DEF FlowInv, BookedMatchesStock, TypeOK, Live
<1>10. BookedMatchesStock'
  <2>1. ASSUME NEW k \in Reservations, bookings[k] > 0
        PROVE  k # r /\ res[k].unit \in Units /\ stock'[res[k].unit] = stock[res[k].unit]
    BY <1>1, <1>3, <1>9, <2>1 DEF TypeOK, FlowInv, BookedMatchesStock
  <2>2. QED
    BY <1>2, <2>1 DEF FlowInv, BookedMatchesStock
<1>11. NoDoubleBooking' /\ OnlySales'
  BY <1>2 DEF FlowInv, NoDoubleBooking, OnlySales
<1>12. QED
  BY <1>5, <1>6, <1>7, <1>8, <1>10, <1>11 DEF FlowInv

LEMMA FlowCreateBooking ==
  ASSUME TypeOK, FlowInv, OneActiveHold', NEW r \in Reservations, CreateBooking(r)
  PROVE  FlowInv'
<1> DEFINE u == res[r].unit
<1>1. /\ res[r].status \in Live
      /\ bookings' = [bookings EXCEPT ![r] = bookings[r] + 1]
      /\ stock' = [stock EXCEPT ![u] = "booked"]
      /\ res' = [res EXCEPT ![r].status = "converted"]
      /\ UNCHANGED <<resOf, hold, writes>>
  BY DEF CreateBooking, StillLive
<1>2. res[r] \in ReservationRow /\ u \in Units
  BY <1>1 DEF TypeOK, Live
<1>3. stock[u] \in {"reserved", "booked"}
  BY <1>2 DEF CreateBooking, CanMove, UnitMoves, TypeOK, UnitStatus
<1>4. stock[u] = "reserved"
  BY <1>1, <1>3 DEF FlowInv, LiveMatchesStock
<1>5. /\ \A k \in Reservations : res'[k].unit = res[k].unit
      /\ \A k \in Reservations : k # r => res'[k] = res[k]
      /\ res'[r].status = "converted"
  BY <1>1, <1>2 DEF TypeOK, ReservationRow
<1>6. \A k \in Reservations : res[k].status \in Live /\ res[k].unit = u => k = r
  BY <1>1 DEF FlowInv, NoDoubleReservation
<1>7. bookings[r] = 0 /\ \A k \in Reservations : bookings[k] > 0 => k # r /\ res[k].unit # u
  BY <1>1, <1>4 DEF FlowInv, BookedMatchesStock, TypeOK, Live
<1>8. bookings'[r] = 1 /\ \A k \in Reservations : k # r => bookings'[k] = bookings[k]
  BY <1>1, <1>7 DEF TypeOK
<1>9. HoldMatchesStock'
  BY <1>1, <1>2, <1>4 DEF FlowInv, HoldMatchesStock, TypeOK
<1>10. NoDoubleReservation'
  BY <1>5 DEF FlowInv, NoDoubleReservation, Live
<1>11. LiveMatchesStock'
  <2>1. ASSUME NEW k \in Reservations, res'[k].status \in Live
        PROVE  k # r /\ res[k].status \in Live /\ res[k].unit # u /\ res[k].unit \in Units
    BY <1>5, <1>6, <2>1 DEF Live, TypeOK
  <2>2. QED
    BY <1>1, <1>2, <1>5, <2>1 DEF FlowInv, LiveMatchesStock, TypeOK
<1>12. ReservedUnitBacked'
  BY <1>1, <1>2, <1>5 DEF FlowInv, ReservedUnitBacked, TypeOK
<1>13. BookedMatchesStock'
  <2>1. ASSUME NEW k \in Reservations, k # r, bookings'[k] > 0
        PROVE  bookings[k] > 0 /\ res[k].unit \in Units /\ res[k].unit # u
    BY <1>7, <1>8, <2>1 DEF TypeOK, FlowInv, BookedMatchesStock
  <2>2. stock'[u] = "booked"
    BY <1>1, <1>2 DEF TypeOK
  <2>3. QED
    BY <1>1, <1>5, <1>8, <2>1, <2>2 DEF FlowInv, BookedMatchesStock, TypeOK
<1>14. NoDoubleBooking'
  BY <1>5, <1>7, <1>8 DEF FlowInv, NoDoubleBooking
<1>15. OnlySales'
  BY <1>1 DEF FlowInv, OnlySales
<1>16. QED
  BY <1>9, <1>10, <1>11, <1>12, <1>13, <1>14, <1>15 DEF FlowInv

LEMMA FlowStaff ==
  ASSUME Disciplined, TypeOK, FlowInv, OneActiveHold', StaffNext
  PROVE  FlowInv'
<1>1. ASSUME NEW c \in Clerks, NEW u \in Units, DecideDealWon(c, u)
      PROVE  FlowInv'
  <2>1. UNCHANGED rows /\ \A w \in writes' : w \in writes \/ w.to = "sold"
    BY <1>1 DEF DecideDealWon, Decide
  <2>2. QED
    BY <2>1 DEF rows, FlowInv, HoldMatchesStock, NoDoubleReservation, LiveMatchesStock,
                ReservedUnitBacked, NoDoubleBooking, BookedMatchesStock, OnlySales
<1>2. ASSUME NEW w \in writes, MakeWrite(w)
      PROVE  FlowInv'
  <2>1. /\ stock' = [stock EXCEPT ![w.unit] = "sold"]
        /\ writes' \subseteq writes
        /\ UNCHANGED <<resOf, hold, res, bookings>>
    BY <1>2 DEF MakeWrite, FlowInv, OnlySales
  <2>2. HoldMatchesStock' /\ LiveMatchesStock'
    BY <2>1 DEF FlowInv, HoldMatchesStock, LiveMatchesStock, TypeOK, Live
  <2>3. ReservedUnitBacked' /\ BookedMatchesStock'
    BY <2>1 DEF FlowInv, ReservedUnitBacked, BookedMatchesStock, TypeOK
  <2>4. NoDoubleReservation' /\ NoDoubleBooking' /\ OnlySales'
    BY <2>1 DEF FlowInv, NoDoubleReservation, NoDoubleBooking, OnlySales
  <2>5. QED
    BY <2>2, <2>3, <2>4 DEF FlowInv
<1>3. QED
  BY <1>1, <1>2 DEF StaffNext, Disciplined, DecideStatusChange, DecideOverride, DecideImport

LEMMA FlowStep ==
  ASSUME Disciplined
  PROVE  TypeOK /\ FlowInv /\ [Next]_vars => FlowInv'
<1> SUFFICES ASSUME TypeOK, FlowInv, [Next]_vars PROVE FlowInv'
  OBVIOUS
<1>1. OneActiveHold'
  BY OneActiveHoldStep DEF FlowInv
<1>2. ASSUME UNCHANGED <<rows, writes>>
      PROVE  FlowInv'
  BY <1>2 DEF rows, FlowInv, OneActiveHold, HoldMatchesStock, NoDoubleReservation,
              LiveMatchesStock, ReservedUnitBacked, NoDoubleBooking, BookedMatchesStock, OnlySales
<1>3. CASE HoldNext
  <2>1. ASSUME NEW h \in Holds, ReleaseHold(h) PROVE FlowInv'
    BY <1>1, <2>1, FlowEndHold DEF ReleaseHold, HoldStatus
  <2>2. ASSUME NEW j \in jobs, NEW again \in BOOLEAN, ExpireHold(j, again) PROVE FlowInv'
    <3>1. j.id \in Holds
      BY <2>2 DEF ExpireHold, TypeOK
    <3>2. QED
      BY <1>1, <1>2, <2>2, <3>1, FlowEndHold DEF ExpireHold, HoldStatus
  <2>3. QED
    BY <1>1, <1>3, <2>1, <2>2, FlowCreateHold DEF HoldNext
<1>4. CASE ReservationNext
  <2>1. ASSUME NEW r \in Reservations, NEW releaseUnit \in BOOLEAN, CancelReservation(r, releaseUnit)
        PROVE  FlowInv'
    <3>1. res[r].status \in Live
      BY <2>1 DEF CancelReservation, Disciplined
    <3>2. QED
      BY <1>1, <2>1, <3>1, FlowEndReservation DEF CancelReservation
  <2>2. ASSUME NEW j \in jobs, NEW again \in BOOLEAN, ExpireReservation(j, again)
        PROVE  FlowInv'
    <3>1. j.id \in Reservations
      BY <2>2 DEF ExpireReservation, TypeOK
    <3>2. QED
      BY <1>1, <1>2, <2>2, <3>1, FlowEndReservation DEF ExpireReservation, StillLive
  <2>3. QED
    BY <1>1, <1>4, <2>1, <2>2, FlowCreateReservation, FlowExtend, FlowCreateBooking
       DEF ReservationNext
<1>5. CASE StaffNext
  BY <1>1, <1>5, FlowStaff
<1>6. CASE Tick \/ UNCHANGED vars
  BY <1>2, <1>6 DEF Tick, vars
<1>7. QED
  BY <1>3, <1>4, <1>5, <1>6 DEF Next

(* The invariant of the flow. *)
THEOREM FlowInvariant ==
  ASSUME Disciplined
  PROVE  Spec => []FlowInv
BY FlowInit, FlowStep, TypeCorrect, PTL DEF Spec

(* Two agents never both have a unit: not reserved, and not booked. *)
THEOREM FlowNeverDoubleBooks ==
  ASSUME Disciplined
  PROVE  Spec => [](NoDoubleReservation /\ NoDoubleBooking)
<1>1. FlowInv => NoDoubleReservation /\ NoDoubleBooking
  BY DEF FlowInv
<1>2. QED
  BY <1>1, FlowInvariant, PTL

(* Nor does one unit ever end in two bookings (createBooking).             *)
THEOREM FlowBooksOnce ==
  ASSUME Disciplined
  PROVE  Spec => []NoDoubleBooking
<1>1. FlowInv => NoDoubleBooking
  BY DEF FlowInv
<1>2. QED
  BY <1>1, FlowInvariant, PTL

(* Expiry never strands a unit in "reserved". *)
THEOREM FlowBacksReservedUnits ==
  ASSUME Disciplined
  PROVE  Spec => []ReservedUnitBacked
<1>1. FlowInv => ReservedUnitBacked
  BY DEF FlowInv
<1>2. QED
  BY <1>1, FlowInvariant, PTL

-----------------------------------------------------------------------------
(* Steps *)

(* Nothing ends before its deadline, however late, early or often jobs run. *)
THEOREM NeverEarly == Spec => NeverExpiredEarly
<1> DEFINE A == /\ \A r \in Reservations :
                     res[r].status # "expired" /\ res'[r].status = "expired" => res[r].exp <= now
                /\ \A h \in Holds :
                     hold[h].status # "expired" /\ hold'[h].status = "expired" => hold[h].exp <= now
<1>1. ASSUME TypeOK, Next PROVE A
  <2>1. ASSUME NEW j \in jobs, NEW again \in BOOLEAN, ExpireHold(j, again) PROVE A
    BY <1>1, <2>1 DEF ExpireHold, EndHold, Due, TypeOK, HoldRow, rows
  <2>2. ASSUME NEW j \in jobs, NEW again \in BOOLEAN, ExpireReservation(j, again) PROVE A
    BY <1>1, <2>2 DEF ExpireReservation, Due, TypeOK, ReservationRow, rows
  <2>3. ASSUME NEW h \in Holds, NEW a \in Agents, NEW l \in Leads \cup {None}, NEW u \in Units,
               NEW d \in Durations, CreateHold(h, a, l, u, d)
        PROVE  A
    BY <2>3 DEF CreateHold, TypeOK, Row
  <2>4. ASSUME NEW h \in Holds, ReleaseHold(h) PROVE A
    BY <2>4 DEF ReleaseHold, EndHold, TypeOK, HoldRow
  <2>5. ASSUME NEW r \in Reservations, NEW a \in Agents, NEW l \in Leads \cup {None},
               NEW u \in Units, NEW d \in Durations, CreateReservation(r, a, l, u, d)
        PROVE  A
    <3>1. \A k \in Reservations : res'[k].status = "expired" => res[k].status = "expired"
      BY <2>5 DEF CreateReservation, TypeOK, Row
    <3>2. \A k \in Holds : hold'[k].status = "expired" => hold[k].status = "expired"
      BY <1>1, <2>5 DEF CreateReservation, ConvertHold, ActiveHolds, TypeOK, HoldRow
    <3>3. QED
      BY <3>1, <3>2
  <2>6. ASSUME NEW r \in Reservations, NEW d \in Durations, ExtendReservation(r, d) PROVE A
    BY <1>1, <2>6 DEF ExtendReservation, TypeOK, ReservationRow
  <2>7. ASSUME NEW r \in Reservations, NEW releaseUnit \in BOOLEAN, CancelReservation(r, releaseUnit)
        PROVE  A
    BY <2>7 DEF CancelReservation, TypeOK, ReservationRow
  <2>8. ASSUME NEW r \in Reservations, CreateBooking(r) PROVE A
    BY <2>8 DEF CreateBooking, TypeOK, ReservationRow
  <2>9. CASE StaffNext \/ Tick
    BY <2>9 DEF StaffNext, DecideStatusChange, DecideOverride, DecideImport, DecideDealWon, Decide,
                MakeWrite, Tick, rows
  <2>10. QED
    BY <1>1, <2>1, <2>2, <2>3, <2>4, <2>5, <2>6, <2>7, <2>8, <2>9
       DEF Next, HoldNext, ReservationNext
<1>2. TypeOK /\ [Next]_vars => [A]_vars
  BY <1>1
<1>3. QED
  BY <1>2, TypeCorrect, PTL DEF Spec, NeverExpiredEarly

(* An ended reservation never comes back to life, and no deadline moves    *)
(* back, whatever paths staff use (extendReservation, expireReservation).  *)
THEOREM EndedIsForGood == Spec => EndedStaysEnded
<1> DEFINE Kept(r) == res[r].status # "none" =>
                        /\ res'[r].status \in Live => res[r].status \in Live
                        /\ res'[r].exp >= res[r].exp
           A == \A r \in Reservations : Kept(r)
<1>1. ASSUME TypeOK, NEW r \in Reservations, NEW x, res' = [res EXCEPT ![r] = x],
             res[r].status # "none" =>
               /\ x.status \in Live => res[r].status \in Live
               /\ x.exp >= res[r].exp
      PROVE  A
  BY <1>1 DEF TypeOK, ReservationRow
<1>2. ASSUME TypeOK, res' = res PROVE A
  BY <1>2 DEF TypeOK, ReservationRow
<1>3. ASSUME TypeOK, Next PROVE A
  <2>1. ASSUME NEW r \in Reservations, NEW a \in Agents, NEW l \in Leads \cup {None},
               NEW u \in Units, NEW d \in Durations, CreateReservation(r, a, l, u, d)
        PROVE  A
    <3>1. /\ res' = [res EXCEPT ![r] = Row("pending", u, a, l, now + d)]
          /\ res[r].status = "none"
      BY <2>1 DEF CreateReservation
    <3> HIDE DEF A
    <3>2. QED
      BY <1>1, <1>3, <3>1
  <2>2. ASSUME NEW r \in Reservations, NEW d \in Durations, ExtendReservation(r, d) PROVE A
    <3> DEFINE next == Later(res[r].exp, now) + d
               x == [res[r] EXCEPT !.status = "extended", !.exp = next]
    <3>1. res' = [res EXCEPT ![r] = x] /\ res[r].status \in Live
      BY <2>2 DEF ExtendReservation, StillLive
    <3>2. res[r] \in ReservationRow /\ d \in Nat /\ now \in Nat /\ res[r].exp \in Nat
      BY <1>3, ConstantsAssumption DEF TypeOK, ReservationRow
    <3>3. next >= res[r].exp
      BY <3>2 DEF Later
    <3>4. x.exp = next
      BY <3>2 DEF ReservationRow
    <3> HIDE DEF A, x, next
    <3>5. QED
      BY <1>1, <1>3, <3>1, <3>3, <3>4
  <2>3. ASSUME NEW r \in Reservations, NEW status \in ReservationStatus \ Live,
               res' = [res EXCEPT ![r].status = status]
        PROVE  A
    <3> DEFINE x == [res[r] EXCEPT !.status = status]
    <3>1. x.status = status /\ x.exp = res[r].exp /\ res[r].exp \in Nat
      BY <1>3 DEF TypeOK, ReservationRow
    <3>2. res' = [res EXCEPT ![r] = x]
      BY <2>3
    <3>3. x.exp >= res[r].exp
      BY <3>1
    <3> HIDE DEF A, x
    <3>4. QED
      BY <1>1, <1>3, <3>1, <3>2, <3>3
  <2> HIDE DEF A
  <2>4. ASSUME NEW r \in Reservations, NEW releaseUnit \in BOOLEAN, CancelReservation(r, releaseUnit)
        PROVE  A
    BY <2>3, <2>4 DEF CancelReservation, ReservationStatus, Live
  <2>5. ASSUME NEW j \in jobs, NEW again \in BOOLEAN, ExpireReservation(j, again) PROVE A
    <3>1. j.id \in Reservations
      BY <1>3, <2>5 DEF ExpireReservation, TypeOK
    <3>2. CASE StillLive(j.id) /\ Due(res[j.id])
      BY <2>3, <2>5, <3>1, <3>2 DEF ExpireReservation, ReservationStatus, Live
    <3>3. CASE ~(StillLive(j.id) /\ Due(res[j.id]))
      BY <1>2, <1>3, <2>5, <3>3 DEF ExpireReservation, rows
    <3>4. QED
      BY <3>2, <3>3
  <2>6. ASSUME NEW r \in Reservations, CreateBooking(r) PROVE A
    BY <2>3, <2>6 DEF CreateBooking, ReservationStatus, Live
  <2>7. HoldNext \/ StaffNext \/ Tick => UNCHANGED res
    BY DEF HoldNext, CreateHold, ReleaseHold, ExpireHold, EndHold, StaffNext,
           DecideStatusChange, DecideOverride, DecideImport, DecideDealWon, Decide,
           MakeWrite, Tick, rows
  <2>8. QED
    BY <1>2, <1>3, <2>1, <2>2, <2>4, <2>5, <2>6, <2>7 DEF Next, ReservationNext
<1>4. TypeOK /\ [Next]_vars => [A]_vars
  BY <1>3
<1>5. QED
  BY <1>4, TypeCorrect, PTL DEF Spec, EndedStaysEnded

(* In the flow an active hold keeps everyone else from reserving its unit. *)
THEOREM FlowHoldProtects ==
  ASSUME Disciplined
  PROVE  Spec => HoldProtects
<1> DEFINE A == \A r \in Reservations : res[r].status = "none" /\ res'[r].status # "none" =>
                  \A h \in ActiveHolds(res'[r].unit) :
                    HoldBelongsTo(h, res'[r].by, res'[r].lead)
<1>1. ASSUME TypeOK, FlowInv, NEW r \in Reservations, NEW a \in Agents,
             NEW l \in Leads \cup {None}, NEW u \in Units, NEW d \in Durations,
             CreateReservation(r, a, l, u, d)
      PROVE  A
  <2>1. res' = [res EXCEPT ![r] = Row("pending", u, a, l, now + d)]
    BY <1>1 DEF CreateReservation
  <2>2. res'[r].unit = u /\ res'[r].by = a /\ res'[r].lead = l
    BY <1>1, <2>1 DEF TypeOK, Row
  <2>3. \A k \in Reservations : k # r => res'[k] = res[k]
    BY <1>1, <2>1 DEF TypeOK
  <2>4. ASSUME NEW h \in ActiveHolds(u) PROVE HoldBelongsTo(h, a, l)
    <3>1. h \in Holds /\ hold[h].status = "active" /\ hold[h].unit = u
      BY DEF ActiveHolds
    <3>2. stock[u] = "on_hold"
      BY <1>1, <3>1 DEF CreateReservation, Reservable, FlowInv, HoldMatchesStock
    <3>3. PICK k \in ActiveHolds(u) : HoldBelongsTo(k, a, l)
      BY <1>1, <3>2 DEF CreateReservation, ConvertHold
    <3>4. k = h
      BY <1>1, <3>1, <3>3 DEF ActiveHolds, FlowInv, OneActiveHold
    <3>5. QED
      BY <3>3, <3>4
  <2>5. QED
    BY <2>2, <2>3, <2>4
<1>2. ASSUME TypeOK, Next, ~\E r \in Reservations, a \in Agents, l \in Leads \cup {None},
                               u \in Units, d \in Durations : CreateReservation(r, a, l, u, d)
      PROVE  A
  <2>1. \A r \in Reservations : res'[r].status # "none" => res[r].status # "none"
    <3>1. ASSUME NEW r \in Reservations, NEW d \in Durations, ExtendReservation(r, d)
          PROVE  \A k \in Reservations : res'[k].status # "none" => res[k].status # "none"
      BY <1>2, <3>1 DEF ExtendReservation, StillLive, Live, TypeOK, ReservationRow
    <3>2. ASSUME NEW r \in Reservations, NEW releaseUnit \in BOOLEAN,
                 CancelReservation(r, releaseUnit)
          PROVE  \A k \in Reservations : res'[k].status # "none" => res[k].status # "none"
      BY <1>2, <3>2 DEF CancelReservation, ReservationStatus, Live, TypeOK, ReservationRow
    <3>3. ASSUME NEW j \in jobs, NEW again \in BOOLEAN, ExpireReservation(j, again)
          PROVE  \A k \in Reservations : res'[k].status # "none" => res[k].status # "none"
      BY <1>2, <3>3 DEF ExpireReservation, StillLive, Live, TypeOK, ReservationRow, rows
    <3>4. ASSUME NEW r \in Reservations, CreateBooking(r)
          PROVE  \A k \in Reservations : res'[k].status # "none" => res[k].status # "none"
      BY <1>2, <3>4 DEF CreateBooking, StillLive, Live, TypeOK, ReservationRow
    <3>5. HoldNext \/ StaffNext \/ Tick => UNCHANGED res
      BY DEF HoldNext, CreateHold, ReleaseHold, ExpireHold, EndHold, StaffNext,
             DecideStatusChange, DecideOverride, DecideImport, DecideDealWon, Decide,
             MakeWrite, Tick, rows
    <3>6. QED
      BY <1>2, <3>1, <3>2, <3>3, <3>4, <3>5 DEF Next, ReservationNext
  <2>2. QED
    BY <2>1
<1>3. TypeOK /\ FlowInv /\ [Next]_vars => [A]_vars
  BY <1>1, <1>2
<1>4. QED
  BY <1>3, TypeCorrect, FlowInvariant, PTL DEF Spec, HoldProtects

-----------------------------------------------------------------------------
(* The reservation flow implements UnitClaims *)

LEMMA ChosenOf ==
  ASSUME NEW S, NEW r \in S, \A x \in S : x = r
  PROVE  SomeOrNone(S) = r
BY DEF SomeOrNone

LEMMA ClaimantFree == \A u \in Units : LiveReservations(u) = {} => Claimant(u) = None
BY DEF Claimant, SomeOrNone

LEMMA ClaimantLive ==
  ASSUME NoDoubleReservation, NEW r \in Reservations, res[r].status \in Live
  PROVE  Claimant(res[r].unit) = r
<1>1. r \in LiveReservations(res[r].unit) /\ \A x \in LiveReservations(res[r].unit) : x = r
  BY DEF LiveReservations, NoDoubleReservation
<1>2. QED
  BY <1>1, ChosenOf DEF Claimant

(* A step that neither starts nor ends a claim. *)
LEMMA SameClaims ==
  ASSUME \A r \in Reservations :
           /\ (res'[r].status \in Live) <=> (res[r].status \in Live)
           /\ (res'[r].status = "none") <=> (res[r].status = "none")
           /\ (res[r].status \in Live) => (res'[r].unit = res[r].unit)
  PROVE  UNCHANGED Claims!vars
<1>1. ASSUME NEW u \in Units PROVE LiveReservations(u)' = LiveReservations(u)
  <2>1. \A r \in Reservations : (r \in LiveReservations(u)') <=> (r \in LiveReservations(u))
    BY DEF LiveReservations, Live
  <2>2. QED
    BY <2>1 DEF LiveReservations
<1>2. \A u \in Units : Claimant(u)' = Claimant(u)
  BY <1>1 DEF Claimant
<1>3. {r \in Reservations : res[r].status # "none"}' = {r \in Reservations : res[r].status # "none"}
  OBVIOUS
<1>4. QED
  BY <1>2, <1>3 DEF Claims!vars

(* A reservation that ends gives up the unit it had. *)
LEMMA EndsClaim ==
  ASSUME TypeOK, NoDoubleReservation, NEW r \in Reservations, res[r].status \in Live,
         NEW status \in ReservationStatus \ Live, res' = [res EXCEPT ![r].status = status],
         NEW u \in Units, u = res[r].unit
  PROVE  Claims!GiveUp(u)
<1>1. res[r] \in ReservationRow
  BY DEF TypeOK
<1>2. /\ \A k \in Reservations : k # r => res'[k] = res[k]
      /\ res'[r].status = status /\ res'[r].unit = u
  BY <1>1 DEF TypeOK, ReservationRow
<1>3. Claimant(u) = r /\ r # None
  BY ClaimantLive, ConstantsAssumption
<1>4. LiveReservations(u)' = {}
  BY <1>2 DEF LiveReservations, NoDoubleReservation
<1>5. Claimant(u)' = None
  BY <1>4 DEF Claimant, SomeOrNone
<1>6. ASSUME NEW v \in Units, v # u PROVE Claimant(v)' = Claimant(v)
  <2>1. \A k \in Reservations : (k \in LiveReservations(v)') <=> (k \in LiveReservations(v))
    BY <1>2, <1>6 DEF LiveReservations, Live
  <2>2. LiveReservations(v)' = LiveReservations(v)
    BY <2>1 DEF LiveReservations
  <2>3. QED
    BY <2>2 DEF Claimant
<1>7. [v \in Units |-> Claimant(v)]' = [[v \in Units |-> Claimant(v)] EXCEPT ![u] = None]
  BY <1>5, <1>6
<1>8. {k \in Reservations : res[k].status # "none"}' = {k \in Reservations : res[k].status # "none"}
  BY <1>2 DEF ReservationStatus, Live
<1>9. QED
  BY <1>1, <1>3, <1>7, <1>8 DEF Claims!GiveUp

LEMMA StartsClaim ==
  ASSUME TypeOK, FlowInv, NEW r \in Reservations, NEW a \in Agents, NEW l \in Leads \cup {None},
         NEW u \in Units, NEW d \in Durations, CreateReservation(r, a, l, u, d)
  PROVE  Claims!Claim(u, r)
<1>1. /\ res' = [res EXCEPT ![r] = Row("pending", u, a, l, now + d)]
      /\ res[r].status = "none" /\ stock[u] \in {"available", "on_hold"}
  BY DEF CreateReservation, Reservable
<1>2. /\ \A k \in Reservations : k # r => res'[k] = res[k]
      /\ res'[r].status = "pending" /\ res'[r].unit = u
  BY <1>1 DEF TypeOK, Row
<1>3. LiveReservations(u) = {}
  BY <1>1 DEF LiveReservations, FlowInv, LiveMatchesStock
<1>4. Claimant(u) = None
  BY <1>3, ClaimantFree
<1>5. r \in LiveReservations(u)' /\ \A x \in LiveReservations(u)' : x = r
  BY <1>2, <1>3 DEF LiveReservations, Live
<1>6. Claimant(u)' = r
  BY <1>5, ChosenOf DEF Claimant
<1>7. ASSUME NEW v \in Units, v # u PROVE Claimant(v)' = Claimant(v)
  <2>1. LiveReservations(v)' = LiveReservations(v)
    BY <1>1, <1>2, <1>7 DEF LiveReservations, Live
  <2>2. QED
    BY <2>1 DEF Claimant
<1>8. [v \in Units |-> Claimant(v)]' = [[v \in Units |-> Claimant(v)] EXCEPT ![u] = r]
  BY <1>6, <1>7
<1>9. {k \in Reservations : res[k].status # "none"}' = {k \in Reservations : res[k].status # "none"} \cup {r}
  BY <1>2
<1>10. QED
  BY <1>1, <1>4, <1>8, <1>9 DEF Claims!Claim

LEMMA ClaimsStep ==
  ASSUME Disciplined, TypeOK, FlowInv, [Next]_vars
  PROVE  [Claims!Next]_(Claims!vars)
<1>1. UNCHANGED res => UNCHANGED Claims!vars
  BY SameClaims
<1>2. HoldNext \/ StaffNext \/ Tick \/ UNCHANGED vars => UNCHANGED res
  BY DEF HoldNext, CreateHold, ReleaseHold, ExpireHold, EndHold, StaffNext,
         DecideStatusChange, DecideOverride, DecideImport, DecideDealWon, Decide,
         MakeWrite, Tick, vars, rows
<1>3. ASSUME NEW r \in Reservations, NEW status \in ReservationStatus \ Live,
             res[r].status \in Live, res' = [res EXCEPT ![r].status = status]
      PROVE  Claims!Next
  <2>1. PICK u \in Units : u = res[r].unit
    BY <1>3 DEF TypeOK, Live
  <2>2. Claims!GiveUp(u)
    BY <1>3, <2>1, EndsClaim DEF FlowInv
  <2>3. QED
    BY <2>2 DEF Claims!Next
<1>4. ASSUME NEW r \in Reservations, NEW a \in Agents, NEW l \in Leads \cup {None},
             NEW u \in Units, NEW d \in Durations, CreateReservation(r, a, l, u, d)
      PROVE  Claims!Next
  BY <1>4, StartsClaim DEF Claims!Next
<1>5. ASSUME NEW r \in Reservations, NEW d \in Durations, ExtendReservation(r, d)
      PROVE  UNCHANGED Claims!vars
  <2>1. \A k \in Reservations :
          /\ (res'[k].status \in Live) <=> (res[k].status \in Live)
          /\ (res'[k].status = "none") <=> (res[k].status = "none")
          /\ (res[k].status \in Live) => (res'[k].unit = res[k].unit)
    BY <1>5 DEF ExtendReservation, StillLive, Live, TypeOK, ReservationRow
  <2>2. QED
    BY <2>1, SameClaims
<1>6. ASSUME NEW r \in Reservations, NEW releaseUnit \in BOOLEAN, CancelReservation(r, releaseUnit)
      PROVE  Claims!Next
  BY <1>3, <1>6 DEF CancelReservation, Disciplined, ReservationStatus, Live
<1>7. ASSUME NEW j \in jobs, NEW again \in BOOLEAN, ExpireReservation(j, again)
      PROVE  [Claims!Next]_(Claims!vars)
  <2>1. j.id \in Reservations
    BY <1>7 DEF ExpireReservation, TypeOK
  <2>2. CASE StillLive(j.id) /\ Due(res[j.id])
    BY <1>3, <1>7, <2>1, <2>2 DEF ExpireReservation, StillLive, ReservationStatus, Live
  <2>3. CASE ~(StillLive(j.id) /\ Due(res[j.id]))
    BY <1>1, <1>7, <2>3 DEF ExpireReservation, rows
  <2>4. QED
    BY <2>2, <2>3
<1>8. ASSUME NEW r \in Reservations, CreateBooking(r)
      PROVE  Claims!Next
  BY <1>3, <1>8 DEF CreateBooking, StillLive, ReservationStatus, Live
<1>9. QED
  BY <1>1, <1>2, <1>4, <1>5, <1>6, <1>7, <1>8 DEF Next, ReservationNext

(* Whatever the interleaving, the flow is a UnitClaims: a unit has one     *)
(* claimant at a time and no reservation claims twice.                     *)
THEOREM FlowImplementsClaims ==
  ASSUME Disciplined
  PROVE  Spec => ImplementsClaims
<1>1. Init => Claims!Init
  <2> SUFFICES ASSUME Init PROVE Claims!Init
    OBVIOUS
  <2>1. \A r \in Reservations : res[r].status = "none"
    BY DEF Init, NoRow
  <2>2. \A u \in Units : LiveReservations(u) = {}
    BY <2>1 DEF LiveReservations, Live
  <2>3. QED
    BY <2>1, <2>2, ClaimantFree DEF Claims!Init
<1>2. TypeOK /\ FlowInv /\ [Next]_vars => [Claims!Next]_(Claims!vars)
  BY ClaimsStep
<1>3. QED
  BY <1>1, <1>2, TypeCorrect, FlowInvariant, PTL DEF Spec, ImplementsClaims, Claims!Spec

=============================================================================
