------------------------- MODULE DeskRequests_proofs -------------------------
(***************************************************************************)
(* Proofs about DeskRequests, for every number of workers, every mix of    *)
(* requests and every set of rooms, guests, bookings, stays and day uses.  *)
(***************************************************************************)
EXTENDS DeskRequests, FrontDesk_proofs

(* The program counter of a worker tells which objects it holds.           *)
LEMMA Held ==
  ASSUME DeskTypeOK, NEW w \in Workers
  PROVE  /\ At(w, "resolve") => worker[w] \in Refresh
         /\ At(w, "store") => worker[w] \in Store
         /\ At(w, "validate") \/ At(w, "insert") => worker[w] \in Arrival
         /\ At(w, "depart") => worker[w] \in Departure
         /\ At(w, "save") => worker[w] \in Change
         /\ At(w, "close") => worker[w] \in Closing
  <1>1. worker[w] \in Request
    BY DEF DeskTypeOK
  <1> QED BY <1>1 DEF At, Request, Idle, Refresh, Store, Arrival, Departure, Change, Closing

LEMMA BecomesType ==
  ASSUME DeskTypeOK, NEW w \in Workers, NEW request \in Request, Becomes(w, request)
  PROVE  worker' \in [Workers -> Request]
  BY DEF DeskTypeOK, Becomes

LEMMA TakeType ==
  ASSUME DeskTypeOK, NEW w \in Workers, NEW kind, NEW request \in Request,
         Take(w, kind, request)
  PROVE  DeskTypeOK'
  <1>1. TypeOK'
    BY DEF DeskTypeOK, Take, vars, TypeOK
  <1>2. worker' \in [Workers -> Request]
    BY BecomesType DEF Take
  <1> QED BY <1>1, <1>2 DEF DeskTypeOK

LEMMA RefreshType ==
  ASSUME TypeOK, NEW r \in Rooms
  PROVE  RefreshOf(r) \in Request
  BY DEF RefreshOf, TypeOK, Request, Refresh

-----------------------------------------------------------------------------
(* The inductive invariant: the types; a stay that a worker is about to    *)
(* close has a row; a booking that a worker is about to save as checked_in *)
(* has a stay.                                                             *)

DepartingStayExists ==
  \A w \in Workers : At(w, "depart") => stay[worker[w].stay].status # "none"

SavedArrivalHasStay ==
  \A w \in Workers :
    At(w, "save") /\ worker[w].row.status = "checked_in" => HasStay(worker[w].booking)

-----------------------------------------------------------------------------
(* Type correctness *)

LEMMA TypeLoad ==
  ASSUME DeskTypeOK, NEW w \in Workers, Load(w)
  PROVE  DeskTypeOK'
  <1> USE DEF DeskTypeOK
  <1>1. ASSUME NEW r \in Rooms, LoadDashboard(w, r)
        PROVE  DeskTypeOK'
    BY <1>1, RefreshType, TakeType DEF LoadDashboard
  <1>2. ASSUME NEW r \in Rooms, CompleteTask(w, r)
        PROVE  DeskTypeOK'
    <2>1. openTasks' \in [Rooms -> 0..MaxOpen]
      BY <1>2, BoundsAssumption DEF CompleteTask, TypeOK
    <2>2. TypeOK'
      BY <1>2, <2>1 DEF CompleteTask, TypeOK
    <2>3. worker' \in [Workers -> Request]
      BY <1>2, RefreshType, BecomesType DEF CompleteTask
    <2> QED BY <2>2, <2>3
  <1>3. ASSUME NEW b \in Bookings, LoadCheckIn(w, b)
        PROVE  DeskTypeOK'
    <2> DEFINE q == [pc |-> "validate", booking |-> b, guest |-> booking[b].guest,
                     room |-> booking[b].room, shown |-> roomStatus[booking[b].room]]
    <2>1. q \in Request
      BY <1>3 DEF LoadCheckIn, TypeOK, BookingRow, Request, Arrival
    <2>2. Take(w, "check_in", q)
      BY <1>3 DEF LoadCheckIn
    <2> QED BY <2>1, <2>2, TakeType
  <1>4. ASSUME NEW g \in Guests, NEW r \in Rooms, LoadWalkIn(w, g, r)
        PROVE  DeskTypeOK'
    <2> DEFINE q == [pc |-> "validate", booking |-> None, guest |-> g,
                     room |-> r, shown |-> roomStatus[r]]
    <2>1. q \in Request
      BY DEF TypeOK, Request, Arrival
    <2>2. Take(w, "walk_in", q)
      BY <1>4 DEF LoadWalkIn
    <2> QED BY <2>1, <2>2, TakeType
  <1>5. ASSUME NEW s \in Stays, LoadCheckOut(w, s)
        PROVE  DeskTypeOK'
    <2> DEFINE q == [pc |-> "depart", stay |-> s, room |-> stay[s].room]
    <2>1. q \in Request
      BY <1>5, Rows DEF LoadCheckOut, SomeStay, Request, Departure
    <2>2. Take(w, "check_out", q)
      BY <1>5 DEF LoadCheckOut
    <2> QED BY <2>1, <2>2, TakeType
  <1>6. ASSUME NEW b \in Bookings, NEW kind, NEW from,
               NEW to \in {"confirmed", "cancelled", "no_show"},
               LoadStatusChange(w, b, kind, from, to)
        PROVE  DeskTypeOK'
    <2> DEFINE row == [booking[b] EXCEPT !.status = to]
    <2>1. row \in BookingRow
      BY DEF TypeOK, BookingRow, ActiveBooking, ClosedBooking
    <2> HIDE DEF row
    <2>2. Changed(b, row, FALSE) \in Request
      BY <2>1 DEF Changed, Request, Change
    <2>3. Take(w, kind, Changed(b, row, FALSE))
      BY <1>6 DEF LoadStatusChange, row
    <2> QED BY <2>2, <2>3, TakeType
  <1>7. ASSUME NEW b \in Bookings, NEW r \in Rooms \cup {None}, NEW from \in Days,
               NEW to \in Nights, LoadUpdate(w, b, r, from, to)
        PROVE  DeskTypeOK'
    <2> DEFINE row == [booking[b] EXCEPT !.room = r, !.from = from, !.to = to]
    <2>1. row \in BookingRow
      BY DEF TypeOK, BookingRow
    <2> HIDE DEF row
    <2>2. Changed(b, row, TRUE) \in Request
      BY <2>1 DEF Changed, Request, Change
    <2>3. Take(w, "update", Changed(b, row, TRUE))
      BY <1>7 DEF LoadUpdate, row
    <2> QED BY <2>2, <2>3, TakeType
  <1>8. ASSUME NEW d \in DayUses, LoadClosing(w, d)
        PROVE  DeskTypeOK'
    <2> DEFINE q == [pc |-> "close", dayUse |-> d]
    <2>1. q \in Request
      BY DEF Request, Closing
    <2>2. Take(w, "close_day_use", q)
      BY <1>8 DEF LoadClosing
    <2> QED BY <2>1, <2>2, TakeType
  <1> QED
    BY <1>1, <1>2, <1>3, <1>4, <1>5, <1>6, <1>7, <1>8
       DEF Load, LoadConfirm, LoadCancel, LoadNoShow

LEMMA TypeContinue ==
  ASSUME DeskTypeOK, DepartingStayExists, NEW w \in Workers, Continue(w)
  PROVE  DeskTypeOK'
  <1> DEFINE q == worker[w]
  <1> USE DEF DeskTypeOK
  <1>0. Idle \in Request
    BY DEF Request
  <1>1. CASE Resolve(w)
    <2>1. q \in Refresh
      BY <1>1, Held DEF Resolve
    <2>2. [pc |-> "store", room |-> q.room, target |-> Resolved(q.room)] \in Request
      BY <2>1 DEF Refresh, Request, Store, Resolved, RoomStatus
    <2>3. worker' \in [Workers -> Request]
      BY <1>1, <1>0, <2>2, BecomesType DEF Resolve
    <2> QED BY <1>1, <2>3 DEF Resolve, vars, TypeOK
  <1>2. CASE StoreStatus(w)
    <2>1. q \in Store
      BY <1>2, Held DEF StoreStatus
    <2>2. roomStatus' \in [Rooms -> RoomStatus]
      BY <1>2, <2>1 DEF StoreStatus, Store, TypeOK
    <2>3. worker' \in [Workers -> Request]
      BY <1>2, <1>0, BecomesType DEF StoreStatus
    <2> QED BY <1>2, <2>2, <2>3 DEF StoreStatus, tables, TypeOK
  <1>3. CASE ValidateArrival(w)
    <2>1. q \in Arrival
      BY <1>3, Held DEF ValidateArrival
    <2>2. [q EXCEPT !.pc = "insert"] \in Request
      BY <2>1 DEF Arrival, Request
    <2>3. worker' \in [Workers -> Request]
      BY <1>3, <1>0, <2>2, BecomesType DEF ValidateArrival
    <2> QED BY <1>3, <2>3 DEF ValidateArrival, vars, TypeOK
  <1>4. ASSUME NEW s \in Stays, InsertStay(w, s)
        PROVE  DeskTypeOK'
    <2>1. q \in Arrival
      BY <1>4, Held DEF InsertStay
    <2>2. stay' \in [Stays -> StayRow]
      BY <1>4, <2>1 DEF InsertStay, Arrival, TypeOK, StayRow, SomeStay
    <2>3. booking' \in [Bookings -> BookingRow]
      <3>1. CASE q.booking = None
        BY <1>4, <3>1 DEF InsertStay, TypeOK
      <3>2. CASE q.booking \in Bookings
        <4>1. ArrivalBooking(q) \in BookingRow
          <5>1. booking[q.booking] \in BookingRow
            BY <3>2 DEF TypeOK
          <5>2. q.room \in Rooms
            BY <2>1 DEF Arrival
          <5> QED BY <5>1, <5>2 DEF ArrivalBooking, BookingRow, ActiveBooking
        <4>2. booking' = [booking EXCEPT ![q.booking] = ArrivalBooking(q)]
          BY <1>4, <3>2, NoneAssumption DEF InsertStay
        <4> QED BY <4>1, <4>2 DEF TypeOK
      <3> QED BY <2>1, <3>1, <3>2 DEF Arrival
    <2>4. roomStatus' \in [Rooms -> RoomStatus]
      BY <1>4 DEF InsertStay, TypeOK, RoomStatus
    <2>5. worker' \in [Workers -> Request]
      BY <1>4, <1>0, BecomesType DEF InsertStay
    <2> QED BY <1>4, <2>2, <2>3, <2>4, <2>5 DEF InsertStay, TypeOK
  <1>5. CASE AbortArrival(w) \/ RefuseDeparture(w) \/ RefuseChange(w)
    <2>1. worker' \in [Workers -> Request]
      BY <1>5, <1>0, BecomesType DEF AbortArrival, RefuseDeparture, RefuseChange
    <2> QED BY <1>5, <2>1 DEF AbortArrival, RefuseDeparture, RefuseChange, vars, TypeOK
  <1>6. CASE Depart(w)
    <2>1. q \in Departure
      BY <1>6, Held DEF Depart
    <2>2. Vacate(q.room, ~Dirty(q.room), {})
      BY <1>6 DEF Depart
    <2>3. /\ roomStatus' \in [Rooms -> RoomStatus]
          /\ openTasks' \in [Rooms -> 0..MaxOpen]
      BY <2>2, CleanVacate
    <2>4. stay' \in [Stays -> StayRow]
      <3>1. stay' = [stay EXCEPT ![q.stay].status = "completed"]
        BY <1>6 DEF Depart
      <3>2. stay[q.stay] \in SomeStay
        BY <1>6, <2>1, Rows DEF Depart, Departure, DepartingStayExists
      <3> QED BY <3>1, <3>2 DEF TypeOK, StayRow, SomeStay
    <2>5. worker' \in [Workers -> Request]
      BY <1>6, <1>0, BecomesType DEF Depart
    <2> QED BY <1>6, <2>3, <2>4, <2>5 DEF Depart, TypeOK
  <1>7. CASE SaveChange(w)
    <2>1. q \in Change
      BY <1>7, Held DEF SaveChange
    <2>2. Written(q) \in BookingRow
      BY <2>1 DEF Written, Change, TypeOK, BookingRow
    <2>3. booking' \in [Bookings -> BookingRow]
      BY <1>7, <2>2 DEF SaveChange, TypeOK
    <2>4. q.row.room # None => q.row.room \in Rooms
      BY <2>1 DEF Change, BookingRow
    <2>5. worker' \in [Workers -> Request]
      BY <1>7, <1>0, <2>4, RefreshType, BecomesType DEF SaveChange
    <2> QED BY <1>7, <2>3, <2>5 DEF SaveChange, TypeOK
  <1>8. CASE CloseLoaded(w)
    <2>1. q \in Closing
      BY <1>8, Held DEF CloseLoaded
    <2> DEFINE d == q.dayUse
    <2>2. dayUse[d] \in SomeDayUse
      BY <1>8, <2>1, Rows DEF CloseLoaded, Closing, MoveDayUse
    <2>3. dayUse' \in [DayUses -> DayUseRow]
      BY <1>8, <2>1, <2>2 DEF CloseLoaded, MoveDayUse, SaveDayUse, SomeDayUse, DayUseRow, TypeOK
    <2>4. roomStatus' \in [Rooms -> RoomStatus]
      BY <1>8, SyncType DEF CloseLoaded, MoveDayUse
    <2>5. worker' \in [Workers -> Request]
      BY <1>8, <1>0, BecomesType DEF CloseLoaded
    <2> QED BY <1>8, <2>3, <2>4, <2>5 DEF CloseLoaded, MoveDayUse, TypeOK
  <1> QED
    BY <1>1, <1>2, <1>3, <1>4, <1>5, <1>6, <1>7, <1>8 DEF Continue

(* A locked transaction is a step of FrontDesk. *)
LEMMA TypeTransaction ==
  ASSUME TypeOK, Transaction
  PROVE  TypeOK'
  <1>1. BookingNext \/ StayNext \/ DayUseNext
    BY DEF Transaction, BookingNext, StayNext, DayUseNext
  <1> QED BY <1>1, TypeBooking, TypeStay, TypeDayUse

LEMMA DeskTypeStep ==
  ASSUME DeskTypeOK, DepartingStayExists, [DeskNext]_deskVars
  PROVE  DeskTypeOK'
  <1>1. CASE \E w \in Workers : Load(w) \/ Continue(w)
    BY <1>1, TypeLoad, TypeContinue
  <1>2. CASE Transaction /\ UNCHANGED worker
    BY <1>2, TypeTransaction DEF DeskTypeOK
  <1>3. CASE NextDay /\ UNCHANGED worker
    BY <1>3, TypeStep DEF DeskTypeOK, Next
  <1>4. CASE UNCHANGED deskVars
    BY <1>4 DEF deskVars, DeskTypeOK, TypeOK
  <1> QED BY <1>1, <1>2, <1>3, <1>4 DEF DeskNext

-----------------------------------------------------------------------------
(* What a step leaves alone *)

(* A stay keeps its row and its booking for ever. *)
StaysKept ==
  \A s \in Stays : stay[s].status # "none" =>
                     stay'[s].status # "none" /\ stay'[s].booking = stay[s].booking

LEMMA StayRowKept ==
  ASSUME TypeOK, NEW s \in Stays, NEW row, stay' = [stay EXCEPT ![s] = row],
         stay[s].status # "none" => row.status # "none" /\ row.booking = stay[s].booking
  PROVE  StaysKept
  BY DEF StaysKept, TypeOK

LEMMA StaysKeptStep ==
  ASSUME DeskTypeOK, DepartingStayExists, [DeskNext]_deskVars
  PROVE  StaysKept
  <1> USE DEF DeskTypeOK
  <1>1. CASE UNCHANGED stay
    BY <1>1 DEF StaysKept
  <1>2. ASSUME NEW w \in Workers, NEW s \in Stays, InsertStay(w, s)
        PROVE  StaysKept
    BY <1>2, StayRowKept DEF InsertStay
  <1>3. ASSUME NEW w \in Workers, Depart(w)
        PROVE  StaysKept
    <2> DEFINE s == worker[w].stay
    <2>1. s \in Stays
      BY <1>3, Held DEF Depart, Departure
    <2>2. stay[s] \in SomeStay
      BY <1>3, <2>1, Rows DEF Depart, DepartingStayExists
    <2> DEFINE row == [stay[s] EXCEPT !.status = "completed"]
    <2>3. stay' = [stay EXCEPT ![s] = row]
      BY <1>3 DEF Depart
    <2>4. row.status = "completed" /\ row.booking = stay[s].booking
      BY <2>2 DEF SomeStay
    <2> HIDE DEF s, row
    <2> QED BY <2>1, <2>3, <2>4, StayRowKept
  <1>4. ASSUME NEW s \in Stays, NEW r \in Rooms, RelocateStay(s, r)
        PROVE  StaysKept
    <2>1. stay[s] \in SomeStay
      BY <1>4, Rows DEF RelocateStay
    <2> DEFINE row == [stay[s] EXCEPT !.room = r]
    <2>2. stay' = [stay EXCEPT ![s] = row]
      BY <1>4 DEF RelocateStay
    <2>3. row.status = stay[s].status /\ row.booking = stay[s].booking
      BY <2>1 DEF SomeStay
    <2> HIDE DEF row
    <2> QED BY <2>2, <2>3, StayRowKept
  <1>5. ASSUME NEW w \in Workers, Load(w)
        PROVE  UNCHANGED stay
    BY <1>5 DEF Load, LoadDashboard, CompleteTask, LoadCheckIn, LoadConfirm, LoadCancel,
       LoadNoShow, LoadStatusChange, LoadUpdate, LoadWalkIn, LoadCheckOut, LoadClosing,
       Take, vars
  <1>6. ASSUME NEW w \in Workers, Continue(w)
        PROVE  StaysKept
    <2>1. CASE \/ Resolve(w) \/ StoreStatus(w) \/ ValidateArrival(w) \/ AbortArrival(w)
               \/ RefuseDeparture(w) \/ SaveChange(w) \/ RefuseChange(w) \/ CloseLoaded(w)
      BY <2>1, <1>1 DEF Resolve, StoreStatus, ValidateArrival, AbortArrival,
         RefuseDeparture, SaveChange, RefuseChange, CloseLoaded, MoveDayUse, vars, tables
    <2> QED BY <1>2, <1>3, <1>6, <2>1 DEF Continue
  <1>7. CASE Transaction
    <2>1. UNCHANGED stay \/ \E s \in Stays, r \in Rooms : RelocateStay(s, r)
      BY <1>7 DEF Transaction, CreateBooking, RelocateBooking, CreateDayUse, DayUseCheckIn,
         MoveDayUse, DayUseCheckOut, ConvertToNight
    <2> QED BY <1>1, <1>4, <2>1
  <1> QED
    BY <1>1, <1>5, <1>6, <1>7 DEF DeskNext, NextDay, deskVars

(* One worker moves at a time.  It starts a check-out with a stay in       *)
(* progress, and a save that writes checked_in with a booking that had     *)
(* that status.                                                            *)
LEMMA WorkerStep ==
  ASSUME DeskTypeOK, NEW w \in Workers, Load(w) \/ Continue(w)
  PROVE  /\ \A v \in Workers \ {w} : worker'[v] = worker[v]
         /\ worker'[w].pc = "depart" => stay[worker'[w].stay].status # "none"
         /\ worker'[w].pc = "save" /\ worker'[w].row.status = "checked_in" =>
              /\ worker'[w].booking \in Bookings
              /\ booking[worker'[w].booking].status = "checked_in"
  <1> DEFINE Good(q) ==
        /\ q.pc = "depart" => stay[q.stay].status # "none"
        /\ q.pc = "save" /\ q.row.status = "checked_in" =>
             q.booking \in Bookings /\ booking[q.booking].status = "checked_in"
  <1> SUFFICES \E request : Good(request) /\ Becomes(w, request)
    BY DEF Becomes, DeskTypeOK
  <1>1. Good(Idle)
    BY DEF Idle
  <1>2. \A r : Good(RefreshOf(r))
    BY DEF RefreshOf
  <1>3. ASSUME NEW b \in Bookings, NEW kind, NEW from,
               NEW to \in {"confirmed", "cancelled", "no_show"},
               LoadStatusChange(w, b, kind, from, to)
        PROVE  \E request : Good(request) /\ Becomes(w, request)
    <2> DEFINE row == [booking[b] EXCEPT !.status = to]
    <2>1. row.status = to
      BY DEF DeskTypeOK, TypeOK, BookingRow
    <2> HIDE DEF row
    <2>2. Good(Changed(b, row, FALSE))
      BY <2>1 DEF Changed
    <2>3. Becomes(w, Changed(b, row, FALSE))
      BY <1>3 DEF LoadStatusChange, Take, row
    <2> QED BY <2>2, <2>3
  <1>4. ASSUME NEW b \in Bookings, NEW r \in Rooms \cup {None}, NEW from \in Days,
               NEW to \in Nights, LoadUpdate(w, b, r, from, to)
        PROVE  \E request : Good(request) /\ Becomes(w, request)
    <2> DEFINE row == [booking[b] EXCEPT !.room = r, !.from = from, !.to = to]
    <2>1. row.status = booking[b].status
      BY DEF DeskTypeOK, TypeOK, BookingRow
    <2> HIDE DEF row
    <2>2. Good(Changed(b, row, TRUE))
      BY <2>1 DEF Changed
    <2>3. Becomes(w, Changed(b, row, TRUE))
      BY <1>4 DEF LoadUpdate, Take, row
    <2> QED BY <2>2, <2>3
  <1>5. ASSUME NEW s \in Stays, LoadCheckOut(w, s)
        PROVE  \E request : Good(request) /\ Becomes(w, request)
    <2> DEFINE request == [pc |-> "depart", stay |-> s, room |-> stay[s].room]
    <2>1. Good(request) /\ Becomes(w, request)
      BY <1>5 DEF LoadCheckOut, Take
    <2> QED BY <2>1
  <1>6. ASSUME NEW b \in Bookings, LoadCheckIn(w, b)
        PROVE  \E request : Good(request) /\ Becomes(w, request)
    <2> DEFINE request == [pc |-> "validate", booking |-> b, guest |-> booking[b].guest,
                     room |-> booking[b].room, shown |-> roomStatus[booking[b].room]]
    <2>1. Good(request) /\ Becomes(w, request)
      BY <1>6 DEF LoadCheckIn, Take
    <2> QED BY <2>1
  <1>7. ASSUME NEW g \in Guests, NEW r \in Rooms, LoadWalkIn(w, g, r)
        PROVE  \E request : Good(request) /\ Becomes(w, request)
    <2> DEFINE request == [pc |-> "validate", booking |-> None, guest |-> g,
                           room |-> r, shown |-> roomStatus[r]]
    <2>1. Good(request) /\ Becomes(w, request)
      BY <1>7 DEF LoadWalkIn, Take
    <2> QED BY <2>1
  <1>8. ASSUME NEW d \in DayUses, LoadClosing(w, d)
        PROVE  \E request : Good(request) /\ Becomes(w, request)
    <2> DEFINE request == [pc |-> "close", dayUse |-> d]
    <2>1. Good(request) /\ Becomes(w, request)
      BY <1>8 DEF LoadClosing, Take
    <2> QED BY <2>1
  <1>9. CASE Load(w)
    <2>1. ASSUME NEW r \in Rooms, LoadDashboard(w, r) \/ CompleteTask(w, r)
          PROVE  \E request : Good(request) /\ Becomes(w, request)
      BY <1>2, <2>1 DEF LoadDashboard, CompleteTask, Take
    <2> QED BY <1>9, <2>1, <1>3, <1>4, <1>5, <1>6, <1>7, <1>8
            DEF Load, LoadConfirm, LoadCancel, LoadNoShow
  <1>10. CASE Continue(w)
    <2>1. CASE Resolve(w)
      <3> DEFINE request == [pc |-> "store", room |-> worker[w].room,
                             target |-> Resolved(worker[w].room)]
      <3>1. Good(request)
        OBVIOUS
      <3>2. Becomes(w, Idle) \/ Becomes(w, request)
        BY <2>1 DEF Resolve
      <3> HIDE DEF request
      <3> QED BY <3>1, <3>2, <1>1
    <2>2. CASE ValidateArrival(w)
      <3> DEFINE request == [worker[w] EXCEPT !.pc = "insert"]
      <3>1. Good(request)
        <4>1. worker[w] \in Arrival
          BY <2>2, Held DEF ValidateArrival
        <4>2. request.pc = "insert"
          BY <4>1 DEF Arrival
        <4> QED BY <4>2
      <3>2. Becomes(w, Idle) \/ Becomes(w, request)
        BY <2>2 DEF ValidateArrival
      <3> HIDE DEF request
      <3> QED BY <3>1, <3>2, <1>1
    <2>3. CASE SaveChange(w)
      BY <2>3, <1>1, <1>2 DEF SaveChange
    <2>4. CASE \/ StoreStatus(w) \/ AbortArrival(w) \/ Depart(w) \/ RefuseDeparture(w)
               \/ RefuseChange(w) \/ CloseLoaded(w) \/ \E s \in Stays : InsertStay(w, s)
      BY <2>4, <1>1 DEF StoreStatus, AbortArrival, Depart, RefuseDeparture, RefuseChange,
         CloseLoaded, InsertStay
    <2> QED BY <1>10, <2>1, <2>2, <2>3, <2>4 DEF Continue
  <1> QED BY <1>9, <1>10

LEMMA DepartingStep ==
  ASSUME DeskTypeOK, DepartingStayExists, [DeskNext]_deskVars
  PROVE  DepartingStayExists'
  <1>1. StaysKept
    BY StaysKeptStep
  <1>2. DeskTypeOK'
    BY DeskTypeStep
  <1> SUFFICES ASSUME NEW v \in Workers, worker'[v].pc = "depart"
               PROVE  stay'[worker'[v].stay].status # "none"
    BY DEF DepartingStayExists, At
  <1>3. worker'[v].stay \in Stays
    <2>1. worker'[v] \in Request
      BY <1>2 DEF DeskTypeOK
    <2> QED BY <2>1 DEF Request, Idle, Refresh, Store, Arrival, Departure, Change, Closing
  <1>4. stay[worker'[v].stay].status # "none"
    <2>1. CASE UNCHANGED worker
      BY <2>1 DEF DepartingStayExists, At
    <2>2. CASE \E w \in Workers : Load(w) \/ Continue(w)
      BY <2>2, WorkerStep DEF DepartingStayExists, At
    <2> QED BY <2>1, <2>2 DEF DeskNext, deskVars
  <1> QED BY <1>1, <1>3, <1>4 DEF StaysKept

LEMMA DeskTypeInvariant == DeskSpec => [](DeskTypeOK /\ DepartingStayExists)
  <1>1. DeskInit => DeskTypeOK /\ DepartingStayExists
    <2> SUFFICES ASSUME DeskInit PROVE DeskTypeOK /\ DepartingStayExists
      OBVIOUS
    <2>1. TypeOK
      BY BoundsAssumption DEF DeskInit, Init, TypeOK, BookingRow, ActiveBooking,
         ClosedBooking, StayRow, DayUseRow, RoomStatus, Days, Nights, NoBooking
    <2> QED BY <2>1 DEF DeskInit, DeskTypeOK, DepartingStayExists, At, Request, Idle
  <1>2. DeskTypeOK /\ DepartingStayExists /\ [DeskNext]_deskVars
          => (DeskTypeOK /\ DepartingStayExists)'
    BY DeskTypeStep, DepartingStep
  <1> QED BY <1>1, <1>2, PTL DEF DeskSpec

(* The tables, the cached status and the objects in memory keep their      *)
(* types: in particular no counter of open tasks goes below zero.          *)
THEOREM DeskTypeCorrect == DeskSpec => []DeskTypeOK
  BY DeskTypeInvariant, PTL

-----------------------------------------------------------------------------
(* No night is sold twice *)

LEMMA DeskOverlapStep ==
  ASSUME DeskTypeOK, DepartingStayExists, NoOverlappingBookings, [DeskNext]_deskVars
  PROVE  NoOverlappingBookings'
  <1> USE DEF DeskTypeOK
  <1>1. ASSUME NEW w \in Workers, NEW s \in Stays, InsertStay(w, s)
        PROVE  NoOverlappingBookings'
    <2> DEFINE q == worker[w]
               b == q.booking
               row == ArrivalBooking(q)
    <2>1. q \in Arrival
      BY <1>1, Held DEF InsertStay
    <2>2. CASE b = None
      <3>1. booking' = IF b = None THEN booking ELSE [booking EXCEPT ![b] = row]
        BY <1>1 DEF InsertStay
      <3> QED BY <2>2, <3>1, OverlapFrame
    <2>3. CASE b \in Bookings
      <3>1. /\ row \in BookingRow
            /\ row.room = q.room /\ row.from = booking[b].from /\ row.to = booking[b].to
        <4>1. booking[b] \in BookingRow /\ q.room \in Rooms
          BY <2>1, <2>3 DEF Arrival, TypeOK
        <4>2. row = [booking[b] EXCEPT !.status = "checked_in", !.room = q.room]
          BY DEF ArrivalBooking
        <4> HIDE DEF q, b, row
        <4> QED BY <4>1, <4>2 DEF BookingRow, ActiveBooking
      <3>2. FreeRow(b, row)
        BY <1>1, <2>3, <3>1, NoneAssumption DEF InsertStay, Insertable, FreeRow
      <3>3. booking' = [booking EXCEPT ![b] = row]
        BY <1>1, <2>3, NoneAssumption DEF InsertStay
      <3> HIDE DEF q, b, row
      <3> QED BY <2>3, <3>1, <3>2, <3>3, OverlapRow
    <2> QED BY <2>1, <2>2, <2>3 DEF Arrival
  (* The exclusion constraint looks at the row that is written. *)
  <1>2. ASSUME NEW w \in Workers, SaveChange(w)
        PROVE  NoOverlappingBookings'
    <2> DEFINE q == worker[w]
               b == q.booking
               row == Written(q)
    <2>1. q \in Change
      BY <1>2, Held DEF SaveChange
    <2>2. b \in Bookings /\ row \in BookingRow
      BY <2>1 DEF Written, Change, TypeOK, BookingRow
    <2>3. FreeRow(b, row)
      BY <1>2 DEF SaveChange, SavableRow, FreeRow
    <2>4. booking' = [booking EXCEPT ![b] = row]
      BY <1>2 DEF SaveChange
    <2> HIDE DEF q, b, row
    <2> QED BY <2>2, <2>3, <2>4, OverlapRow
  <1>3. ASSUME NEW w \in Workers, Continue(w)
        PROVE  NoOverlappingBookings'
    <2>1. CASE \/ Resolve(w) \/ StoreStatus(w) \/ ValidateArrival(w) \/ AbortArrival(w)
               \/ Depart(w) \/ RefuseDeparture(w) \/ RefuseChange(w) \/ CloseLoaded(w)
      BY <2>1, OverlapFrame DEF Resolve, StoreStatus, ValidateArrival, AbortArrival, Depart,
         RefuseDeparture, RefuseChange, CloseLoaded, MoveDayUse, vars, tables
    <2> QED BY <1>1, <1>2, <1>3, <2>1 DEF Continue
  <1>4. ASSUME NEW w \in Workers, Load(w)
        PROVE  NoOverlappingBookings'
    <2>1. UNCHANGED booking
      BY <1>4 DEF Load, LoadDashboard, CompleteTask, LoadCheckIn, LoadConfirm, LoadCancel,
         LoadNoShow, LoadStatusChange, LoadUpdate, LoadWalkIn, LoadCheckOut, LoadClosing,
         Take, vars
    <2> QED BY <2>1, OverlapFrame
  <1>5. CASE Transaction
    <2>1. BookingNext \/ StayNext \/ DayUseNext
      BY <1>5 DEF Transaction, BookingNext, StayNext, DayUseNext
    <2> QED BY <2>1, BookingRewrites, StayRewrites, DayUseRewrites, OverlapStep
  <1>6. CASE NextDay \/ UNCHANGED deskVars
    BY <1>6, OverlapFrame DEF NextDay, deskVars
  <1> QED BY <1>3, <1>4, <1>5, <1>6 DEF DeskNext

(* However requests interleave, and although stale objects are saved over  *)
(* newer rows, two active bookings of one room never share a night.        *)
THEOREM DeskNoDoubleBooking == DeskSpec => []NoOverlappingBookings
  <1>1. DeskInit => NoOverlappingBookings
    BY DEF DeskInit, Init, NoOverlappingBookings, NoBooking, ActiveBooking
  <1>2. DeskTypeOK /\ DepartingStayExists /\ NoOverlappingBookings /\ [DeskNext]_deskVars
          => NoOverlappingBookings'
    BY DeskOverlapStep
  <1> QED BY <1>1, <1>2, DeskTypeInvariant, PTL DEF DeskSpec

-----------------------------------------------------------------------------
(* One stay for a booking that is checked in *)

(* HasStay in the next state, of a booking named in this one. *)
GetsStay(b) == \E s \in Stays : stay'[s].status # "none" /\ stay'[s].booking = b

LEMMA HasStayKept ==
  ASSUME StaysKept
  PROVE  \A b : HasStay(b) => GetsStay(b)
  BY DEF StaysKept, HasStay, GetsStay

(* A booking reads checked_in after a step because it did before, or       *)
(* because the step gave it a stay, or because a worker saved an object    *)
(* that said so, and then it has a stay.                                   *)
LEMMA ArrivalsHaveStays ==
  ASSUME DeskTypeOK, DepartingStayExists, SavedArrivalHasStay, [DeskNext]_deskVars,
         NEW b \in Bookings, booking'[b].status = "checked_in"
  PROVE  booking[b].status = "checked_in" \/ GetsStay(b)
  <1> USE DEF DeskTypeOK
  <1>0. StaysKept
    BY StaysKeptStep
  <1>1. CASE UNCHANGED booking
    BY <1>1
  (* A step that rewrites the row of c. *)
  <1>2. ASSUME NEW c \in Bookings, NEW row, booking' = [booking EXCEPT ![c] = row],
               row.status = "checked_in" => booking[c].status = "checked_in" \/ GetsStay(c)
        PROVE  booking[b].status = "checked_in" \/ GetsStay(b)
    BY <1>2 DEF TypeOK
  <1>3. ASSUME NEW w \in Workers, NEW s \in Stays, InsertStay(w, s)
        PROVE  booking[b].status = "checked_in" \/ GetsStay(b)
    <2> DEFINE q == worker[w]
    <2>1. q \in Arrival
      BY <1>3, Held DEF InsertStay
    <2>2. CASE q.booking = None
      BY <1>1, <1>3, <2>2 DEF InsertStay
    <2>3. CASE q.booking \in Bookings
      <3>1. stay'[s].status = "in_progress" /\ stay'[s].booking = q.booking
        BY <1>3 DEF InsertStay, TypeOK
      <3>2. GetsStay(q.booking)
        BY <3>1 DEF GetsStay
      <3>3. booking' = [booking EXCEPT ![q.booking] = ArrivalBooking(q)]
        BY <1>3, <2>3, NoneAssumption DEF InsertStay
      <3> QED BY <1>2, <2>3, <3>2, <3>3
    <2> QED BY <2>1, <2>2, <2>3 DEF Arrival
  <1>4. ASSUME NEW w \in Workers, SaveChange(w)
        PROVE  booking[b].status = "checked_in" \/ GetsStay(b)
    <2> DEFINE q == worker[w]
    <2>1. q \in Change
      BY <1>4, Held DEF SaveChange
    <2>2. Written(q).status = q.row.status
      BY <2>1 DEF Written, Change, TypeOK, BookingRow
    <2>3. q.row.status = "checked_in" => GetsStay(q.booking)
      <3>1. q.row.status = "checked_in" => HasStay(q.booking)
        BY <1>4 DEF SaveChange, SavedArrivalHasStay
      <3> QED BY <1>0, <3>1, HasStayKept
    <2>4. q.booking \in Bookings /\ booking' = [booking EXCEPT ![q.booking] = Written(q)]
      BY <1>4, <2>1 DEF SaveChange, Change
    <2> QED BY <1>2, <2>2, <2>3, <2>4
  <1>5. ASSUME NEW w \in Workers, Load(w) \/ Continue(w)
        PROVE  booking[b].status = "checked_in" \/ GetsStay(b)
    <2>1. CASE Load(w)
      BY <1>1, <2>1 DEF Load, LoadDashboard, CompleteTask, LoadCheckIn, LoadConfirm, LoadCancel,
         LoadNoShow, LoadStatusChange, LoadUpdate, LoadWalkIn, LoadCheckOut, LoadClosing,
         Take, vars
    <2>2. CASE \/ Resolve(w) \/ StoreStatus(w) \/ ValidateArrival(w) \/ AbortArrival(w)
               \/ Depart(w) \/ RefuseDeparture(w) \/ RefuseChange(w) \/ CloseLoaded(w)
      BY <1>1, <2>2 DEF Resolve, StoreStatus, ValidateArrival, AbortArrival, Depart,
         RefuseDeparture, RefuseChange, CloseLoaded, MoveDayUse, vars, tables
    <2> QED BY <1>3, <1>4, <1>5, <2>1, <2>2 DEF Continue
  <1>6. CASE Transaction
    <2>1. ASSUME NEW c \in Bookings, NEW r \in Rooms,
                 booking' = [booking EXCEPT ![c] = [booking[c] EXCEPT !.room = r]]
          PROVE  booking[b].status = "checked_in" \/ GetsStay(b)
      <3>1. [booking[c] EXCEPT !.room = r].status = booking[c].status
        BY DEF TypeOK, BookingRow
      <3> QED BY <1>2, <2>1, <3>1
    <2>2. ASSUME NEW c \in Bookings, NEW r \in Rooms, RelocateBooking(c, r)
          PROVE  booking[b].status = "checked_in" \/ GetsStay(b)
      BY <2>1, <2>2 DEF RelocateBooking
    <2>3. ASSUME NEW s \in Stays, NEW r \in Rooms, RelocateStay(s, r)
          PROVE  booking[b].status = "checked_in" \/ GetsStay(b)
      <3>1. stay[s] \in SomeStay
        BY <2>3, Rows DEF RelocateStay
      <3>2. CASE stay[s].booking = None
        BY <1>1, <2>3, <3>2 DEF RelocateStay
      <3>3. CASE stay[s].booking \in Bookings
        BY <2>1, <2>3, <3>3, NoneAssumption DEF RelocateStay
      <3> QED BY <3>1, <3>2, <3>3 DEF SomeStay
    <2>4. ASSUME NEW c \in Bookings, NEW g, NEW r, NEW from, NEW to,
                 CreateBooking(c, g, r, from, to)
          PROVE  booking[b].status = "checked_in" \/ GetsStay(b)
      BY <1>2, <2>4 DEF CreateBooking, SetBooking
    <2>5. ASSUME NEW d, NEW c \in Bookings, NEW g, NEW to, ConvertToNight(d, c, g, to)
          PROVE  booking[b].status = "checked_in" \/ GetsStay(b)
      BY <1>2, <2>5 DEF ConvertToNight, SetBooking
    <2>6. ASSUME NEW d, \/ \E r, day : CreateDayUse(d, r, day)
                        \/ DayUseCheckIn(d) \/ DayUseCheckOut(d)
          PROVE  UNCHANGED booking
      BY <2>6 DEF CreateDayUse, DayUseCheckIn, MoveDayUse, DayUseCheckOut
    <2> QED BY <1>1, <1>6, <2>2, <2>3, <2>4, <2>5, <2>6 DEF Transaction
  <1>7. CASE NextDay \/ UNCHANGED deskVars
    BY <1>1, <1>7 DEF NextDay, deskVars
  <1> QED BY <1>5, <1>6, <1>7 DEF DeskNext

(* The stays of one booking: only InsertStay makes one, when there is none. *)
LEMMA SoleStay ==
  ASSUME DeskTypeOK, DepartingStayExists, CheckedInOnce, [DeskNext]_deskVars,
         NEW s \in Stays, NEW u \in Stays,
         stay'[s].booking # None, stay'[s].booking = stay'[u].booking
  PROVE  s = u
  <1> USE DEF DeskTypeOK
  <1>1. CASE \A v \in Stays : stay'[v].booking = stay[v].booking
    BY <1>1 DEF CheckedInOnce
  <1>2. ASSUME NEW v \in Stays, NEW row, stay' = [stay EXCEPT ![v] = row],
               row.booking = stay[v].booking
        PROVE  s = u
    BY <1>1, <1>2 DEF TypeOK
  <1>3. ASSUME NEW w \in Workers, NEW v \in Stays, InsertStay(w, v)
        PROVE  s = u
    <2> DEFINE b == worker[w].booking
    <2>1. \A x \in Stays : stay'[x].booking = IF x = v THEN b ELSE stay[x].booking
      BY <1>3 DEF InsertStay, TypeOK
    <2>2. b # None => \A x \in Stays : stay[x].booking # b
      <3>1. b # None => ~HasStay(b)
        BY <1>3 DEF InsertStay, Insertable
      <3>2. \A x \in Stays : stay[x].status = "none" => stay[x].booking = None
        BY DEF TypeOK, StayRow, SomeStay, NoStay
      <3> QED BY <3>1, <3>2 DEF HasStay
    <2> QED BY <2>1, <2>2 DEF CheckedInOnce
  <1>4. ASSUME NEW w \in Workers, Depart(w)
        PROVE  s = u
    <2> DEFINE v == worker[w].stay
               row == [stay[v] EXCEPT !.status = "completed"]
    <2>1. v \in Stays
      BY <1>4, Held DEF Depart, Departure
    <2>2. stay[v] \in SomeStay
      BY <1>4, <2>1, Rows DEF Depart, DepartingStayExists
    <2>3. row.booking = stay[v].booking
      BY <2>2 DEF SomeStay
    <2>4. stay' = [stay EXCEPT ![v] = row]
      BY <1>4 DEF Depart
    <2> HIDE DEF v, row
    <2> QED BY <1>2, <2>1, <2>3, <2>4
  <1>5. ASSUME NEW v \in Stays, NEW r \in Rooms, RelocateStay(v, r)
        PROVE  s = u
    <2> DEFINE row == [stay[v] EXCEPT !.room = r]
    <2>1. stay[v] \in SomeStay
      BY <1>5, Rows DEF RelocateStay
    <2>2. row.booking = stay[v].booking
      BY <2>1 DEF SomeStay
    <2>3. stay' = [stay EXCEPT ![v] = row]
      BY <1>5 DEF RelocateStay
    <2> HIDE DEF row
    <2> QED BY <1>2, <2>2, <2>3
  <1>6. ASSUME NEW w \in Workers, Load(w) \/ Continue(w)
        PROVE  s = u
    <2>1. CASE Load(w)
      BY <1>1, <2>1 DEF Load, LoadDashboard, CompleteTask, LoadCheckIn, LoadConfirm, LoadCancel,
         LoadNoShow, LoadStatusChange, LoadUpdate, LoadWalkIn, LoadCheckOut, LoadClosing,
         Take, vars
    <2>2. CASE \/ Resolve(w) \/ StoreStatus(w) \/ ValidateArrival(w) \/ AbortArrival(w)
               \/ RefuseDeparture(w) \/ SaveChange(w) \/ RefuseChange(w) \/ CloseLoaded(w)
      BY <1>1, <2>2 DEF Resolve, StoreStatus, ValidateArrival, AbortArrival, RefuseDeparture,
         SaveChange, RefuseChange, CloseLoaded, MoveDayUse, vars, tables
    <2> QED BY <1>3, <1>4, <1>6, <2>1, <2>2 DEF Continue
  <1>7. CASE Transaction
    <2>1. UNCHANGED stay \/ \E v \in Stays, r \in Rooms : RelocateStay(v, r)
      BY <1>7 DEF Transaction, CreateBooking, RelocateBooking, CreateDayUse, DayUseCheckIn,
         MoveDayUse, DayUseCheckOut, ConvertToNight
    <2> QED BY <1>1, <1>5, <2>1
  <1>8. CASE NextDay \/ UNCHANGED deskVars
    BY <1>1, <1>8 DEF NextDay, deskVars
  <1> QED BY <1>6, <1>7, <1>8 DEF DeskNext

LEMMA SavedArrivalStep ==
  ASSUME DeskTypeOK, DepartingStayExists, CheckedInOnce, SavedArrivalHasStay,
         [DeskNext]_deskVars
  PROVE  SavedArrivalHasStay'
  <1>1. StaysKept
    BY StaysKeptStep
  <1> SUFFICES ASSUME NEW v \in Workers, worker'[v].pc = "save",
                      worker'[v].row.status = "checked_in"
               PROVE  GetsStay(worker'[v].booking)
    BY DEF SavedArrivalHasStay, At, HasStay, GetsStay
  <1>2. HasStay(worker'[v].booking)
    <2>1. CASE UNCHANGED worker
      BY <2>1 DEF SavedArrivalHasStay, At
    <2>2. CASE \E w \in Workers : Load(w) \/ Continue(w)
      <3>1. PICK w \in Workers : Load(w) \/ Continue(w)
        BY <2>2
      <3>2. CASE v = w
        BY <3>1, <3>2, WorkerStep DEF CheckedInOnce
      <3>3. CASE v # w
        BY <3>1, <3>3, WorkerStep DEF SavedArrivalHasStay, At
      <3> QED BY <3>2, <3>3
    <2> QED BY <2>1, <2>2 DEF DeskNext, deskVars
  <1> QED BY <1>1, <1>2, HasStayKept

(* A booking that reads checked_in has a stay, and never two, whatever     *)
(* check-ins, cancellations and late saves race for it.                    *)
THEOREM DeskCheckedInOnce == DeskSpec => []CheckedInOnce
  <1>1. DeskInit => CheckedInOnce /\ SavedArrivalHasStay
    BY DEF DeskInit, Init, CheckedInOnce, SavedArrivalHasStay, At, Idle, NoBooking, NoStay
  <1>2. DeskTypeOK /\ DepartingStayExists /\ CheckedInOnce /\ SavedArrivalHasStay
          /\ [DeskNext]_deskVars
          => (CheckedInOnce /\ SavedArrivalHasStay)'
    <2> SUFFICES ASSUME DeskTypeOK, DepartingStayExists, CheckedInOnce, SavedArrivalHasStay,
                        [DeskNext]_deskVars
                 PROVE  CheckedInOnce' /\ SavedArrivalHasStay'
      OBVIOUS
    <2>1. ASSUME NEW b \in Bookings, booking'[b].status = "checked_in"
          PROVE  HasStay(b)'
      <3>1. GetsStay(b)
        BY <2>1, ArrivalsHaveStays, StaysKeptStep, HasStayKept DEF CheckedInOnce
      <3> QED BY <3>1 DEF GetsStay, HasStay
    <2>2. \A s, u \in Stays : stay'[s].booking # None /\ stay'[s].booking = stay'[u].booking
                             => s = u
      BY SoleStay
    <2>3. CheckedInOnce'
      BY <2>1, <2>2 DEF CheckedInOnce
    <2> QED BY <2>3, SavedArrivalStep
  <1> QED BY <1>1, <1>2, DeskTypeInvariant, PTL DEF DeskSpec
=============================================================================
