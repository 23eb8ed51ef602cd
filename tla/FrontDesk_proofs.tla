--------------------------- MODULE FrontDesk_proofs ---------------------------
(***************************************************************************)
(* Proofs about FrontDesk, for every set of rooms, guests, bookings, stays *)
(* and day uses, every calendar and every bound on tasks and incidents.    *)
(***************************************************************************)
EXTENDS FrontDesk, TLAPS

(* What the sync writes is always one of the five statuses. *)
LEMMA ResolvedStatus == \A r \in Rooms : Resolved(r)' \in RoomStatus
  BY DEF Resolved, RoomStatus

(* A synchronisation keeps the status column well typed. *)
LEMMA SyncType ==
  ASSUME TypeOK, NEW rooms, Sync(rooms)
  PROVE  roomStatus' \in [Rooms -> RoomStatus]
  BY ResolvedStatus DEF Sync, TypeOK

(* So does vacating a room, which never exceeds the bound on open tasks. *)
LEMMA VacateType ==
  ASSUME TypeOK, NEW old, NEW opens \in BOOLEAN, NEW rooms,
         Vacate(old, opens, rooms),
         old \in Rooms /\ opens => openTasks[old] < MaxOpen
  PROVE  /\ roomStatus' \in [Rooms -> RoomStatus]
         /\ openTasks' \in [Rooms -> 0..MaxOpen]
  <1>1. roomStatus' \in [Rooms -> RoomStatus]
    BY ResolvedStatus DEF Vacate, TypeOK, RoomStatus
  <1>2. openTasks' \in [Rooms -> 0..MaxOpen]
    <2>1. CASE ~opens
      BY <2>1 DEF Vacate, TypeOK
    <2>2. CASE opens /\ old \in Rooms
      <3>1. openTasks[old] + 1 \in 0..MaxOpen
        BY <2>2, BoundsAssumption DEF TypeOK
      <3> QED BY <2>2, <3>1 DEF Vacate, TypeOK
    <2>3. CASE opens /\ old \notin Rooms
      <3>1. openTasks' = openTasks
        BY <2>3 DEF Vacate, TypeOK
      <3> QED BY <3>1 DEF TypeOK
    <2> QED BY <2>1, <2>2, <2>3
  <1> QED BY <1>1, <1>2

(* The two check-outs of a stay open a task only in a room that has none. *)
LEMMA CleanVacate ==
  ASSUME TypeOK, NEW old, NEW rooms, Vacate(old, ~Dirty(old), rooms)
  PROVE  /\ roomStatus' \in [Rooms -> RoomStatus]
         /\ openTasks' \in [Rooms -> 0..MaxOpen]
  <1>1. old \in Rooms /\ ~Dirty(old) => openTasks[old] < MaxOpen
    BY BoundsAssumption DEF Dirty, TypeOK
  <1> QED BY <1>1, VacateType DEF Dirty

-----------------------------------------------------------------------------
(* A row in use has the type of its table's rows. *)
LEMMA Rows ==
  ASSUME TypeOK
  PROVE  /\ \A s \in Stays : stay[s].status # "none" => stay[s] \in SomeStay
         /\ \A d \in DayUses : dayUse[d].status # "none" => dayUse[d] \in SomeDayUse
  BY DEF TypeOK, StayRow, DayUseRow, NoStay, NoDayUse

(* Type correctness of the tables and of the cached room status. *)

LEMMA TypeBooking ==
  ASSUME TypeOK, BookingNext
  PROVE  TypeOK'
  <1> PICK b \in Bookings :
        \/ \E g \in Guests, r \in Rooms \cup {None}, from \in Days, to \in Nights :
             CreateBooking(b, g, r, from, to)
        \/ ConfirmBooking(b)
        \/ CancelBooking(b)
        \/ MarkNoShow(b)
        \/ \E r \in Rooms \cup {None}, from \in Days, to \in Nights :
             UpdateBooking(b, r, from, to)
        \/ \E r \in Rooms : RelocateBooking(b, r)
    BY DEF BookingNext
  <1> USE SyncType DEF TypeOK, BookingRow, ActiveBooking, ClosedBooking
  <1>1. ASSUME NEW g \in Guests, NEW r \in Rooms \cup {None}, NEW from \in Days,
               NEW to \in Nights, CreateBooking(b, g, r, from, to)
        PROVE  TypeOK'
    BY <1>1 DEF CreateBooking, SetBooking
  <1>2. CASE ConfirmBooking(b)
    BY <1>2 DEF ConfirmBooking, SaveBookingStatus
  <1>3. CASE CancelBooking(b)
    BY <1>3 DEF CancelBooking, SaveBookingStatus
  <1>4. CASE MarkNoShow(b)
    BY <1>4 DEF MarkNoShow, SaveBookingStatus
  <1>5. ASSUME NEW r \in Rooms \cup {None}, NEW from \in Days, NEW to \in Nights,
               UpdateBooking(b, r, from, to)
        PROVE  TypeOK'
    <2>1. booking' \in [Bookings -> BookingRow]
      <3>1. /\ booking[b] \in BookingRow
            /\ booking' = [booking EXCEPT ![b] =
                             [@ EXCEPT !.room = r, !.from = from, !.to = to]]
        BY <1>5 DEF UpdateBooking
      <3>2. [booking[b] EXCEPT !.room = r, !.from = from, !.to = to] \in BookingRow
        BY <3>1
      <3> QED BY <3>1, <3>2
    <2>2. UNCHANGED <<today, stay, dayUse, openTasks, blocking>> /\ Sync({r})
      BY <1>5 DEF UpdateBooking
    <2> QED BY <2>1, <2>2
  <1>6. ASSUME NEW r \in Rooms, RelocateBooking(b, r)
        PROVE  TypeOK'
    BY <1>6 DEF RelocateBooking
  <1> QED BY <1>1, <1>2, <1>3, <1>4, <1>5, <1>6

LEMMA TypeStay ==
  ASSUME TypeOK, StayNext
  PROVE  TypeOK'
  <1> PICK s \in Stays :
        \/ \E b \in Bookings, r \in Rooms : BookingCheckIn(b, s, r)
        \/ \E g \in Guests, r \in Rooms : WalkIn(s, g, r)
        \/ CheckOut(s)
        \/ \E r \in Rooms : RelocateStay(s, r)
    BY DEF StayNext
  <1>1. ASSUME NEW b \in Bookings, NEW r \in Rooms, BookingCheckIn(b, s, r)
        PROVE  TypeOK'
    BY <1>1, SyncType
       DEF TypeOK, BookingRow, ActiveBooking, ClosedBooking, StayRow, SomeStay, NoStay, BookingCheckIn
  <1>2. ASSUME NEW g \in Guests, NEW r \in Rooms, WalkIn(s, g, r)
        PROVE  TypeOK'
    BY <1>2, SyncType DEF TypeOK, StayRow, SomeStay, NoStay, WalkIn
  <1>3. CASE CheckOut(s)
    <2>1. /\ stay' \in [Stays -> StayRow]
          /\ UNCHANGED <<today, booking, dayUse, blocking>>
          /\ Vacate(stay[s].room, ~Dirty(stay[s].room), {})
      BY <1>3 DEF CheckOut, TypeOK, StayRow, SomeStay, NoStay
    <2> QED BY <2>1, CleanVacate DEF TypeOK
  <1>4. ASSUME NEW r \in Rooms, RelocateStay(s, r)
        PROVE  TypeOK'
    <2>1. /\ stay' \in [Stays -> StayRow]
          /\ UNCHANGED <<today, dayUse, blocking>>
          /\ Vacate(stay[s].room, ~Dirty(stay[s].room), {r})
      BY <1>4 DEF RelocateStay, TypeOK, StayRow, SomeStay, NoStay
    <2>2. booking' \in [Bookings -> BookingRow]
      <3> DEFINE b == stay[s].booking
      <3>1. \/ booking' = booking
            \/ booking' = [booking EXCEPT ![b].room = r]
        BY <1>4 DEF RelocateStay
      <3>2. b \in Bookings \/ b = None
        BY DEF TypeOK, StayRow, SomeStay, NoStay
      <3>3. b \in Bookings => booking[b] \in BookingRow
        BY DEF TypeOK
      <3>4. b \in Bookings => [booking[b] EXCEPT !.room = r] \in BookingRow
        BY <3>3 DEF BookingRow
      <3> QED BY <3>1, <3>2, <3>4, NoneAssumption DEF TypeOK
    <2> QED BY <2>1, <2>2, CleanVacate DEF TypeOK
  <1> QED BY <1>1, <1>2, <1>3, <1>4

LEMMA TypeDayUse ==
  ASSUME TypeOK, DayUseNext
  PROVE  TypeOK'
  <1> PICK d \in DayUses :
        \/ \E r \in Rooms, day \in Days : CreateDayUse(d, r, day)
        \/ \E r \in Rooms, day \in Days : UpdateDayUse(d, r, day)
        \/ DayUseCheckIn(d)
        \/ CloseDayUse(d)
        \/ DetectOvertime(d)
        \/ DayUseCheckOut(d)
        \/ \E b \in Bookings, g \in Guests, to \in Nights : ConvertToNight(d, b, g, to)
    BY DEF DayUseNext
  <1>1. ASSUME NEW r \in Rooms, NEW day \in Days, CreateDayUse(d, r, day)
        PROVE  TypeOK'
    BY <1>1, SyncType DEF TypeOK, DayUseRow, SomeDayUse, CreateDayUse, SaveDayUse
  <1>2. ASSUME NEW r \in Rooms, NEW day \in Days, UpdateDayUse(d, r, day)
        PROVE  TypeOK'
    <2>1. dayUse[d] \in SomeDayUse
      BY <1>2, Rows DEF UpdateDayUse
    <2>2. [dayUse[d] EXCEPT !.room = r, !.day = day] \in SomeDayUse
      BY <2>1 DEF SomeDayUse
    <2>3. dayUse' \in [DayUses -> DayUseRow]
      BY <1>2, <2>2 DEF UpdateDayUse, SaveDayUse, TypeOK, DayUseRow
    <2> QED BY <1>2, <2>3, SyncType DEF UpdateDayUse, TypeOK
  <1>3. ASSUME NEW from, "none" \notin from,
               NEW to \in {"in_progress", "overtime", "left"},
               MoveDayUse(d, from, to)
        PROVE  TypeOK'
    <2>1. dayUse[d] \in SomeDayUse
      BY <1>3, Rows DEF MoveDayUse
    <2>2. [dayUse[d] EXCEPT !.status = to] \in SomeDayUse
      BY <2>1 DEF SomeDayUse
    <2>3. dayUse' \in [DayUses -> DayUseRow]
      BY <1>3, <2>2 DEF MoveDayUse, SaveDayUse, TypeOK, DayUseRow
    <2> QED BY <1>3, <2>3, SyncType DEF MoveDayUse, TypeOK
  <1>4. CASE DayUseCheckIn(d) \/ CloseDayUse(d) \/ DetectOvertime(d)
    BY <1>3, <1>4 DEF DayUseCheckIn, CloseDayUse, DetectOvertime
  <1>5. CASE DayUseCheckOut(d)
    <2>1. /\ dayUse' \in [DayUses -> DayUseRow]
          /\ UNCHANGED <<today, booking, stay, blocking>>
      <3>1. [dayUse[d] EXCEPT !.status = "left"] \in SomeDayUse
        BY <1>5, Rows DEF DayUseCheckOut, SomeDayUse
      <3> QED BY <1>5, <3>1 DEF DayUseCheckOut, SaveDayUse, TypeOK, DayUseRow
    <2>2. PICK opens \in BOOLEAN : /\ opens => openTasks[dayUse[d].room] < MaxOpen
                                   /\ Vacate(dayUse[d].room, opens, {})
      BY <1>5 DEF DayUseCheckOut
    <2> QED BY <2>1, <2>2, VacateType DEF TypeOK
  <1>6. ASSUME NEW b \in Bookings, NEW g \in Guests, NEW to \in Nights,
               ConvertToNight(d, b, g, to)
        PROVE  TypeOK'
    <2>1. dayUse[d] \in SomeDayUse
      BY <1>6, Rows DEF ConvertToNight
    <2>2. booking' \in [Bookings -> BookingRow]
      BY <1>6, <2>1 DEF ConvertToNight, SetBooking, TypeOK, SomeDayUse, BookingRow,
                        ActiveBooking, ClosedBooking
    <2>4. dayUse' \in [DayUses -> DayUseRow]
      <3>1. [dayUse[d] EXCEPT !.converted = TRUE] \in SomeDayUse
        BY <2>1 DEF SomeDayUse
      <3> QED BY <1>6, <3>1 DEF ConvertToNight, SaveDayUse, TypeOK, DayUseRow
    <2>3. UNCHANGED <<today, stay, openTasks, blocking>> /\ Sync({dayUse[d].room})
      BY <1>6 DEF ConvertToNight
    <2> QED BY <2>2, <2>3, <2>4, SyncType DEF TypeOK
  <1> QED BY <1>1, <1>2, <1>4, <1>5, <1>6

LEMMA TypeRoom ==
  ASSUME TypeOK, RoomNext
  PROVE  TypeOK'
  <1> PICK r \in Rooms :
        \/ \E isOpen \in BOOLEAN : CreateTask(r, isOpen)
        \/ \E change \in {-1, 1} : SaveTask(r, change)
        \/ CompleteCleaning(r)
        \/ \E change \in {-1, 1} : SaveIncident(r, change)
        \/ DeleteTask(r)
        \/ DeleteIncident(r)
        \/ SyncRoom(r)
    BY DEF RoomNext
  <1> USE BoundsAssumption DEF TypeOK
  <1>1. ASSUME NEW isOpen \in BOOLEAN, CreateTask(r, isOpen)
        PROVE  TypeOK'
    BY <1>1 DEF CreateTask, RoomStatus
  <1>2. ASSUME NEW change \in {-1, 1}, SaveTask(r, change)
        PROVE  TypeOK'
    BY <1>2, SyncType DEF SaveTask
  <1>3. CASE CompleteCleaning(r)
    BY <1>3, SyncType DEF CompleteCleaning
  <1>4. ASSUME NEW change \in {-1, 1}, SaveIncident(r, change)
        PROVE  TypeOK'
    BY <1>4, SyncType DEF SaveIncident
  <1>5. CASE DeleteTask(r)
    BY <1>5 DEF DeleteTask
  <1>6. CASE DeleteIncident(r)
    BY <1>6 DEF DeleteIncident
  <1>7. CASE SyncRoom(r)
    BY <1>7, SyncType DEF SyncRoom
  <1> QED BY <1>1, <1>2, <1>3, <1>4, <1>5, <1>6, <1>7

LEMMA TypeStep ==
  ASSUME TypeOK, [Next]_vars
  PROVE  TypeOK'
  <1>1. CASE NextDay
    BY <1>1, BoundsAssumption DEF NextDay, TypeOK, Days
  <1>2. CASE UNCHANGED vars
    BY <1>2 DEF vars, TypeOK
  <1> QED BY <1>1, <1>2, TypeBooking, TypeStay, TypeDayUse, TypeRoom DEF Next

(* The tables and the cached status keep their types, whatever the number  *)
(* of rows (FrontDesk, every request).                                     *)
THEOREM TypeCorrect == Spec => []TypeOK
  <1>1. Init => TypeOK
    BY BoundsAssumption DEF Init, TypeOK, BookingRow, ActiveBooking, ClosedBooking,
       StayRow, SomeStay, NoStay, DayUseRow, SomeDayUse, NoDayUse, RoomStatus, Days, Nights, NoBooking, NoStay, NoDayUse
  <1>2. TypeOK /\ [Next]_vars => TypeOK'
    BY TypeStep
  <1> QED BY <1>1, <1>2, PTL DEF Spec

-----------------------------------------------------------------------------
(* Soundness of the cached status.  A step leaves each room either freshly *)
(* resolved, or in cleaning, or undisturbed: its column unchanged, the     *)
(* same occupants, and nothing new that would forbid an arrival.           *)

Undisturbed(r) ==
  /\ Occupied(r)' <=> Occupied(r)
  /\ Blocked(r)' => Blocked(r)
  /\ Dirty(r)' => Dirty(r)
  /\ Assigned(r)' => Assigned(r)

LEMMA ResolvedSound ==
  ASSUME NEW r \in Rooms, roomStatus'[r] = Resolved(r)'
  PROVE  StatusSound(r)'
  BY DEF StatusSound, Resolved

LEMMA CleaningSound ==
  ASSUME NEW r \in Rooms, roomStatus'[r] = "cleaning"
  PROVE  StatusSound(r)'
  BY DEF StatusSound

LEMMA FrameSound ==
  ASSUME NEW r \in Rooms, StatusSound(r), Undisturbed(r), roomStatus'[r] = roomStatus[r]
  PROVE  StatusSound(r)'
  BY DEF StatusSound, Undisturbed

LEMMA SoundSync ==
  ASSUME CachedStatusSound, NEW rooms, Sync(rooms),
         \A r \in Rooms \ rooms : Undisturbed(r)
  PROVE  CachedStatusSound'
  <1> SUFFICES ASSUME NEW r \in Rooms PROVE StatusSound(r)'
    BY DEF CachedStatusSound
  <1>1. CASE r \in rooms
    BY <1>1, ResolvedSound DEF Sync
  <1>2. CASE r \notin rooms
    <2>1. roomStatus'[r] = roomStatus[r] /\ StatusSound(r)
      BY <1>2 DEF Sync, CachedStatusSound
    <2> QED BY <1>2, <2>1, FrameSound
  <1> QED BY <1>1, <1>2

LEMMA SoundVacate ==
  ASSUME CachedStatusSound, NEW old, NEW opens \in BOOLEAN, NEW rooms,
         Vacate(old, opens, rooms),
         \A r \in Rooms \ (rooms \cup {old}) : Undisturbed(r)
  PROVE  CachedStatusSound'
  <1> SUFFICES ASSUME NEW r \in Rooms PROVE StatusSound(r)'
    BY DEF CachedStatusSound
  <1>1. CASE r = old /\ ~opens
    BY <1>1, CleaningSound DEF Vacate
  <1>2. CASE ~(r = old /\ ~opens) /\ r \in rooms \cup {old}
    BY <1>2, ResolvedSound DEF Vacate
  <1>3. CASE r \notin rooms \cup {old}
    <2>1. roomStatus'[r] = roomStatus[r] /\ StatusSound(r)
      BY <1>3 DEF Vacate, CachedStatusSound
    <2> QED BY <1>3, <2>1, FrameSound
  <1> QED BY <1>1, <1>2, <1>3

(* A new or changed booking can only assign the room it now has. *)
LEMMA AssignedFrame ==
  ASSUME TypeOK, NEW b \in Bookings, NEW row,
         booking' = [booking EXCEPT ![b] = row], today' = today,
         NEW r \in Rooms, row.room # r \/ row.status \notin {"pending", "confirmed"}
  PROVE  Assigned(r)' => Assigned(r)
  BY DEF Assigned, TypeOK

(* A new or changed stay only occupies or frees the rooms it has and had.  *)
LEMMA StayFrame ==
  ASSUME TypeOK, NEW s \in Stays, NEW row, stay' = [stay EXCEPT ![s] = row],
         NEW r \in Rooms, row.room # r,
         stay[s].room # r \/ stay[s].status # "in_progress"
  PROVE  StayIn(r)' <=> StayIn(r)
  BY DEF StayIn, TypeOK

LEMMA DayUseFrame ==
  ASSUME TypeOK, NEW d \in DayUses, NEW row, dayUse' = [dayUse EXCEPT ![d] = row],
         NEW r \in Rooms, row.room # r \/ row.status # "in_progress",
         dayUse[d].room # r \/ dayUse[d].status # "in_progress"
  PROVE  DayUseIn(r)' <=> DayUseIn(r)
  BY DEF DayUseIn, TypeOK

LEMMA SoundBooking ==
  ASSUME TypeOK, CachedStatusSound, BookingNext
  PROVE  CachedStatusSound'
  <1> PICK b \in Bookings :
        \/ \E g \in Guests, r \in Rooms \cup {None}, from \in Days, to \in Nights :
             CreateBooking(b, g, r, from, to)
        \/ ConfirmBooking(b)
        \/ CancelBooking(b)
        \/ MarkNoShow(b)
        \/ \E r \in Rooms \cup {None}, from \in Days, to \in Nights :
             UpdateBooking(b, r, from, to)
        \/ \E r \in Rooms : RelocateBooking(b, r)
    BY DEF BookingNext
  (* Every booking request rewrites one row and synchronises its room. *)
  <1>1. ASSUME NEW row, NEW rooms, row.room \in rooms,
               booking' = [booking EXCEPT ![b] = row],
               UNCHANGED <<today, stay, dayUse, openTasks, blocking>>,
               Sync(rooms)
        PROVE  CachedStatusSound'
    <2>1. ASSUME NEW r \in Rooms \ rooms PROVE Undisturbed(r)
      <3>1. Assigned(r)' => Assigned(r)
        BY <1>1, <2>1, AssignedFrame
      <3> QED BY <1>1, <3>1 DEF Undisturbed, Occupied, StayIn, DayUseIn, Blocked, Dirty
    <2> QED BY <1>1, <2>1, SoundSync
  <1>2. ASSUME NEW g \in Guests, NEW r \in Rooms \cup {None}, NEW from \in Days,
               NEW to \in Nights, CreateBooking(b, g, r, from, to)
        PROVE  CachedStatusSound'
    BY <1>1, <1>2 DEF CreateBooking, SetBooking
  <1>3. ASSUME NEW status, SaveBookingStatus(b, status)
        PROVE  CachedStatusSound'
    <2>1. booking' = [booking EXCEPT ![b] = [booking[b] EXCEPT !.status = status]]
      BY <1>3 DEF SaveBookingStatus
    <2>2. [booking[b] EXCEPT !.status = status].room = booking[b].room
      BY DEF TypeOK, BookingRow
    <2> QED BY <1>1, <1>3, <2>1, <2>2 DEF SaveBookingStatus
  <1>4. ASSUME NEW r \in Rooms \cup {None}, NEW from \in Days, NEW to \in Nights,
               UpdateBooking(b, r, from, to)
        PROVE  CachedStatusSound'
    <2> DEFINE row == [booking[b] EXCEPT !.room = r, !.from = from, !.to = to]
    <2>1. booking' = [booking EXCEPT ![b] = row]
      BY <1>4 DEF UpdateBooking
    <2>2. row.room = r
      BY DEF TypeOK, BookingRow
    <2>3. UNCHANGED <<today, stay, dayUse, openTasks, blocking>> /\ Sync({r})
      BY <1>4 DEF UpdateBooking
    <2> HIDE DEF row
    <2> QED BY <1>1, <2>1, <2>2, <2>3
  <1>5. ASSUME NEW r \in Rooms, RelocateBooking(b, r)
        PROVE  CachedStatusSound'
    <2> DEFINE row == [booking[b] EXCEPT !.room = r]
    <2>1. booking' = [booking EXCEPT ![b] = row]
      BY <1>5 DEF RelocateBooking
    <2>2. row.room = r
      BY DEF TypeOK, BookingRow
    <2>3. UNCHANGED <<today, stay, dayUse, openTasks, blocking>>
          /\ Sync({booking[b].room, r})
      BY <1>5 DEF RelocateBooking
    <2> HIDE DEF row
    <2> QED BY <1>1, <2>1, <2>2, <2>3
  <1> QED BY <1>2, <1>3, <1>4, <1>5 DEF ConfirmBooking, CancelBooking, MarkNoShow

LEMMA SoundStay ==
  ASSUME TypeOK, CachedStatusSound, StayNext
  PROVE  CachedStatusSound'
  <1> PICK s \in Stays :
        \/ \E b \in Bookings, r \in Rooms : BookingCheckIn(b, s, r)
        \/ \E g \in Guests, r \in Rooms : WalkIn(s, g, r)
        \/ CheckOut(s)
        \/ \E r \in Rooms : RelocateStay(s, r)
    BY DEF StayNext
  <1>1. ASSUME NEW b \in Bookings, NEW r \in Rooms, BookingCheckIn(b, s, r)
        PROVE  CachedStatusSound'
    <2> DEFINE row == [status |-> "in_progress", room |-> r,
                       guest |-> booking[b].guest, booking |-> b]
               kept == [booking[b] EXCEPT !.status = "checked_in", !.room = r]
    <2>1. /\ stay' = [stay EXCEPT ![s] = row] /\ stay[s].status = "none"
          /\ booking' = [booking EXCEPT ![b] = kept]
          /\ UNCHANGED <<today, dayUse, openTasks, blocking>>
          /\ Sync({r})
      BY <1>1 DEF BookingCheckIn
    <2>2. row.room = r /\ kept.status = "checked_in"
      BY DEF TypeOK, BookingRow
    <2> HIDE DEF row, kept
    <2>3. ASSUME NEW q \in Rooms \ {r} PROVE Undisturbed(q)
      <3>1. StayIn(q)' <=> StayIn(q)
        BY <2>1, <2>2, StayFrame
      <3>2. Assigned(q)' => Assigned(q)
        BY <2>1, <2>2, AssignedFrame
      <3> QED BY <2>1, <3>1, <3>2 DEF Undisturbed, Occupied, DayUseIn, Blocked, Dirty
    <2> QED BY <2>1, <2>3, SoundSync
  <1>2. ASSUME NEW g \in Guests, NEW r \in Rooms, WalkIn(s, g, r)
        PROVE  CachedStatusSound'
    <2> DEFINE row == [status |-> "in_progress", room |-> r, guest |-> g, booking |-> None]
    <2>1. /\ stay' = [stay EXCEPT ![s] = row] /\ stay[s].status = "none"
          /\ UNCHANGED <<today, booking, dayUse, openTasks, blocking>>
          /\ Sync({r})
      BY <1>2 DEF WalkIn
    <2>2. row.room = r
      OBVIOUS
    <2> HIDE DEF row
    <2>3. ASSUME NEW q \in Rooms \ {r} PROVE Undisturbed(q)
      <3>1. StayIn(q)' <=> StayIn(q)
        BY <2>1, <2>2, StayFrame
      <3> QED BY <2>1, <3>1 DEF Undisturbed, Occupied, DayUseIn, Blocked, Dirty, Assigned
    <2> QED BY <2>1, <2>3, SoundSync
  (* A guest leaves the old room, for another one or for good. *)
  <1>3. ASSUME NEW row, NEW rooms, row.room \in rooms \cup {stay[s].room},
               stay' = [stay EXCEPT ![s] = row],
               UNCHANGED <<dayUse, blocking>>,
               \A q \in Rooms \ (rooms \cup {stay[s].room}) : Assigned(q)' => Assigned(q),
               Vacate(stay[s].room, ~Dirty(stay[s].room), rooms)
        PROVE  CachedStatusSound'
    <2>1. ASSUME NEW q \in Rooms \ (rooms \cup {stay[s].room}) PROVE Undisturbed(q)
      <3>1. StayIn(q)' <=> StayIn(q)
        BY <1>3, <2>1, StayFrame
      <3>2. Dirty(q)' => Dirty(q)
        BY <1>3, <2>1 DEF Vacate, Dirty, TypeOK
      <3> QED BY <1>3, <3>1, <3>2 DEF Undisturbed, Occupied, DayUseIn, Blocked
    <2> QED BY <1>3, <2>1, SoundVacate DEF Dirty
  <1>4. CASE CheckOut(s)
    <2> DEFINE row == [stay[s] EXCEPT !.status = "completed"]
    <2>1. /\ stay' = [stay EXCEPT ![s] = row]
          /\ UNCHANGED <<today, booking, dayUse, blocking>>
          /\ Vacate(stay[s].room, ~Dirty(stay[s].room), {})
      BY <1>4 DEF CheckOut
    <2>2. row.room = stay[s].room
      BY DEF TypeOK, StayRow, SomeStay, NoStay
    <2> HIDE DEF row
    <2>3. \A q \in Rooms : Assigned(q)' => Assigned(q)
      BY <2>1 DEF Assigned
    <2> QED BY <1>3, <2>1, <2>2, <2>3
  <1>5. ASSUME NEW r \in Rooms, RelocateStay(s, r)
        PROVE  CachedStatusSound'
    <2> DEFINE row == [stay[s] EXCEPT !.room = r]
               b == stay[s].booking
    <2>1. /\ stay' = [stay EXCEPT ![s] = row]
          /\ UNCHANGED <<today, dayUse, blocking>>
          /\ Vacate(stay[s].room, ~Dirty(stay[s].room), {r})
      BY <1>5 DEF RelocateStay
    <2>2. row.room = r
      BY DEF TypeOK, StayRow, SomeStay, NoStay
    <2> HIDE DEF row
    <2>3. ASSUME NEW q \in Rooms \ {r} PROVE Assigned(q)' => Assigned(q)
      <3>1. CASE b = None
        BY <1>5, <3>1, <2>1 DEF RelocateStay, Assigned
      <3>2. CASE b # None
        <4>1. b \in Bookings
          BY <3>2 DEF TypeOK, StayRow, SomeStay, NoStay
        <4>2. booking' = [booking EXCEPT ![b] = [booking[b] EXCEPT !.room = r]]
          BY <1>5, <3>2 DEF RelocateStay
        <4>3. [booking[b] EXCEPT !.room = r].room = r
          BY <4>1 DEF TypeOK, BookingRow
        <4> QED BY <2>1, <2>3, <4>1, <4>2, <4>3, AssignedFrame
      <3> QED BY <3>1, <3>2
    <2> QED BY <1>3, <2>1, <2>2, <2>3
  <1> QED BY <1>1, <1>2, <1>4, <1>5

LEMMA SoundDayUse ==
  ASSUME TypeOK, CachedStatusSound, DayUseNext
  PROVE  CachedStatusSound'
  <1> PICK d \in DayUses :
        \/ \E r \in Rooms, day \in Days : CreateDayUse(d, r, day)
        \/ \E r \in Rooms, day \in Days : UpdateDayUse(d, r, day)
        \/ DayUseCheckIn(d)
        \/ CloseDayUse(d)
        \/ DetectOvertime(d)
        \/ DayUseCheckOut(d)
        \/ \E b \in Bookings, g \in Guests, to \in Nights : ConvertToNight(d, b, g, to)
    BY DEF DayUseNext
  (* A day use that leaves alone the tables of the other guests, whose room  *)
  (* is synchronised.                                                        *)
  <1>1. ASSUME NEW row, NEW room, row.room = room,
               dayUse[d].room = room \/ dayUse[d].status # "in_progress",
               SaveDayUse(d, row),
               UNCHANGED <<today, stay, openTasks, blocking>>,
               \A q \in Rooms \ {room} : Assigned(q)' => Assigned(q),
               Sync({room})
        PROVE  CachedStatusSound'
    <2>1. ASSUME NEW q \in Rooms \ {room} PROVE Undisturbed(q)
      <3>1. DayUseIn(q)' <=> DayUseIn(q)
        BY <1>1, <2>1, DayUseFrame DEF SaveDayUse
      <3> QED BY <1>1, <2>1, <3>1 DEF Undisturbed, Occupied, StayIn, Blocked, Dirty
    <2> QED BY <1>1, <2>1, SoundSync
  <1>2. ASSUME UNCHANGED <<today, booking>>
        PROVE  \A q \in Rooms : Assigned(q)' => Assigned(q)
    BY <1>2 DEF Assigned
  <1>3. ASSUME NEW r \in Rooms, NEW day \in Days, CreateDayUse(d, r, day)
        PROVE  CachedStatusSound'
    BY <1>1, <1>2, <1>3 DEF CreateDayUse
  <1>4. ASSUME NEW r \in Rooms, NEW day \in Days, UpdateDayUse(d, r, day)
        PROVE  CachedStatusSound'
    <2>1. [dayUse[d] EXCEPT !.room = r, !.day = day].room = r
      BY DEF TypeOK, DayUseRow, SomeDayUse, NoDayUse
    <2>2. dayUse[d].status = "ready"
      BY <1>4 DEF UpdateDayUse
    <2> QED BY <1>1, <1>2, <1>4, <2>1, <2>2 DEF UpdateDayUse
  <1>5. ASSUME NEW from, NEW to, MoveDayUse(d, from, to)
        PROVE  CachedStatusSound'
    <2>1. [dayUse[d] EXCEPT !.status = to].room = dayUse[d].room
      BY DEF TypeOK, DayUseRow, SomeDayUse, NoDayUse
    <2> QED BY <1>1, <1>2, <1>5, <2>1 DEF MoveDayUse
  <1>6. CASE DayUseCheckOut(d)
    <2> DEFINE row == [dayUse[d] EXCEPT !.status = "left"]
               old == dayUse[d].room
    <2>1. PICK opens \in BOOLEAN :
            /\ dayUse' = [dayUse EXCEPT ![d] = row]
            /\ UNCHANGED <<today, booking, stay, blocking>>
            /\ Vacate(old, opens, {})
      BY <1>6 DEF DayUseCheckOut, SaveDayUse
    <2>2. row.room = old
      BY DEF TypeOK, DayUseRow, SomeDayUse, NoDayUse
    <2> HIDE DEF row
    <2>3. ASSUME NEW q \in Rooms \ {old} PROVE Undisturbed(q)
      <3>1. DayUseIn(q)' <=> DayUseIn(q)
        BY <2>1, <2>2, <2>3, DayUseFrame
      <3>2. Dirty(q)' => Dirty(q)
        BY <2>1, <2>3 DEF Vacate, Dirty, TypeOK
      <3> QED BY <2>1, <3>1, <3>2 DEF Undisturbed, Occupied, StayIn, Blocked, Assigned
    <2> QED BY <2>1, <2>3, SoundVacate
  <1>7. ASSUME NEW b \in Bookings, NEW g \in Guests, NEW to \in Nights,
               ConvertToNight(d, b, g, to)
        PROVE  CachedStatusSound'
    <2> DEFINE r == dayUse[d].room
               row == [status |-> "confirmed", guest |-> g, room |-> r,
                       from |-> dayUse[d].day, to |-> to]
               kept == [dayUse[d] EXCEPT !.converted = TRUE]
    <2>1. /\ booking' = [booking EXCEPT ![b] = row]
          /\ SaveDayUse(d, kept)
          /\ UNCHANGED <<today, stay, openTasks, blocking>>
          /\ Sync({r})
      BY <1>7 DEF ConvertToNight, SetBooking
    <2>2. row.room = r /\ kept.room = r
      BY DEF TypeOK, DayUseRow, SomeDayUse, NoDayUse
    <2> HIDE DEF row, kept
    <2>3. \A q \in Rooms \ {r} : Assigned(q)' => Assigned(q)
      BY <2>1, <2>2, AssignedFrame
    <2> QED BY <1>1, <2>1, <2>2, <2>3
  <1> QED BY <1>3, <1>4, <1>5, <1>6, <1>7 DEF DayUseCheckIn, CloseDayUse, DetectOvertime

LEMMA SoundRoom ==
  ASSUME TypeOK, CachedStatusSound, RoomNext
  PROVE  CachedStatusSound'
  <1> PICK r \in Rooms :
        \/ \E isOpen \in BOOLEAN : CreateTask(r, isOpen)
        \/ \E change \in {-1, 1} : SaveTask(r, change)
        \/ CompleteCleaning(r)
        \/ \E change \in {-1, 1} : SaveIncident(r, change)
        \/ DeleteTask(r)
        \/ DeleteIncident(r)
        \/ SyncRoom(r)
    BY DEF RoomNext
  (* The counters of the other rooms, and all the other tables, are kept. *)
  <1>1. ASSUME UNCHANGED <<today, booking, stay, dayUse>>,
               NEW q \in Rooms, openTasks'[q] <= openTasks[q],
               blocking'[q] <= blocking[q],
               openTasks'[q] \in Int, blocking'[q] \in Int
        PROVE  Undisturbed(q)
    BY <1>1 DEF Undisturbed, Occupied, StayIn, DayUseIn, Assigned, Blocked, Dirty, TypeOK
  <1>2. ASSUME NEW isOpen \in BOOLEAN, CreateTask(r, isOpen)
        PROVE  CachedStatusSound'
    <2>1. roomStatus'[r] = "cleaning"
      BY <1>2 DEF CreateTask, TypeOK
    <2>2. ASSUME NEW q \in Rooms \ {r} PROVE StatusSound(q)'
      <3>1. Undisturbed(q)
        BY <1>1, <1>2, <2>2 DEF CreateTask, TypeOK
      <3>2. roomStatus'[q] = roomStatus[q] /\ StatusSound(q)
        BY <1>2, <2>2 DEF CreateTask, TypeOK, CachedStatusSound
      <3> QED BY <3>1, <3>2, FrameSound
    <2> QED BY <2>1, <2>2, CleaningSound DEF CachedStatusSound
  <1>3. ASSUME UNCHANGED <<today, booking, stay, dayUse>>,
               \A q \in Rooms \ {r} : /\ openTasks'[q] = openTasks[q]
                                      /\ blocking'[q] = blocking[q],
               Sync({r})
        PROVE  CachedStatusSound'
    <2>1. \A q \in Rooms \ {r} : Undisturbed(q)
      BY <1>1, <1>3 DEF TypeOK
    <2> QED BY <1>3, <2>1, SoundSync
  <1>4. ASSUME NEW change \in {-1, 1}, SaveTask(r, change)
        PROVE  CachedStatusSound'
    BY <1>3, <1>4 DEF SaveTask, TypeOK
  <1>5. ASSUME NEW change \in {-1, 1}, SaveIncident(r, change)
        PROVE  CachedStatusSound'
    BY <1>3, <1>5 DEF SaveIncident, TypeOK
  <1>6. CASE CompleteCleaning(r) \/ SyncRoom(r)
    BY <1>3, <1>6 DEF CompleteCleaning, SyncRoom
  <1>7. CASE DeleteTask(r) \/ DeleteIncident(r)
    <2>1. \A q \in Rooms : Undisturbed(q)
      BY <1>1, <1>7 DEF DeleteTask, DeleteIncident, TypeOK
    <2>2. \A q \in Rooms : roomStatus'[q] = roomStatus[q] /\ StatusSound(q)
      BY <1>7 DEF DeleteTask, DeleteIncident, CachedStatusSound
    <2> QED BY <2>1, <2>2, FrameSound DEF CachedStatusSound
  <1> QED BY <1>2, <1>4, <1>5, <1>6, <1>7

LEMMA SoundStep ==
  ASSUME TypeOK, CachedStatusSound, [Next]_vars
  PROVE  CachedStatusSound'
  <1>1. CASE NextDay
    <2>1. \A r \in Rooms : Undisturbed(r)
      BY <1>1 DEF NextDay, Undisturbed, Occupied, StayIn, DayUseIn, Blocked, Dirty,
                  Assigned, TypeOK, BookingRow, Days
    <2>2. \A r \in Rooms : roomStatus'[r] = roomStatus[r] /\ StatusSound(r)
      BY <1>1 DEF NextDay, CachedStatusSound
    <2> QED BY <2>1, <2>2, FrameSound DEF CachedStatusSound
  <1>2. CASE UNCHANGED vars
    BY <1>2 DEF vars, CachedStatusSound, StatusSound, Occupied, StayIn, DayUseIn,
                Blocked, Dirty, Assigned
  <1> QED BY <1>1, <1>2, SoundBooking, SoundStay, SoundDayUse, SoundRoom DEF Next

(* A room shown available or reserved may be entered, one shown available  *)
(* may be sold: the cached status is sound in every reachable state        *)
(* (sync_room_operational_status and every handler that calls it).         *)
THEOREM StatusIsSound == Spec => []CachedStatusSound
  <1>1. Init => CachedStatusSound
    <2> SUFFICES ASSUME Init, NEW r \in Rooms PROVE StatusSound(r)
      BY DEF CachedStatusSound
    <2>1. ~Occupied(r)
      BY DEF Init, Occupied, StayIn, DayUseIn, NoStay, NoDayUse
    <2>2. ~Assigned(r)
      BY DEF Init, Assigned, NoBooking
    <2>3. ~Blocked(r) /\ ~Dirty(r) /\ roomStatus[r] = "available"
      BY DEF Init, Blocked, Dirty
    <2> QED BY <2>1, <2>2, <2>3 DEF StatusSound
  <1>2. TypeOK /\ CachedStatusSound /\ [Next]_vars => CachedStatusSound'
    BY SoundStep
  <1> QED BY <1>1, <1>2, TypeCorrect, PTL DEF Spec

-----------------------------------------------------------------------------
(* Arrivals *)

Fit(r) == ~Occupied(r) /\ ~Blocked(r) /\ ~Dirty(r)

(* Nobody arrives in a step that starts no stay and no day use and moves   *)
(* no guest who is in the hotel.                                           *)
LEMMA NobodyEnters ==
  ASSUME \A s \in Stays : stay'[s].status = "in_progress" =>
            stay[s].status = "in_progress" /\ stay[s].room = stay'[s].room,
         \A d \in DayUses : dayUse'[d].status = "in_progress" =>
            dayUse[d].status = "in_progress" /\ dayUse[d].room = dayUse'[d].room
  PROVE  \A r \in Rooms : ~Enters(r)
  BY DEF Enters

LEMMA AvailableFit ==
  ASSUME CachedStatusSound, NEW r \in Rooms, roomStatus[r] \in {"available", "reserved"}
  PROVE  Fit(r)
  BY DEF CachedStatusSound, StatusSound, Fit

(* A request changes one stay or one day use at most. *)
OneMove ==
  \/ stay' = stay /\ dayUse' = dayUse
  \/ dayUse' = dayUse /\ \E s \in Stays, row \in SomeStay : stay' = [stay EXCEPT ![s] = row]
  \/ stay' = stay /\ \E d \in DayUses, row \in SomeDayUse : dayUse' = [dayUse EXCEPT ![d] = row]

LEMMA ArrivalStay ==
  ASSUME TypeOK, CachedStatusSound, StayNext
  PROVE  OneMove /\ \A r \in Rooms : Enters(r) => Fit(r)
  <1> PICK s \in Stays :
        \/ \E b \in Bookings, r \in Rooms : BookingCheckIn(b, s, r)
        \/ \E g \in Guests, r \in Rooms : WalkIn(s, g, r)
        \/ CheckOut(s)
        \/ \E r \in Rooms : RelocateStay(s, r)
    BY DEF StayNext
  (* The guest of s, alone, goes to room. *)
  <1>1. ASSUME NEW row \in SomeStay, NEW room \in Rooms, row.room = room,
               stay' = [stay EXCEPT ![s] = row], dayUse' = dayUse,
               row.status = "completed" \/ Fit(room)
        PROVE  OneMove /\ \A r \in Rooms : Enters(r) => Fit(r)
    BY <1>1 DEF OneMove, Enters, TypeOK
  <1>2. ASSUME NEW b \in Bookings, NEW r \in Rooms, BookingCheckIn(b, s, r)
        PROVE  OneMove /\ \A q \in Rooms : Enters(q) => Fit(q)
    <2> DEFINE row == [status |-> "in_progress", room |-> r,
                       guest |-> booking[b].guest, booking |-> b]
    <2>1. row \in SomeStay /\ row.room = r
      BY DEF TypeOK, BookingRow, SomeStay
    <2>2. stay' = [stay EXCEPT ![s] = row] /\ dayUse' = dayUse
      BY <1>2 DEF BookingCheckIn
    <2>3. Fit(r)
      BY <1>2, AvailableFit DEF BookingCheckIn
    <2> HIDE DEF row
    <2> QED BY <1>1, <2>1, <2>2, <2>3
  <1>3. ASSUME NEW g \in Guests, NEW r \in Rooms, WalkIn(s, g, r)
        PROVE  OneMove /\ \A q \in Rooms : Enters(q) => Fit(q)
    <2> DEFINE row == [status |-> "in_progress", room |-> r, guest |-> g, booking |-> None]
    <2>1. row \in SomeStay /\ row.room = r
      BY DEF SomeStay
    <2>2. stay' = [stay EXCEPT ![s] = row] /\ dayUse' = dayUse
      BY <1>3 DEF WalkIn
    <2>3. Fit(r)
      BY <1>3, AvailableFit DEF WalkIn
    <2> HIDE DEF row
    <2> QED BY <1>1, <2>1, <2>2, <2>3
  <1>4. CASE CheckOut(s)
    <2> DEFINE row == [stay[s] EXCEPT !.status = "completed"]
    <2>1. row \in SomeStay /\ row.status = "completed" /\ row.room = stay[s].room
      BY <1>4, Rows DEF CheckOut, SomeStay
    <2>2. stay' = [stay EXCEPT ![s] = row] /\ dayUse' = dayUse
      BY <1>4 DEF CheckOut
    <2> HIDE DEF row
    <2>3. row.room \in Rooms
      BY <2>1 DEF SomeStay
    <2> QED BY <1>1, <2>1, <2>2, <2>3
  <1>5. ASSUME NEW r \in Rooms, RelocateStay(s, r)
        PROVE  OneMove /\ \A q \in Rooms : Enters(q) => Fit(q)
    <2> DEFINE row == [stay[s] EXCEPT !.room = r]
    <2>1. row \in SomeStay /\ row.room = r
      BY <1>5, Rows DEF RelocateStay, SomeStay
    <2>2. stay' = [stay EXCEPT ![s] = row] /\ dayUse' = dayUse
      BY <1>5 DEF RelocateStay
    <2>3. Fit(r)
      BY <1>5 DEF RelocateStay, Resolved, Fit
    <2> HIDE DEF row
    <2> QED BY <1>1, <2>1, <2>2, <2>3
  <1> QED BY <1>2, <1>3, <1>4, <1>5

LEMMA ArrivalDayUse ==
  ASSUME TypeOK, CachedStatusSound, DayUseNext
  PROVE  OneMove /\ \A r \in Rooms : Enters(r) => Fit(r)
  <1> PICK d \in DayUses :
        \/ \E r \in Rooms, day \in Days : CreateDayUse(d, r, day)
        \/ \E r \in Rooms, day \in Days : UpdateDayUse(d, r, day)
        \/ DayUseCheckIn(d)
        \/ CloseDayUse(d)
        \/ DetectOvertime(d)
        \/ DayUseCheckOut(d)
        \/ \E b \in Bookings, g \in Guests, to \in Nights : ConvertToNight(d, b, g, to)
    BY DEF DayUseNext
  <1>1. ASSUME NEW row \in SomeDayUse, SaveDayUse(d, row), stay' = stay,
               row.status = "in_progress" =>
                 \/ Fit(row.room)
                 \/ dayUse[d].status = "in_progress" /\ dayUse[d].room = row.room
        PROVE  OneMove /\ \A r \in Rooms : Enters(r) => Fit(r)
    BY <1>1 DEF SaveDayUse, OneMove, Enters, TypeOK
  <1>2. dayUse[d].status # "none" => dayUse[d] \in SomeDayUse
    BY Rows
  <1>3. ASSUME NEW r \in Rooms, NEW day \in Days, CreateDayUse(d, r, day)
        PROVE  OneMove /\ \A q \in Rooms : Enters(q) => Fit(q)
    <2> DEFINE row == [status |-> "ready", room |-> r, day |-> day, converted |-> FALSE]
    <2>1. row \in SomeDayUse /\ row.status = "ready"
      BY DEF SomeDayUse
    <2>2. SaveDayUse(d, row) /\ stay' = stay
      BY <1>3 DEF CreateDayUse
    <2> HIDE DEF row
    <2> QED BY <1>1, <2>1, <2>2
  <1>4. ASSUME NEW r \in Rooms, NEW day \in Days, UpdateDayUse(d, r, day)
        PROVE  OneMove /\ \A q \in Rooms : Enters(q) => Fit(q)
    <2> DEFINE row == [dayUse[d] EXCEPT !.room = r, !.day = day]
    <2>1. row \in SomeDayUse /\ row.status = "ready"
      BY <1>2, <1>4 DEF SomeDayUse, UpdateDayUse
    <2>2. SaveDayUse(d, row) /\ stay' = stay
      BY <1>4 DEF UpdateDayUse
    <2> HIDE DEF row
    <2> QED BY <1>1, <2>1, <2>2
  <1>5. ASSUME NEW from, "none" \notin from,
               NEW to \in {"in_progress", "overtime", "left"},
               MoveDayUse(d, from, to), to = "in_progress" => Fit(dayUse[d].room)
        PROVE  OneMove /\ \A q \in Rooms : Enters(q) => Fit(q)
    <2> DEFINE row == [dayUse[d] EXCEPT !.status = to]
    <2>1. row \in SomeDayUse /\ row.status = to /\ row.room = dayUse[d].room
      BY <1>2, <1>5 DEF SomeDayUse, MoveDayUse
    <2>2. SaveDayUse(d, row) /\ stay' = stay
      BY <1>5 DEF MoveDayUse
    <2> HIDE DEF row
    <2> QED BY <1>1, <1>5, <2>1, <2>2
  <1>6. CASE DayUseCheckIn(d)
    <2>1. dayUse[d].room \in Rooms
      BY <1>2, <1>6 DEF DayUseCheckIn, SomeDayUse
    <2>2. Fit(dayUse[d].room)
      BY <1>6, <2>1, AvailableFit DEF DayUseCheckIn
    <2> QED BY <1>5, <1>6, <2>2 DEF DayUseCheckIn
  <1>7. CASE CloseDayUse(d) \/ DetectOvertime(d)
    BY <1>5, <1>7 DEF CloseDayUse, DetectOvertime
  <1>8. CASE DayUseCheckOut(d)
    <2> DEFINE row == [dayUse[d] EXCEPT !.status = "left"]
    <2>1. row \in SomeDayUse /\ row.status = "left"
      BY <1>2, <1>8 DEF SomeDayUse, DayUseCheckOut
    <2>2. SaveDayUse(d, row) /\ stay' = stay
      BY <1>8 DEF DayUseCheckOut
    <2> HIDE DEF row
    <2> QED BY <1>1, <2>1, <2>2
  <1>9. ASSUME NEW b \in Bookings, NEW g \in Guests, NEW to \in Nights,
               ConvertToNight(d, b, g, to)
        PROVE  OneMove /\ \A q \in Rooms : Enters(q) => Fit(q)
    <2> DEFINE row == [dayUse[d] EXCEPT !.converted = TRUE]
    <2>1. row \in SomeDayUse /\ row.status = dayUse[d].status /\ row.room = dayUse[d].room
      BY <1>2, <1>9 DEF SomeDayUse, ConvertToNight
    <2>2. SaveDayUse(d, row) /\ stay' = stay
      BY <1>9 DEF ConvertToNight
    <2> HIDE DEF row
    <2> QED BY <1>1, <2>1, <2>2
  <1> QED BY <1>3, <1>4, <1>6, <1>7, <1>8, <1>9

(* Housekeeping and maintenance move nobody. *)
LEMMA RoomMovesNobody ==
  ASSUME RoomNext
  PROVE  stay' = stay /\ dayUse' = dayUse
  <1> PICK r \in Rooms : \/ \E isOpen \in BOOLEAN : CreateTask(r, isOpen)
                        \/ \E change \in {-1, 1} : SaveTask(r, change) \/ SaveIncident(r, change)
                        \/ CompleteCleaning(r)
                        \/ DeleteTask(r)
                        \/ DeleteIncident(r)
                        \/ SyncRoom(r)
    BY DEF RoomNext
  <1>1. CASE (\E isOpen \in BOOLEAN : CreateTask(r, isOpen)) \/ CompleteCleaning(r)
             \/ DeleteTask(r) \/ DeleteIncident(r) \/ SyncRoom(r)
    BY <1>1 DEF CreateTask, CompleteCleaning, DeleteTask, DeleteIncident, SyncRoom
  <1>2. CASE \E change \in {-1, 1} : SaveTask(r, change) \/ SaveIncident(r, change)
    BY <1>2 DEF SaveTask, SaveIncident
  <1> QED BY <1>1, <1>2

(* Nor do changes of bookings. *)
LEMMA BookingMovesNobody ==
  ASSUME BookingNext
  PROVE  stay' = stay /\ dayUse' = dayUse
  <1> PICK b \in Bookings :
        \/ \E g \in Guests, r \in Rooms \cup {None}, from \in Days, to \in Nights :
             CreateBooking(b, g, r, from, to)
        \/ ConfirmBooking(b)
        \/ CancelBooking(b)
        \/ MarkNoShow(b)
        \/ \E r \in Rooms \cup {None}, from \in Days, to \in Nights :
             UpdateBooking(b, r, from, to)
        \/ \E r \in Rooms : RelocateBooking(b, r)
    BY DEF BookingNext
  <1>1. CASE \E g \in Guests, r \in Rooms \cup {None}, from \in Days, to \in Nights :
               CreateBooking(b, g, r, from, to)
    BY <1>1 DEF CreateBooking
  <1>2. CASE \E status \in {"confirmed", "cancelled", "no_show"} : SaveBookingStatus(b, status)
    BY <1>2 DEF SaveBookingStatus
  <1>3. CASE ConfirmBooking(b) \/ CancelBooking(b) \/ MarkNoShow(b)
    BY <1>2, <1>3 DEF ConfirmBooking, CancelBooking, MarkNoShow
  <1>4. CASE \E r \in Rooms \cup {None}, from \in Days, to \in Nights :
               UpdateBooking(b, r, from, to)
    BY <1>4 DEF UpdateBooking
  <1>5. CASE \E r \in Rooms : RelocateBooking(b, r)
    BY <1>5 DEF RelocateBooking
  <1> QED BY <1>1, <1>3, <1>4, <1>5

LEMMA ArrivalStep ==
  ASSUME TypeOK, CachedStatusSound, [Next]_vars
  PROVE  OneMove /\ \A r \in Rooms : Enters(r) => Fit(r)
  <1>1. CASE stay' = stay /\ dayUse' = dayUse
    BY <1>1, NobodyEnters DEF OneMove
  <1>2. CASE StayNext
    BY <1>2, ArrivalStay
  <1>3. CASE DayUseNext
    BY <1>3, ArrivalDayUse
  <1>4. CASE BookingNext \/ RoomNext \/ NextDay \/ UNCHANGED vars
    <2>1. CASE BookingNext
      BY <1>1, <2>1, BookingMovesNobody
    <2>2. CASE RoomNext
      BY <1>1, <2>2, RoomMovesNobody
    <2>3. CASE NextDay \/ UNCHANGED vars
      BY <1>1, <2>3 DEF NextDay, vars
    <2> QED BY <1>4, <2>1, <2>2, <2>3
  <1> QED BY <1>2, <1>3, <1>4 DEF Next

(* Whoever arrives - by check-in, walk-in, relocation or day use - finds   *)
(* the room without occupant, clean and in service.                        *)
THEOREM ArrivalsFit == Spec => ArrivalsInFitRooms
  <1>1. TypeOK /\ CachedStatusSound /\ [Next]_vars
          => \A r \in Rooms : Enters(r) => ~Occupied(r) /\ ~Blocked(r) /\ ~Dirty(r)
    BY ArrivalStep DEF Fit
  <1> QED BY <1>1, TypeCorrect, StatusIsSound, PTL DEF Spec, ArrivalsInFitRooms

-----------------------------------------------------------------------------
(* One occupant per room *)

LEMMA ExclusiveStep ==
  ASSUME TypeOK, CachedStatusSound, OccupancyExclusive, [Next]_vars
  PROVE  OccupancyExclusive'
  <1>1. OneMove /\ \A r \in Rooms : Enters(r) => Fit(r)
    BY ArrivalStep
  <1>2. CASE stay' = stay /\ dayUse' = dayUse
    BY <1>2 DEF OccupancyExclusive
  (* The one guest who may have moved was in the room already or found it  *)
  (* without occupant.                                                     *)
  <1>3. ASSUME NEW s \in Stays, NEW row \in SomeStay,
               stay' = [stay EXCEPT ![s] = row], dayUse' = dayUse
        PROVE  OccupancyExclusive'
    <2>1. row.status = "in_progress" =>
            \/ ~Occupied(row.room)
            \/ stay[s].status = "in_progress" /\ stay[s].room = row.room
      <3>1. row.room \in Rooms
        BY DEF SomeStay
      <3>2. stay'[s] = row
        BY <1>3 DEF TypeOK
      <3> QED BY <1>1, <3>1, <3>2 DEF Enters, Fit
    <2>2. \A u \in Stays : stay'[u] = IF u = s THEN row ELSE stay[u]
      BY <1>3 DEF TypeOK
    <2> QED BY <1>3, <2>1, <2>2 DEF OccupancyExclusive, Occupied, StayIn, DayUseIn
  <1>4. ASSUME NEW d \in DayUses, NEW row \in SomeDayUse,
               dayUse' = [dayUse EXCEPT ![d] = row], stay' = stay
        PROVE  OccupancyExclusive'
    <2>1. row.status = "in_progress" =>
            \/ ~Occupied(row.room)
            \/ dayUse[d].status = "in_progress" /\ dayUse[d].room = row.room
      <3>1. row.room \in Rooms
        BY DEF SomeDayUse
      <3>2. dayUse'[d] = row
        BY <1>4 DEF TypeOK
      <3> QED BY <1>1, <3>1, <3>2 DEF Enters, Fit
    <2>2. \A e \in DayUses : dayUse'[e] = IF e = d THEN row ELSE dayUse[e]
      BY <1>4 DEF TypeOK
    <2> QED BY <1>4, <2>1, <2>2 DEF OccupancyExclusive, Occupied, StayIn, DayUseIn
  <1> QED BY <1>1, <1>2, <1>3, <1>4 DEF OneMove

(* No two guests in one room: stays and day uses never look at one         *)
(* another, the cached status alone keeps them apart.                      *)
THEOREM OneOccupant == Spec => []OccupancyExclusive
  <1>1. Init => OccupancyExclusive
    BY DEF Init, OccupancyExclusive, NoStay, NoDayUse
  <1>2. TypeOK /\ CachedStatusSound /\ OccupancyExclusive /\ [Next]_vars
          => OccupancyExclusive'
    BY ExclusiveStep
  <1> QED BY <1>1, <1>2, TypeCorrect, StatusIsSound, PTL DEF Spec

-----------------------------------------------------------------------------
(* No night is sold twice *)

(* The row of booking b may stand beside the others. *)
FreeRow(b, row) ==
  row.room # None /\ row.status \in ActiveBooking => RoomFree(row.room, row.from, row.to, b)

LEMMA OverlapRow ==
  ASSUME TypeOK, NoOverlappingBookings, NEW b \in Bookings, NEW row \in BookingRow,
         booking' = [booking EXCEPT ![b] = row], FreeRow(b, row)
  PROVE  NoOverlappingBookings'
  <1>1. \A c \in Bookings : booking'[c] = IF c = b THEN row ELSE booking[c]
    BY DEF TypeOK
  <1>2. \A c \in Bookings : booking[c] \in BookingRow
    BY DEF TypeOK
  <1> QED BY <1>1, <1>2 DEF NoOverlappingBookings, FreeRow, RoomFree, Overlap, BookingRow,
             Days, Nights

LEMMA OverlapFrame ==
  ASSUME NoOverlappingBookings, UNCHANGED booking
  PROVE  NoOverlappingBookings'
  BY DEF NoOverlappingBookings, Overlap

(* A step writes one row of the Booking table: a row that may stand beside *)
(* the others, its dates in order or its dates and status unchanged.       *)
Rewrites(b, row) ==
  /\ booking' = [booking EXCEPT ![b] = row]
  /\ FreeRow(b, row)
  /\ \/ row.from < row.to
     \/ /\ row.from = booking[b].from /\ row.to = booking[b].to
        /\ row.status = booking[b].status

BookingChanges ==
  UNCHANGED booking \/ \E b \in Bookings, row \in BookingRow : Rewrites(b, row)

LEMMA BookingRewrites ==
  ASSUME TypeOK, BookingNext
  PROVE  BookingChanges
  <1> PICK b \in Bookings :
        \/ \E g \in Guests, r \in Rooms \cup {None}, from \in Days, to \in Nights :
             CreateBooking(b, g, r, from, to)
        \/ ConfirmBooking(b)
        \/ CancelBooking(b)
        \/ MarkNoShow(b)
        \/ \E r \in Rooms \cup {None}, from \in Days, to \in Nights :
             UpdateBooking(b, r, from, to)
        \/ \E r \in Rooms : RelocateBooking(b, r)
    BY DEF BookingNext
  <1>0. booking[b] \in BookingRow
    BY DEF TypeOK
  <1>1. ASSUME NEW g \in Guests, NEW r \in Rooms \cup {None}, NEW from \in Days,
               NEW to \in Nights, CreateBooking(b, g, r, from, to)
        PROVE  BookingChanges
    <2> DEFINE row == [status |-> "pending", guest |-> g, room |-> r,
                       from |-> from, to |-> to]
    <2>1. row \in BookingRow /\ FreeRow(b, row) /\ row.from < row.to
      BY <1>1 DEF CreateBooking, Savable, FreeRow, BookingRow, ActiveBooking
    <2>2. booking' = [booking EXCEPT ![b] = row]
      BY <1>1 DEF CreateBooking, SetBooking
    <2> HIDE DEF row
    <2> QED BY <2>1, <2>2 DEF Rewrites, BookingChanges
  <1>2. ASSUME NEW status \in ActiveBooking \cup ClosedBooking, SaveBookingStatus(b, status)
        PROVE  BookingChanges
    <2> DEFINE row == [booking[b] EXCEPT !.status = status]
    <2>1. row \in BookingRow /\ FreeRow(b, row) /\ row.from < row.to
      BY <1>0, <1>2 DEF SaveBookingStatus, Savable, FreeRow, BookingRow
    <2>2. booking' = [booking EXCEPT ![b] = row]
      BY <1>2 DEF SaveBookingStatus
    <2> HIDE DEF row
    <2> QED BY <2>1, <2>2 DEF Rewrites, BookingChanges
  <1>3. CASE ConfirmBooking(b) \/ CancelBooking(b) \/ MarkNoShow(b)
    BY <1>2, <1>3 DEF ConfirmBooking, CancelBooking, MarkNoShow, ActiveBooking, ClosedBooking
  <1>4. ASSUME NEW r \in Rooms \cup {None}, NEW from \in Days, NEW to \in Nights,
               UpdateBooking(b, r, from, to)
        PROVE  BookingChanges
    <2> DEFINE row == [booking[b] EXCEPT !.room = r, !.from = from, !.to = to]
    <2>1. /\ row \in BookingRow
          /\ row.room = r /\ row.from = from /\ row.to = to
          /\ row.status = booking[b].status
      BY <1>0 DEF BookingRow
    <2>2. booking' = [booking EXCEPT ![b] = row]
      BY <1>4 DEF UpdateBooking
    <2>3. Savable(b, r, from, to, booking[b].status)
      BY <1>4 DEF UpdateBooking
    <2>4. FreeRow(b, row)
      BY <2>1, <2>3 DEF FreeRow, Savable
    <2> HIDE DEF row
    <2> QED BY <2>1, <2>2, <2>3, <2>4 DEF Savable, Rewrites, BookingChanges
  <1>5. ASSUME NEW r \in Rooms, RelocateBooking(b, r)
        PROVE  BookingChanges
    <2> DEFINE row == [booking[b] EXCEPT !.room = r]
    <2>1. row \in BookingRow /\ FreeRow(b, row) /\ row.from < row.to
      BY <1>0, <1>5 DEF RelocateBooking, Savable, FreeRow, BookingRow
    <2>2. booking' = [booking EXCEPT ![b] = row]
      BY <1>5 DEF RelocateBooking
    <2> HIDE DEF row
    <2> QED BY <2>1, <2>2 DEF Rewrites, BookingChanges
  <1> QED BY <1>1, <1>3, <1>4, <1>5

LEMMA StayRewrites ==
  ASSUME TypeOK, StayNext
  PROVE  BookingChanges
  <1> PICK s \in Stays :
        \/ \E b \in Bookings, r \in Rooms : BookingCheckIn(b, s, r)
        \/ \E g \in Guests, r \in Rooms : WalkIn(s, g, r)
        \/ CheckOut(s)
        \/ \E r \in Rooms : RelocateStay(s, r)
    BY DEF StayNext
  <1>1. ASSUME NEW b \in Bookings, NEW r \in Rooms, BookingCheckIn(b, s, r)
        PROVE  BookingChanges
    <2> DEFINE row == [booking[b] EXCEPT !.status = "checked_in", !.room = r]
    <2>1. row \in BookingRow /\ FreeRow(b, row) /\ row.from < row.to
      BY <1>1 DEF BookingCheckIn, Savable, FreeRow, TypeOK, BookingRow, ActiveBooking
    <2>2. booking' = [booking EXCEPT ![b] = row]
      BY <1>1 DEF BookingCheckIn
    <2> HIDE DEF row
    <2> QED BY <2>1, <2>2 DEF Rewrites, BookingChanges
  <1>2. ASSUME NEW r \in Rooms, RelocateStay(s, r)
        PROVE  BookingChanges
    <2> DEFINE b == stay[s].booking
               row == [booking[b] EXCEPT !.room = r]
    <2>1. stay[s] \in SomeStay
      BY <1>2, Rows DEF RelocateStay
    <2>2. CASE b = None
      BY <1>2, <2>2 DEF RelocateStay, BookingChanges
    <2>3. CASE b \in Bookings
      <3>1. RoomFree(r, booking[b].from, booking[b].to, b) /\ booking' = [booking EXCEPT ![b] = row]
        BY <1>2, <2>3, NoneAssumption DEF RelocateStay
      <3>2. /\ row \in BookingRow /\ FreeRow(b, row)
            /\ row.from = booking[b].from /\ row.to = booking[b].to
            /\ row.status = booking[b].status
        BY <2>3, <3>1 DEF FreeRow, TypeOK, BookingRow
      <3> HIDE DEF b, row
      <3> QED BY <2>3, <3>1, <3>2 DEF Rewrites, BookingChanges
    <2> QED BY <2>1, <2>2, <2>3 DEF SomeStay
  <1>3. CASE \/ CheckOut(s)
             \/ \E g \in Guests, r \in Rooms : WalkIn(s, g, r)
    BY <1>3 DEF CheckOut, WalkIn, BookingChanges
  <1> QED BY <1>1, <1>2, <1>3

LEMMA DayUseRewrites ==
  ASSUME TypeOK, DayUseNext
  PROVE  BookingChanges
  <1>1. ASSUME NEW d \in DayUses, NEW b \in Bookings, NEW g \in Guests, NEW to \in Nights,
               ConvertToNight(d, b, g, to)
        PROVE  BookingChanges
    <2> DEFINE row == [status |-> "confirmed", guest |-> g, room |-> dayUse[d].room,
                       from |-> dayUse[d].day, to |-> to]
    <2>1. dayUse[d] \in SomeDayUse
      BY <1>1, Rows DEF ConvertToNight
    <2>2. row \in BookingRow /\ FreeRow(b, row) /\ row.from < row.to
      BY <1>1, <2>1 DEF ConvertToNight, Savable, FreeRow, SomeDayUse, BookingRow, ActiveBooking
    <2>3. booking' = [booking EXCEPT ![b] = row]
      BY <1>1 DEF ConvertToNight, SetBooking
    <2> HIDE DEF row
    <2> QED BY <2>2, <2>3 DEF Rewrites, BookingChanges
  <1>2. ASSUME NEW d \in DayUses,
               \/ \E r \in Rooms, day \in Days : CreateDayUse(d, r, day)
               \/ \E r \in Rooms, day \in Days : UpdateDayUse(d, r, day)
               \/ \E from, to : MoveDayUse(d, from, to)
               \/ DayUseCheckOut(d)
        PROVE  UNCHANGED booking
    BY <1>2 DEF CreateDayUse, UpdateDayUse, MoveDayUse, DayUseCheckOut
  <1>3. \/ UNCHANGED booking
        \/ \E d \in DayUses, b \in Bookings, g \in Guests, to \in Nights :
             ConvertToNight(d, b, g, to)
    BY <1>2 DEF DayUseNext, DayUseCheckIn, CloseDayUse, DetectOvertime
  <1> QED BY <1>1, <1>3 DEF BookingChanges

LEMMA OverlapStep ==
  ASSUME TypeOK, NoOverlappingBookings, BookingChanges
  PROVE  NoOverlappingBookings'
  BY OverlapRow, OverlapFrame DEF Rewrites, BookingChanges

LEMMA ChangesStep ==
  ASSUME TypeOK, [Next]_vars
  PROVE  BookingChanges
  <1>1. CASE RoomNext \/ NextDay \/ UNCHANGED vars
    BY <1>1 DEF RoomNext, CreateTask, SaveTask, CompleteCleaning, SaveIncident, DeleteTask,
       DeleteIncident, SyncRoom, NextDay, vars, BookingChanges
  <1> QED BY <1>1, BookingRewrites, StayRewrites, DayUseRewrites DEF Next

(* Two active bookings of one room never share a night, whichever way they *)
(* came to the room.                                                       *)
THEOREM NoDoubleBooking == Spec => []NoOverlappingBookings
  <1>1. Init => NoOverlappingBookings
    BY DEF Init, NoOverlappingBookings, NoBooking, ActiveBooking
  <1>2. TypeOK /\ NoOverlappingBookings /\ [Next]_vars => NoOverlappingBookings'
    BY ChangesStep, OverlapStep
  <1> QED BY <1>1, <1>2, TypeCorrect, PTL DEF Spec

-----------------------------------------------------------------------------
(* A stay and its booking agree *)

(* A booking that has a stay keeps its status, guest and room. *)
LEMMA MatchBookingRow ==
  ASSUME TypeOK, StayMatchesBooking, UNCHANGED stay, NEW b \in Bookings, NEW row,
         booking' = [booking EXCEPT ![b] = row],
         HasStay(b) => /\ row.status = booking[b].status
                       /\ row.guest = booking[b].guest
                       /\ row.room = booking[b].room,
         row.status = "checked_in" => HasStay(b)
  PROVE  StayMatchesBooking'
  <1>1. \A c \in Bookings : booking'[c] = IF c = b THEN row ELSE booking[c]
    BY DEF TypeOK
  <1>2. \A s \in Stays : stay[s].booking # None => stay[s] \in SomeStay
    BY DEF TypeOK, StayRow, NoStay
  <1>3. \A s \in Stays : stay[s].booking # None =>
           stay[s].booking \in Bookings /\ HasStay(stay[s].booking)
    BY <1>2 DEF SomeStay, HasStay
  <1> QED BY <1>1, <1>3 DEF StayMatchesBooking, HasStay

LEMMA MatchFrame ==
  ASSUME StayMatchesBooking, UNCHANGED <<booking, stay>>
  PROVE  StayMatchesBooking'
  BY DEF StayMatchesBooking, HasStay

(* A booking that is not checked in has no stay. *)
LEMMA NotArrived ==
  ASSUME TypeOK, StayMatchesBooking, NEW b \in Bookings, booking[b].status # "checked_in"
  PROVE  ~HasStay(b)
  BY NoneAssumption DEF StayMatchesBooking, HasStay

LEMMA MatchBooking ==
  ASSUME TypeOK, StayMatchesBooking, BookingNext
  PROVE  StayMatchesBooking'
  <1> PICK b \in Bookings :
        \/ \E g \in Guests, r \in Rooms \cup {None}, from \in Days, to \in Nights :
             CreateBooking(b, g, r, from, to)
        \/ ConfirmBooking(b)
        \/ CancelBooking(b)
        \/ MarkNoShow(b)
        \/ \E r \in Rooms \cup {None}, from \in Days, to \in Nights :
             UpdateBooking(b, r, from, to)
        \/ \E r \in Rooms : RelocateBooking(b, r)
    BY DEF BookingNext
  <1>0. booking[b] \in BookingRow /\ (booking[b].status = "checked_in" => HasStay(b))
    BY DEF TypeOK, StayMatchesBooking
  <1>1. ASSUME NEW g \in Guests, NEW r, NEW from, NEW to, CreateBooking(b, g, r, from, to)
        PROVE  StayMatchesBooking'
    BY <1>1, NotArrived, MatchBookingRow DEF CreateBooking, SetBooking
  <1>2. ASSUME NEW status, status # "checked_in", ~HasStay(b), SaveBookingStatus(b, status)
        PROVE  StayMatchesBooking'
    <2> DEFINE row == [booking[b] EXCEPT !.status = status]
    <2>1. row.status = status
      BY <1>0 DEF BookingRow
    <2>2. booking' = [booking EXCEPT ![b] = row] /\ UNCHANGED stay
      BY <1>2 DEF SaveBookingStatus
    <2> HIDE DEF row
    <2> QED BY <1>2, <2>1, <2>2, MatchBookingRow
  <1>3. CASE ConfirmBooking(b) \/ CancelBooking(b) \/ MarkNoShow(b)
    BY <1>2, <1>3, NotArrived DEF ConfirmBooking, CancelBooking, MarkNoShow
  <1>4. ASSUME NEW r, NEW from, NEW to, UpdateBooking(b, r, from, to)
        PROVE  StayMatchesBooking'
    <2> DEFINE row == [booking[b] EXCEPT !.room = r, !.from = from, !.to = to]
    <2>1. /\ row.status = booking[b].status
          /\ row.guest = booking[b].guest
          /\ row.room = r
      BY <1>0 DEF BookingRow
    <2>2. booking' = [booking EXCEPT ![b] = row]
      BY <1>4 DEF UpdateBooking
    <2>3. UNCHANGED stay /\ (HasStay(b) => r = booking[b].room)
      BY <1>4 DEF UpdateBooking
    <2> HIDE DEF row
    <2> QED BY <1>0, <2>1, <2>2, <2>3, MatchBookingRow
  <1>5. ASSUME NEW r, RelocateBooking(b, r)
        PROVE  StayMatchesBooking'
    <2> DEFINE row == [booking[b] EXCEPT !.room = r]
    <2>1. row.status = booking[b].status
      BY <1>0 DEF BookingRow
    <2>2. booking' = [booking EXCEPT ![b] = row] /\ UNCHANGED stay /\ ~HasStay(b)
      BY <1>5 DEF RelocateBooking
    <2> HIDE DEF row
    <2> QED BY <1>0, <2>1, <2>2, MatchBookingRow
  <1> QED BY <1>1, <1>3, <1>4, <1>5

LEMMA MatchStay ==
  ASSUME TypeOK, StayMatchesBooking, StayNext
  PROVE  StayMatchesBooking'
  <1> PICK s \in Stays :
        \/ \E b \in Bookings, r \in Rooms : BookingCheckIn(b, s, r)
        \/ \E g \in Guests, r \in Rooms : WalkIn(s, g, r)
        \/ CheckOut(s)
        \/ \E r \in Rooms : RelocateStay(s, r)
    BY DEF StayNext
  <1>0. /\ stay[s] \in StayRow
        /\ stay[s].status = "none" => stay[s].booking = None
    BY DEF TypeOK, StayRow, SomeStay, NoStay
  <1>1. ASSUME NEW b \in Bookings, NEW r \in Rooms, BookingCheckIn(b, s, r)
        PROVE  StayMatchesBooking'
    <2> DEFINE row == [booking[b] EXCEPT !.status = "checked_in", !.room = r]
               new == [status |-> "in_progress", room |-> r, guest |-> booking[b].guest,
                       booking |-> b]
    <2>1. row.status = "checked_in" /\ row.room = r /\ row.guest = booking[b].guest
      BY DEF TypeOK, BookingRow
    <2>2. booking' = [booking EXCEPT ![b] = row]
      BY <1>1 DEF BookingCheckIn
    <2>3. stay' = [stay EXCEPT ![s] = new]
      BY <1>1 DEF BookingCheckIn
    <2>4. stay[s].status = "none" /\ ~HasStay(b)
      BY <1>1 DEF BookingCheckIn
    <2> HIDE DEF row
    <2>5. \A c \in Bookings : booking'[c] = IF c = b THEN row ELSE booking[c]
      BY <2>2 DEF TypeOK
    <2>6. \A u \in Stays : stay'[u] = IF u = s THEN new ELSE stay[u]
      BY <2>3 DEF TypeOK
    <2>7. \A u \in Stays : stay[u].booking # b
      BY <2>4, NoneAssumption DEF HasStay, TypeOK, StayRow, NoStay, SomeStay
    <2>8. \A c \in Bookings : booking'[c].status = "checked_in" => HasStay(c)'
      <3> SUFFICES ASSUME NEW c \in Bookings, booking'[c].status = "checked_in"
                   PROVE  \E u \in Stays : stay'[u].status # "none" /\ stay'[u].booking = c
        BY DEF HasStay
      <3>1. CASE c = b
        BY <2>6, <3>1
      <3>2. CASE c # b
        <4>1. PICK u \in Stays : stay[u].status # "none" /\ stay[u].booking = c
          BY <2>5, <3>2 DEF StayMatchesBooking, HasStay
        <4> QED BY <2>4, <2>6, <4>1
      <3> QED BY <3>1, <3>2
    <2>9. \A u \in Stays : stay[u].booking # None => stay[u].booking \in Bookings
      BY DEF TypeOK, StayRow, NoStay, SomeStay
    <2> QED BY <2>1, <2>5, <2>6, <2>7, <2>8, <2>9, NoneAssumption DEF StayMatchesBooking
  <1>2. ASSUME NEW g \in Guests, NEW r \in Rooms, WalkIn(s, g, r)
        PROVE  StayMatchesBooking'
    <2>1. \A u \in Stays : stay'[u] = IF u = s THEN [status |-> "in_progress", room |-> r,
                                                    guest |-> g, booking |-> None]
                                              ELSE stay[u]
      BY <1>2 DEF WalkIn, TypeOK
    <2>2. stay[s].status = "none" /\ UNCHANGED booking
      BY <1>2 DEF WalkIn
    <2>3. \A u \in Stays : stay[u].booking # None => stay[u].booking \in Bookings
      BY DEF TypeOK, StayRow, NoStay, SomeStay
    <2> QED BY <1>0, <2>1, <2>2, <2>3, NoneAssumption DEF StayMatchesBooking, HasStay
  <1>3. CASE CheckOut(s)
    <2>1. stay[s] \in SomeStay
      BY <1>3, Rows DEF CheckOut
    <2> DEFINE new == [stay[s] EXCEPT !.status = "completed"]
    <2>2. /\ new.status # "none" /\ new.booking = stay[s].booking
          /\ new.guest = stay[s].guest /\ new.room = stay[s].room
      BY <2>1 DEF SomeStay
    <2>3. stay' = [stay EXCEPT ![s] = new]
      BY <1>3 DEF CheckOut
    <2> HIDE DEF new
    <2>4. \A u \in Stays : stay'[u] = IF u = s THEN new ELSE stay[u]
      BY <2>3 DEF TypeOK
    <2>5. UNCHANGED booking /\ stay[s].status # "none"
      BY <1>3 DEF CheckOut
    <2> QED BY <2>2, <2>4, <2>5 DEF StayMatchesBooking, HasStay
  <1>4. ASSUME NEW r \in Rooms, RelocateStay(s, r)
        PROVE  StayMatchesBooking'
    <2>1. stay[s] \in SomeStay /\ stay[s].status # "none"
      BY <1>4, Rows DEF RelocateStay
    <2> DEFINE new == [stay[s] EXCEPT !.room = r]
               b == stay[s].booking
    <2>2. /\ new.status = stay[s].status /\ new.booking = b
          /\ new.guest = stay[s].guest /\ new.room = r
      BY <2>1 DEF SomeStay
    <2>3. stay' = [stay EXCEPT ![s] = new]
      BY <1>4 DEF RelocateStay
    <2> HIDE DEF new
    <2>4. \A u \in Stays : stay'[u] = IF u = s THEN new ELSE stay[u]
      BY <2>3 DEF TypeOK
    <2>5. b # None => b \in Bookings
      BY <2>1 DEF SomeStay
    <2>6. \A c \in Bookings : /\ booking'[c].status = booking[c].status
                             /\ booking'[c].guest = booking[c].guest
                             /\ booking'[c].room = IF c = b THEN r ELSE booking[c].room
      <3>1. CASE b = None
        BY <1>4, <3>1, NoneAssumption DEF RelocateStay
      <3>2. CASE b # None
        <4>1. booking' = [booking EXCEPT ![b].room = r]
          BY <1>4, <3>2 DEF RelocateStay
        <4> QED BY <2>5, <3>2, <4>1 DEF TypeOK, BookingRow
      <3> QED BY <3>1, <3>2
    <2>7. \A u \in Stays : stay'[u].status = "none" <=> stay[u].status = "none"
      BY <2>2, <2>4
    <2>8. \A u \in Stays : stay'[u].booking = stay[u].booking /\ stay'[u].guest = stay[u].guest
      BY <2>2, <2>4
    <2>9. \A u \in Stays : stay[u].booking # None => stay[u].booking \in Bookings
      BY DEF TypeOK, StayRow, NoStay, SomeStay
    <2>10. \A c \in Bookings : booking'[c].status = "checked_in" => HasStay(c)'
      BY <2>6, <2>7, <2>8 DEF StayMatchesBooking, HasStay
    <2>11. ASSUME NEW u \in Stays, stay'[u].booking # None
           PROVE  booking'[stay'[u].booking].room = stay'[u].room
      <3>1. CASE u = s
        BY <2>2, <2>4, <2>5, <2>6, <2>8, <2>11, <3>1
      <3>2. CASE u # s
        <4>1. stay[u].booking # b
          BY <2>8, <2>11, <3>2 DEF StayMatchesBooking
        <4> QED BY <2>4, <2>6, <2>8, <2>9, <2>11, <3>2, <4>1 DEF StayMatchesBooking
      <3> QED BY <3>1, <3>2
    <2>12. ASSUME NEW u \in Stays, stay'[u].booking # None
           PROVE  /\ booking'[stay'[u].booking].status = "checked_in"
                  /\ booking'[stay'[u].booking].guest = stay'[u].guest
                  /\ \A v \in Stays : stay'[v].booking = stay'[u].booking => v = u
      BY <2>6, <2>8, <2>9, <2>12 DEF StayMatchesBooking
    <2> QED BY <2>10, <2>11, <2>12 DEF StayMatchesBooking
  <1> QED BY <1>1, <1>2, <1>3, <1>4

LEMMA MatchDayUse ==
  ASSUME TypeOK, StayMatchesBooking, DayUseNext
  PROVE  StayMatchesBooking'
  <1>1. ASSUME NEW d \in DayUses, NEW b \in Bookings, NEW g \in Guests, NEW to \in Nights,
               ConvertToNight(d, b, g, to)
        PROVE  StayMatchesBooking'
    BY <1>1, NotArrived, MatchBookingRow DEF ConvertToNight, SetBooking
  <1>2. ASSUME NEW d \in DayUses,
               \/ \E r \in Rooms, day \in Days : CreateDayUse(d, r, day)
               \/ \E r \in Rooms, day \in Days : UpdateDayUse(d, r, day)
               \/ \E from, to : MoveDayUse(d, from, to)
               \/ DayUseCheckOut(d)
        PROVE  UNCHANGED <<booking, stay>>
    BY <1>2 DEF CreateDayUse, UpdateDayUse, MoveDayUse, DayUseCheckOut
  <1>3. \/ UNCHANGED <<booking, stay>>
        \/ \E d \in DayUses, b \in Bookings, g \in Guests, to \in Nights :
             ConvertToNight(d, b, g, to)
    BY <1>2 DEF DayUseNext, DayUseCheckIn, CloseDayUse, DetectOvertime
  <1> QED BY <1>1, <1>3, MatchFrame

(* A booking is checked in exactly when it has a stay, one stay, of its    *)
(* guest and in its room, after any mix of relocations and check-outs.     *)
THEOREM StayAgreesWithBooking == Spec => []StayMatchesBooking
  <1>1. Init => StayMatchesBooking
    BY DEF Init, StayMatchesBooking, NoBooking, NoStay
  <1>2. TypeOK /\ StayMatchesBooking /\ [Next]_vars => StayMatchesBooking'
    <2> SUFFICES ASSUME TypeOK, StayMatchesBooking, [Next]_vars
                 PROVE  StayMatchesBooking'
      OBVIOUS
    <2>1. CASE RoomNext \/ NextDay \/ UNCHANGED vars
      BY <2>1, MatchFrame DEF RoomNext, CreateTask, SaveTask, CompleteCleaning,
         SaveIncident, DeleteTask, DeleteIncident, SyncRoom, NextDay, vars
    <2> QED BY <2>1, MatchBooking, MatchStay, MatchDayUse DEF Next
  <1> QED BY <1>1, <1>2, TypeCorrect, PTL DEF Spec

-----------------------------------------------------------------------------
(* The front desk implements RoomNights *)

DatesInOrder == \A b \in Bookings : booking[b].status # "none" => booking[b].from < booking[b].to

LEMMA DatesStep ==
  ASSUME TypeOK, DatesInOrder, [Next]_vars
  PROVE  DatesInOrder'
  <1>1. CASE UNCHANGED booking
    BY <1>1 DEF DatesInOrder
  <1>2. ASSUME NEW b \in Bookings, NEW row \in BookingRow, Rewrites(b, row)
        PROVE  DatesInOrder'
    BY <1>2 DEF DatesInOrder, Rewrites, TypeOK
  <1> QED BY <1>1, <1>2, ChangesStep DEF BookingChanges

(* A row that is active in a room holds its nights: no other booking holds *)
(* one of them.                                                            *)
LEMMA RowHolds ==
  ASSUME TypeOK, NEW b \in Bookings, NEW row \in BookingRow, Rewrites(b, row),
         row.from < row.to, row.room # None, row.status \in ActiveBooking
  PROVE  Reservations!Hold(b)
  <1> DEFINE nights == Reservations!NightsOf(row.room, row.from, row.to)
  <1>1. row.room \in Rooms /\ row.from \in 0..LastDay /\ row.to \in 0..(LastDay + 1)
    BY DEF BookingRow, Days, Nights
  <1>2. RoomFree(row.room, row.from, row.to, b)
    BY DEF Rewrites, FreeRow
  <1>3. Reservations!FreeFor(b, nights)
    <2> SUFFICES ASSUME NEW c \in Bookings \ {b}, NEW n \in HeldNights[c], n \in nights
                 PROVE  FALSE
      BY DEF Reservations!FreeFor
    <2>1. /\ booking[c].room # None /\ booking[c].status \in ActiveBooking
          /\ n \in {booking[c].room} \X (booking[c].from..(booking[c].to - 1))
      BY DEF HeldNights
    <2>2. /\ booking[c].from \in Int /\ booking[c].to \in Int
          /\ row.from \in Int /\ row.to \in Int
      BY BoundsAssumption DEF TypeOK, BookingRow, Days, Nights
    <2>3. /\ n[1] = booking[c].room /\ n[1] = row.room
          /\ n[2] \in booking[c].from..(booking[c].to - 1)
          /\ n[2] \in row.from..(row.to - 1)
      BY <2>1 DEF Reservations!NightsOf
    <2>4. Overlap(c, row.from, row.to)
      BY <2>2, <2>3 DEF Overlap
    <2> QED BY <1>2, <2>1, <2>3, <2>4 DEF RoomFree
  <1>4. HeldNights' = [HeldNights EXCEPT ![b] = nights]
    <2>1. \A c \in Bookings : booking'[c] = IF c = b THEN row ELSE booking[c]
      BY DEF Rewrites, TypeOK
    <2> QED BY <2>1 DEF HeldNights, Reservations!NightsOf
  <1> QED BY <1>1, <1>3, <1>4 DEF Reservations!Hold

LEMMA RowReleases ==
  ASSUME TypeOK, NEW b \in Bookings, NEW row, booking' = [booking EXCEPT ![b] = row],
         row.room = None \/ row.status \notin ActiveBooking
  PROVE  HeldNights' = [HeldNights EXCEPT ![b] = {}]
  <1>1. \A c \in Bookings : booking'[c] = IF c = b THEN row ELSE booking[c]
    BY DEF TypeOK
  <1> QED BY <1>1 DEF HeldNights

(* Only a check-in gives a booking a stay, and none loses it. *)
LEMMA StaysOfBookings ==
  ASSUME TypeOK, StayMatchesBooking, [Next]_vars
  PROVE  \/ \A c \in Bookings : HasStay(c)' <=> HasStay(c)
         \/ \E b \in Bookings, s \in Stays, r \in Rooms : BookingCheckIn(b, s, r)
  <1>1. CASE UNCHANGED stay
    BY <1>1 DEF HasStay
  <1>2. ASSUME NEW s \in Stays, NEW row, stay' = [stay EXCEPT ![s] = row],
               row.booking = stay[s].booking,
               stay[s].booking # None => row.status # "none" /\ stay[s].status # "none"
        PROVE  \A c \in Bookings : HasStay(c)' <=> HasStay(c)
    <2>1. \A u \in Stays : stay'[u] = IF u = s THEN row ELSE stay[u]
      BY <1>2 DEF TypeOK
    <2> QED BY <1>2, <2>1, NoneAssumption DEF HasStay
  <1>3. ASSUME NEW s \in Stays, NEW g \in Guests, NEW r \in Rooms, WalkIn(s, g, r)
        PROVE  \A c \in Bookings : HasStay(c)' <=> HasStay(c)
    <2>1. stay[s].booking = None
      BY <1>3 DEF WalkIn, TypeOK, StayRow, SomeStay, NoStay
    <2> QED BY <1>2, <1>3, <2>1 DEF WalkIn
  <1>4. ASSUME NEW s \in Stays, CheckOut(s)
        PROVE  \A c \in Bookings : HasStay(c)' <=> HasStay(c)
    <2> DEFINE row == [stay[s] EXCEPT !.status = "completed"]
    <2>1. stay[s] \in SomeStay /\ stay[s].status = "in_progress"
      BY <1>4, Rows DEF CheckOut
    <2>2. row.booking = stay[s].booking /\ row.status = "completed"
      BY <2>1 DEF SomeStay
    <2>3. stay' = [stay EXCEPT ![s] = row]
      BY <1>4 DEF CheckOut
    <2> HIDE DEF row
    <2> QED BY <1>2, <2>1, <2>2, <2>3
  <1>5. ASSUME NEW s \in Stays, NEW r \in Rooms, RelocateStay(s, r)
        PROVE  \A c \in Bookings : HasStay(c)' <=> HasStay(c)
    <2> DEFINE row == [stay[s] EXCEPT !.room = r]
    <2>1. stay[s] \in SomeStay /\ stay[s].status = "in_progress"
      BY <1>5, Rows DEF RelocateStay
    <2>2. row.booking = stay[s].booking /\ row.status = stay[s].status
      BY <2>1 DEF SomeStay
    <2>3. stay' = [stay EXCEPT ![s] = row]
      BY <1>5 DEF RelocateStay
    <2> HIDE DEF row
    <2> QED BY <1>2, <2>1, <2>2, <2>3
  <1>6. CASE BookingNext
    BY <1>1, <1>6, BookingMovesNobody
  <1>7. CASE DayUseNext
    BY <1>1, <1>7 DEF DayUseNext, CreateDayUse, UpdateDayUse, DayUseCheckIn, CloseDayUse,
       DetectOvertime, MoveDayUse, DayUseCheckOut, ConvertToNight
  <1>8. CASE RoomNext
    BY <1>1, <1>8, RoomMovesNobody
  <1>9. CASE NextDay \/ UNCHANGED vars
    BY <1>1, <1>9 DEF NextDay, vars
  <1> QED BY <1>3, <1>4, <1>5, <1>6, <1>7, <1>8, <1>9 DEF Next, StayNext

(* A booking with a stay is checked in and in a room after the step too. *)
LEMMA ArrivedHolds ==
  ASSUME TypeOK', StayMatchesBooking', NEW b \in Bookings, HasStay(b)'
  PROVE  booking'[b].status = "checked_in" /\ booking'[b].room # None
  <1>1. PICK s \in Stays : stay'[s].status # "none" /\ stay'[s].booking = b
    BY DEF HasStay
  <1>2. stay'[s].room # None
    BY <1>1, NoneAssumption DEF TypeOK, StayRow, SomeStay, NoStay
  <1> QED BY <1>1, <1>2, NoneAssumption DEF StayMatchesBooking

LEMMA RefinementStep ==
  ASSUME TypeOK, StayMatchesBooking, StayMatchesBooking', DatesInOrder, TypeOK', [Next]_vars
  PROVE  Reservations!Next \/ UNCHANGED <<HeldNights, {b \in Bookings : HasStay(b)}>>
  <1> DEFINE arrived == {b \in Bookings : HasStay(b)}
  <1>1. CASE UNCHANGED booking /\ UNCHANGED arrived
    <2>1. UNCHANGED HeldNights
      BY <1>1 DEF HeldNights
    <2> QED BY <1>1, <2>1
  <1>2. ASSUME NEW b \in Bookings, NEW row \in BookingRow, Rewrites(b, row),
               UNCHANGED arrived
        PROVE  Reservations!Next
    <2>0. booking'[b] = row
      BY <1>2 DEF Rewrites, TypeOK
    <2>1. CASE row.room # None /\ row.status \in ActiveBooking
      <3>1. row.from < row.to
        BY <1>2, <2>1 DEF Rewrites, DatesInOrder, ActiveBooking
      <3>2. Reservations!Hold(b)
        BY <1>2, <2>1, <3>1, RowHolds
      <3> QED BY <1>2, <3>2 DEF Reservations!Next, Reservations!Reserve
    <2>2. CASE row.room = None \/ row.status \notin ActiveBooking
      <3>1. HeldNights' = [HeldNights EXCEPT ![b] = {}]
        BY <1>2, <2>2, RowReleases DEF Rewrites
      <3>2. b \notin arrived
        <4> SUFFICES ASSUME b \in arrived' PROVE FALSE
          BY <1>2
        <4>1. booking'[b].status = "checked_in" /\ booking'[b].room # None
          BY ArrivedHolds
        <4> QED BY <2>0, <2>2, <4>1 DEF ActiveBooking
      <3> QED BY <1>2, <3>1, <3>2 DEF Reservations!Next, Reservations!Release
    <2> QED BY <2>1, <2>2
  <1>3. ASSUME NEW b \in Bookings, NEW s \in Stays, NEW r \in Rooms, BookingCheckIn(b, s, r)
        PROVE  Reservations!Next
    <2> DEFINE row == [booking[b] EXCEPT !.status = "checked_in", !.room = r]
    <2>1. /\ row \in BookingRow /\ row.room = r /\ row.status = "checked_in"
          /\ row.from = booking[b].from /\ row.to = booking[b].to
      BY DEF TypeOK, BookingRow, ActiveBooking
    <2>2. Savable(b, r, booking[b].from, booking[b].to, "checked_in")
      BY <1>3 DEF BookingCheckIn
    <2>3. booking' = [booking EXCEPT ![b] = row]
      BY <1>3 DEF BookingCheckIn
    <2> HIDE DEF row
    <2>4. Reservations!Hold(b)
      <3>1. Rewrites(b, row) /\ row.from < row.to /\ row.room # None
        BY <2>1, <2>2, <2>3, NoneAssumption DEF Rewrites, FreeRow, Savable
      <3> QED BY <2>1, <3>1, RowHolds DEF ActiveBooking
    <2>5. b \notin arrived
      BY <1>3 DEF BookingCheckIn
    <2>6. arrived' = arrived \cup {b}
      <3>1. stay' = [stay EXCEPT ![s] = [status |-> "in_progress", room |-> r,
                                         guest |-> booking[b].guest, booking |-> b]]
        BY <1>3 DEF BookingCheckIn
      <3>2. stay[s].status = "none"
        BY <1>3 DEF BookingCheckIn
      <3>3. /\ stay'[s].status = "in_progress" /\ stay'[s].booking = b
            /\ \A u \in Stays : u # s => stay'[u] = stay[u]
        BY <3>1 DEF TypeOK
      <3> QED BY <3>2, <3>3 DEF HasStay
    <2> QED BY <2>4, <2>5, <2>6 DEF Reservations!Next, Reservations!Arrive
  <1>4. CASE \A c \in Bookings : HasStay(c)' <=> HasStay(c)
    <2>1. UNCHANGED arrived
      BY <1>4
    <2> QED BY <1>1, <1>2, <2>1, ChangesStep DEF BookingChanges
  <1> QED BY <1>3, <1>4, StaysOfBookings

(* The requests of the front desk keep the promise of RoomNights: nights   *)
(* are held by one booking, and an arrived guest's are not given up.       *)
THEOREM FrontDeskKeepsReservations == Spec => KeepsReservations
  <1>1. Init => Reservations!Init /\ DatesInOrder
    <2> SUFFICES ASSUME Init PROVE Reservations!Init /\ DatesInOrder
      OBVIOUS
    <2>1. HeldNights = [b \in Bookings |-> {}]
      BY DEF Init, NoBooking, HeldNights
    <2>2. {b \in Bookings : HasStay(b)} = {}
      BY DEF Init, NoStay, HasStay
    <2> QED BY <2>1, <2>2 DEF Reservations!Init, Init, NoBooking, DatesInOrder
  <1>2. TypeOK /\ DatesInOrder /\ [Next]_vars => DatesInOrder'
    BY DatesStep
  <1>3. TypeOK /\ TypeOK' /\ StayMatchesBooking /\ StayMatchesBooking' /\ DatesInOrder
          /\ [Next]_vars => [Reservations!Next]_(Reservations!reservations)
    BY RefinementStep DEF Reservations!reservations
  <1> QED
    BY <1>1, <1>2, <1>3, TypeCorrect, StayAgreesWithBooking, PTL
       DEF Spec, KeepsReservations, Reservations!Spec
=============================================================================
