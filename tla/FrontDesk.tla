------------------------------ MODULE FrontDesk ------------------------------
(***************************************************************************)
(* The front desk of one hotel: reservations (Booking), stays (Stay), day  *)
(* uses (DayUse), housekeeping tasks, maintenance incidents and the room   *)
(* status that the code derives from all of them and caches in Room.status.*)
(*                                                                         *)
(* Every action is one request handled from beginning to end without       *)
(* another request in between; DeskRequests.tla takes the requests apart.  *)
(*                                                                         *)
(* Abstractions.  All rooms are active and of one type with enough         *)
(* capacity.  Money is left out: a guard that needs a payment (deposit,    *)
(* check-out policy, prepaid day use) may or may not hold, so the action   *)
(* may or may not happen.  Dates are day numbers; hours of a day use are   *)
(* dropped, hence so is the comparison of the hours of two day uses, and a *)
(* day use ends on the day it starts.  The Django admin pages, which write *)
(* any column, are outside.                                                *)
(***************************************************************************)
EXTENDS Integers

CONSTANTS
  Rooms,        \* the rooms of the hotel
  Guests,       \* the guests known to the hotel
  Bookings,     \* identifiers of Booking rows
  Stays,        \* identifiers of Stay rows
  DayUses,      \* identifiers of DayUse rows
  None,         \* the SQL NULL of a foreign key
  LastDay,      \* bound: the calendar stops on this day
  MaxOpen       \* bound: open tasks, and blocking incidents, per room

ASSUME BoundsAssumption == LastDay \in Nat /\ MaxOpen \in Nat \ {0}
ASSUME NoneAssumption == /\ None \notin Rooms
                         /\ None \notin Guests
                         /\ None \notin Bookings

VARIABLES
  today,        \* timezone.localdate()
  booking,      \* the Booking table
  stay,         \* the Stay table
  dayUse,       \* the DayUse table
  openTasks,    \* per room, its pending or in-progress housekeeping tasks
  blocking,     \* per room, its open incidents that mark it out of service
  roomStatus    \* Room.status, the cached operational status

vars == <<today, booking, stay, dayUse, openTasks, blocking, roomStatus>>

-----------------------------------------------------------------------------
(* Rows *)

Days == 0..LastDay
Nights == 0..(LastDay + 1)      \* a guest may leave the day after the last

RoomStatus == {"available", "occupied", "reserved", "cleaning", "out_of_service"}

ActiveBooking == {"pending", "confirmed", "checked_in"}
ClosedBooking == {"cancelled", "no_show"}

(* "none" is the status of an identifier that no row uses yet. *)
NoBooking == [status |-> "none", guest |-> None, room |-> None,
              from |-> 0, to |-> 0]
NoStay == [status |-> "none", guest |-> None, room |-> None, booking |-> None]
NoDayUse == [status |-> "none", room |-> None, day |-> 0, converted |-> FALSE]

BookingRow == [status : ActiveBooking \cup ClosedBooking \cup {"none"},
               guest : Guests \cup {None}, room : Rooms \cup {None},
               from : Days, to : Nights]

SomeStay == [status : {"in_progress", "completed"}, guest : Guests \cup {None},
             room : Rooms, booking : Bookings \cup {None}]

(* "ready" stands for pending_payment and ready, "left" for completed,     *)
(* cancelled and no_show: only money tells them apart.                     *)
SomeDayUse == [status : {"ready", "in_progress", "overtime", "left"},
               room : Rooms, day : Days, converted : BOOLEAN]

StayRow == {NoStay} \cup SomeStay
DayUseRow == {NoDayUse} \cup SomeDayUse

TypeOK ==
  /\ today \in Days
  /\ booking \in [Bookings -> BookingRow]
  /\ stay \in [Stays -> StayRow]
  /\ dayUse \in [DayUses -> DayUseRow]
  /\ openTasks \in [Rooms -> 0..MaxOpen]
  /\ blocking \in [Rooms -> 0..MaxOpen]
  /\ roomStatus \in [Rooms -> RoomStatus]

Init ==
  /\ today = 0
  /\ booking = [b \in Bookings |-> NoBooking]
  /\ stay = [s \in Stays |-> NoStay]
  /\ dayUse = [d \in DayUses |-> NoDayUse]
  /\ openTasks = [r \in Rooms |-> 0]
  /\ blocking = [r \in Rooms |-> 0]
  /\ roomStatus = [r \in Rooms |-> "available"]

-----------------------------------------------------------------------------
(* The derived status of a room (rooms/services.py).  An overtime day use  *)
(* does not count as an occupant, although its guest is still in the room. *)

StayIn(r) == \E s \in Stays : stay[s].status = "in_progress" /\ stay[s].room = r
DayUseIn(r) ==
  \E d \in DayUses : dayUse[d].status = "in_progress" /\ dayUse[d].room = r
OccupiedByStay(r) == StayIn(r)          \* mutant: day uses forgotten
Occupied(r) == StayIn(r) \/ DayUseIn(r)
Blocked(r) == blocking[r] > 0
Dirty(r) == openTasks[r] > 0
Assigned(r) ==
  \E b \in Bookings : /\ booking[b].room = r
                      /\ booking[b].status \in {"pending", "confirmed"}
                      /\ booking[b].from >= today

(* Mutant: a coming booking wins over housekeeping. *)
ResolvedBookingFirst(r) ==
  CASE Occupied(r) -> "occupied"
    [] ~Occupied(r) /\ Blocked(r) -> "out_of_service"
    [] ~Occupied(r) /\ ~Blocked(r) /\ Assigned(r) -> "reserved"
    [] ~Occupied(r) /\ ~Blocked(r) /\ ~Assigned(r) /\ Dirty(r) -> "cleaning"
    [] OTHER -> "available"

Resolved(r) ==
  CASE Occupied(r) -> "occupied"
    [] ~Occupied(r) /\ Blocked(r) -> "out_of_service"
    [] ~Occupied(r) /\ ~Blocked(r) /\ Dirty(r) -> "cleaning"
    [] ~Occupied(r) /\ ~Blocked(r) /\ ~Dirty(r) /\ Assigned(r) -> "reserved"
    [] OTHER -> "available"

(* sync_room_operational_status of some rooms (None may be among them), on *)
(* the tables that the request leaves.                                     *)
Sync(rooms) ==
  roomStatus' = [r \in Rooms |-> IF r \in rooms THEN Resolved(r)' ELSE roomStatus[r]]

-----------------------------------------------------------------------------
(* Validation of a booking (Booking.clean) *)

(* Mutant: the last night of a booking counts as free. *)
OverlapButLast(b, from, to) == booking[b].from < to /\ booking[b].to - 1 > from

Overlap(b, from, to) == booking[b].from < to /\ booking[b].to > from

(* Mutant: a booking already checked in no longer counts. *)
RoomFreeOfArrivals(r, from, to, b) ==
  \A c \in Bookings \ {b} : ~ /\ booking[c].room = r
                              /\ booking[c].status \in {"pending", "confirmed"}
                              /\ Overlap(c, from, to)

RoomFree(r, from, to, b) ==
  \A c \in Bookings \ {b} : ~ /\ booking[c].room = r
                              /\ booking[c].status \in ActiveBooking
                              /\ Overlap(c, from, to)

(* Row b may be saved with this room, these dates and this status. *)
Savable(b, r, from, to, status) ==
  /\ from < to
  /\ r # None =>
       /\ roomStatus[r] = "out_of_service" => status \in ClosedBooking
       /\ RoomFree(r, from, to, b)

(* Mutant: a completed stay no longer counts. *)
HasOpenStay(b) ==
  \E s \in Stays : stay[s].status = "in_progress" /\ stay[s].booking = b

HasStay(b) == \E s \in Stays : stay[s].status # "none" /\ stay[s].booking = b

SetBooking(b, row) == booking' = [booking EXCEPT ![b] = row]

-----------------------------------------------------------------------------
(* Reservations *)

CreateBooking(b, g, r, from, to) ==
  /\ booking[b].status = "none"
  /\ from >= today
  /\ Savable(b, r, from, to, "pending")
  /\ SetBooking(b, [status |-> "pending", guest |-> g, room |-> r,
                    from |-> from, to |-> to])
  /\ UNCHANGED <<today, stay, dayUse, openTasks, blocking>>
  /\ Sync({r})

(* The save that every change of a booking's status goes through. *)
SaveBookingStatus(b, status) ==
  /\ Savable(b, booking[b].room, booking[b].from, booking[b].to, status)
  /\ booking' = [booking EXCEPT ![b].status = status]
  /\ UNCHANGED <<today, stay, dayUse, openTasks, blocking>>
  /\ Sync({booking[b].room})

ConfirmBooking(b) ==
  /\ booking[b].status = "pending"
  /\ SaveBookingStatus(b, "confirmed")

CancelBooking(b) ==
  /\ ~HasStay(b)
  /\ booking[b].status \in {"pending", "confirmed"}
  /\ SaveBookingStatus(b, "cancelled")

(* From the desk on any day, or by the command run on overdue bookings. *)
MarkNoShow(b) ==
  /\ ~HasStay(b)
  /\ booking[b].status = "confirmed"
  /\ SaveBookingStatus(b, "no_show")

(* Whatever the status; only the room the booking now has is synchronised, *)
(* never the one it left.                                                  *)
UpdateBooking(b, r, from, to) ==
  /\ booking[b].status # "none"
  /\ HasStay(b) => r = booking[b].room
  /\ from >= today
  /\ Savable(b, r, from, to, booking[b].status)
  /\ booking' = [booking EXCEPT ![b].room = r, ![b].from = from, ![b].to = to]
  /\ UNCHANGED <<today, stay, dayUse, openTasks, blocking>>
  /\ Sync({r})

RelocateBooking(b, r) ==
  /\ booking[b].status \in {"pending", "confirmed"}
  /\ ~HasStay(b)
  /\ booking[b].room \notin {None, r}
  /\ Savable(b, r, booking[b].from, booking[b].to, booking[b].status)
  /\ booking' = [booking EXCEPT ![b].room = r]
  /\ UNCHANGED <<today, stay, dayUse, openTasks, blocking>>
  /\ Sync({booking[b].room, r})

-----------------------------------------------------------------------------
(* Stays *)

(* Stay.clean: nobody else is in the room, the guest is in no other room.  *)
NoStayConflict(s, g, r) ==
  \A u \in Stays \ {s} : stay[u].status = "in_progress" =>
                            stay[u].room # r /\ stay[u].guest # g

(* Booking check-in, in the booked room or in one chosen at the desk.  A   *)
(* reserved room is accepted: it is this booking's room by then.  The room *)
(* the booking leaves is not synchronised.                                 *)
BookingCheckIn(b, s, r) ==
  /\ booking[b].status = "confirmed"
  /\ booking[b].from <= today
  /\ stay[s].status = "none"
  /\ ~HasStay(b)
  /\ roomStatus[r] \in {"available", "reserved"}
  /\ Savable(b, r, booking[b].from, booking[b].to, "checked_in")
  /\ NoStayConflict(s, booking[b].guest, r)
  /\ stay' = [stay EXCEPT ![s] = [status |-> "in_progress", room |-> r,
                                  guest |-> booking[b].guest, booking |-> b]]
  /\ booking' = [booking EXCEPT ![b].status = "checked_in", ![b].room = r]
  /\ UNCHANGED <<today, dayUse, openTasks, blocking>>
  /\ Sync({r})

WalkIn(s, g, r) ==
  /\ stay[s].status = "none"
  /\ roomStatus[r] = "available"
  /\ NoStayConflict(s, g, r)
  /\ stay' = [stay EXCEPT ![s] = [status |-> "in_progress", room |-> r,
                                  guest |-> g, booking |-> None]]
  /\ UNCHANGED <<today, booking, dayUse, openTasks, blocking>>
  /\ Sync({r})

(* A room that was vacated goes to cleaning.  Whether a task is opened     *)
(* depends on the open ones; opening one synchronises the room, otherwise  *)
(* it stays in cleaning whatever else holds.  Other rooms are synchronised.*)
Vacate(old, opens, rooms) ==
  /\ openTasks' = IF opens THEN [openTasks EXCEPT ![old] = @ + 1] ELSE openTasks
  /\ roomStatus' = [r \in Rooms |->
        IF r = old /\ ~opens THEN "cleaning"
        ELSE IF r \in rooms \cup {old} THEN Resolved(r)' ELSE roomStatus[r]]

(* The booking keeps status checked_in and its dates.  A stay that no      *)
(* longer agrees with its booking could not be closed.                     *)
CheckOut(s) ==
  /\ stay[s].status = "in_progress"
  /\ LET b == stay[s].booking IN
       b # None => /\ booking[b].guest = stay[s].guest
                   /\ booking[b].room \in {None, stay[s].room}
  /\ NoStayConflict(s, stay[s].guest, stay[s].room)
  /\ stay' = [stay EXCEPT ![s].status = "completed"]
  /\ UNCHANGED <<today, booking, dayUse, blocking>>
  /\ Vacate(stay[s].room, ~Dirty(stay[s].room), {})

(* The new room must resolve to available; its cached status only must not *)
(* be out_of_service.                                                      *)
RelocateStay(s, r) ==
  /\ stay[s].status = "in_progress"
  /\ stay[s].room # r
  /\ roomStatus[r] # "out_of_service"
  /\ Resolved(r) = "available"
  /\ LET b == stay[s].booking IN
       IF b = None
         THEN UNCHANGED booking
         ELSE /\ RoomFree(r, booking[b].from, booking[b].to, b)
              /\ booking' = [booking EXCEPT ![b].room = r]
  /\ NoStayConflict(s, stay[s].guest, r)
  /\ stay' = [stay EXCEPT ![s].room = r]
  /\ UNCHANGED <<today, dayUse, blocking>>
  /\ Vacate(stay[s].room, ~Dirty(stay[s].room), {r})

-----------------------------------------------------------------------------
(* Day uses.  Saving one whose room is out of service is refused.          *)

NoBookingConflict(r, day) ==
  \A b \in Bookings : ~ /\ booking[b].room = r
                        /\ booking[b].status \in ActiveBooking
                        /\ Overlap(b, day, day)

SaveDayUse(d, row) ==
  /\ roomStatus[row.room] # "out_of_service"
  /\ dayUse' = [dayUse EXCEPT ![d] = row]

CreateDayUse(d, r, day) ==
  /\ dayUse[d].status = "none"
  /\ roomStatus[r] = "available"
  /\ NoBookingConflict(r, day)
  /\ SaveDayUse(d, [status |-> "ready", room |-> r, day |-> day, converted |-> FALSE])
  /\ UNCHANGED <<today, booking, stay, openTasks, blocking>>
  /\ Sync({r})

(* Only the room the day use now has is synchronised. *)
UpdateDayUse(d, r, day) ==
  /\ dayUse[d].status = "ready"
  /\ roomStatus[r] = "available"
  /\ NoBookingConflict(r, day)
  /\ SaveDayUse(d, [dayUse[d] EXCEPT !.room = r, !.day = day])
  /\ UNCHANGED <<today, booking, stay, openTasks, blocking>>
  /\ Sync({r})

(* Mutant: the room is not synchronised. *)
MoveDayUseSilently(d, from, to) ==
  /\ dayUse[d].status \in from
  /\ SaveDayUse(d, [dayUse[d] EXCEPT !.status = to])
  /\ UNCHANGED <<today, booking, stay, openTasks, blocking, roomStatus>>

MoveDayUse(d, from, to) ==
  /\ dayUse[d].status \in from
  /\ SaveDayUse(d, [dayUse[d] EXCEPT !.status = to])
  /\ UNCHANGED <<today, booking, stay, openTasks, blocking>>
  /\ Sync({dayUse[d].room})

DayUseCheckIn(d) ==
  /\ dayUse[d].status = "ready"
  /\ roomStatus[dayUse[d].room] = "available"
  /\ NoBookingConflict(dayUse[d].room, dayUse[d].day)
  /\ MoveDayUse(d, {"ready"}, "in_progress")

CloseDayUse(d) == MoveDayUse(d, {"ready"}, "left")      \* cancel and no_show

DetectOvertime(d) == MoveDayUse(d, {"in_progress"}, "overtime")

(* get_or_create looks for a pending task only: with an in-progress one a  *)
(* second task is opened.                                                  *)
DayUseCheckOut(d) ==
  /\ dayUse[d].status \in {"in_progress", "overtime"}
  /\ SaveDayUse(d, [dayUse[d] EXCEPT !.status = "left"])
  /\ UNCHANGED <<today, booking, stay, blocking>>
  /\ \E opens \in BOOLEAN :
       /\ opens => openTasks[dayUse[d].room] < MaxOpen
       /\ ~opens => Dirty(dayUse[d].room)
       /\ Vacate(dayUse[d].room, opens, {})

(* Creates a confirmed booking, whatever deposit the hotel asks for. *)
ConvertToNight(d, b, g, to) ==
  LET r == dayUse[d].room IN
  /\ dayUse[d].status \in {"ready", "in_progress", "overtime"}
  /\ ~dayUse[d].converted
  /\ booking[b].status = "none"
  /\ Savable(b, r, dayUse[d].day, to, "confirmed")
  /\ SetBooking(b, [status |-> "confirmed", guest |-> g, room |-> r,
                    from |-> dayUse[d].day, to |-> to])
  /\ SaveDayUse(d, [dayUse[d] EXCEPT !.converted = TRUE])
  /\ UNCHANGED <<today, stay, openTasks, blocking>>
  /\ Sync({r})

-----------------------------------------------------------------------------
(* Housekeeping and maintenance *)

(* Creating a task sends the room to cleaning, even an occupied one, even  *)
(* when the task is created already completed.                             *)
CreateTask(r, isOpen) ==
  /\ isOpen => openTasks[r] < MaxOpen
  /\ openTasks' = [openTasks EXCEPT ![r] = IF isOpen THEN @ + 1 ELSE @]
  /\ UNCHANGED <<today, booking, stay, dayUse, blocking>>
  /\ roomStatus' = [roomStatus EXCEPT ![r] = "cleaning"]

(* A saved task opened or closed: start, complete and the plain update     *)
(* accept a task in any status.                                            *)
SaveTask(r, change) ==
  /\ openTasks[r] + change \in 0..MaxOpen
  /\ openTasks' = [openTasks EXCEPT ![r] = @ + change]
  /\ UNCHANGED <<today, booking, stay, dayUse, blocking>>
  /\ Sync({r})

CompleteCleaning(r) ==
  /\ roomStatus[r] = "cleaning"
  /\ UNCHANGED <<today, booking, stay, dayUse, openTasks, blocking>>
  /\ Sync({r})

(* Mutant: nothing is synchronised. *)
SaveIncidentSilently(r, change) ==
  /\ blocking[r] + change \in 0..MaxOpen
  /\ blocking' = [blocking EXCEPT ![r] = @ + change]
  /\ UNCHANGED <<today, booking, stay, dayUse, openTasks, roomStatus>>

(* An incident that marks the room out of service is reported or resolved. *)
SaveIncident(r, change) ==
  /\ blocking[r] + change \in 0..MaxOpen
  /\ blocking' = [blocking EXCEPT ![r] = @ + change]
  /\ UNCHANGED <<today, booking, stay, dayUse, openTasks>>
  /\ Sync({r})

(* Mutant: a repeated DELETE counts twice. *)
DeleteTaskAgain(r) ==
  /\ openTasks' = [openTasks EXCEPT ![r] = @ - 1]
  /\ UNCHANGED <<today, booking, stay, dayUse, blocking, roomStatus>>

(* Deleting a row through the view set synchronises nothing. *)
DeleteTask(r) ==
  /\ openTasks[r] > 0
  /\ openTasks' = [openTasks EXCEPT ![r] = @ - 1]
  /\ UNCHANGED <<today, booking, stay, dayUse, blocking, roomStatus>>

DeleteIncident(r) ==
  /\ blocking[r] > 0
  /\ blocking' = [blocking EXCEPT ![r] = @ - 1]
  /\ UNCHANGED <<today, booking, stay, dayUse, openTasks, roomStatus>>

(* The dashboards, the suggestions and the room forms synchronise a room   *)
(* at any moment, and so does a save that changes nothing modelled here    *)
(* (update of a stay, extension of a day use).                             *)
SyncRoom(r) ==
  /\ UNCHANGED <<today, booking, stay, dayUse, openTasks, blocking>>
  /\ Sync({r})

NextDay ==
  /\ today < LastDay
  /\ today' = today + 1
  /\ UNCHANGED <<booking, stay, dayUse, openTasks, blocking, roomStatus>>

-----------------------------------------------------------------------------
BookingNext ==
  \E b \in Bookings :
    \/ \E g \in Guests, r \in Rooms \cup {None}, from \in Days, to \in Nights :
         CreateBooking(b, g, r, from, to)
    \/ ConfirmBooking(b)
    \/ CancelBooking(b)
    \/ MarkNoShow(b)
    \/ \E r \in Rooms \cup {None}, from \in Days, to \in Nights :
         UpdateBooking(b, r, from, to)
    \/ \E r \in Rooms : RelocateBooking(b, r)

StayNext ==
  \E s \in Stays :
    \/ \E b \in Bookings, r \in Rooms : BookingCheckIn(b, s, r)
    \/ \E g \in Guests, r \in Rooms : WalkIn(s, g, r)
    \/ CheckOut(s)
    \/ \E r \in Rooms : RelocateStay(s, r)

DayUseNext ==
  \E d \in DayUses :
    \/ \E r \in Rooms, day \in Days : CreateDayUse(d, r, day)
    \/ \E r \in Rooms, day \in Days : UpdateDayUse(d, r, day)
    \/ DayUseCheckIn(d)
    \/ CloseDayUse(d)
    \/ DetectOvertime(d)
    \/ DayUseCheckOut(d)
    \/ \E b \in Bookings, g \in Guests, to \in Nights : ConvertToNight(d, b, g, to)

RoomNext ==
  \E r \in Rooms :
    \/ \E isOpen \in BOOLEAN : CreateTask(r, isOpen)
    \/ \E change \in {-1, 1} : SaveTask(r, change)
    \/ CompleteCleaning(r)
    \/ \E change \in {-1, 1} : SaveIncident(r, change)
    \/ DeleteTask(r)
    \/ DeleteIncident(r)
    \/ SyncRoom(r)

Next == BookingNext \/ StayNext \/ DayUseNext \/ RoomNext \/ NextDay

Spec == Init /\ [][Next]_vars

-----------------------------------------------------------------------------
(* Safety *)

(* The cached room status is never more optimistic than the tables: a room *)
(* shown available or reserved has no occupant, no open task, no blocking  *)
(* incident, an available one moreover no assigned booking still to come;  *)
(* a room shown occupied has an occupant and one shown out of service has  *)
(* none.  Only "cleaning" may be stale in any way.  The check-in guards    *)
(* read nothing but this cache.                                            *)
StatusSound(r) ==
  /\ roomStatus[r] \in {"available", "reserved"} =>
       ~Occupied(r) /\ ~Blocked(r) /\ ~Dirty(r)
  /\ roomStatus[r] = "available" => ~Assigned(r)
  /\ roomStatus[r] = "occupied" => Occupied(r)
  /\ roomStatus[r] = "out_of_service" => ~Occupied(r)

CachedStatusSound == \A r \in Rooms : StatusSound(r)

(* Two stays in progress are never in one room, nor two day uses, nor a    *)
(* stay and a day use: stays and day uses do not look at one another, only *)
(* the cached status keeps them apart.                                     *)
OccupancyExclusive ==
  /\ \A s, u \in Stays :
       /\ stay[s].status = "in_progress" /\ stay[u].status = "in_progress"
       /\ stay[s].room = stay[u].room
       => s = u
  /\ \A d, e \in DayUses :
       /\ dayUse[d].status = "in_progress" /\ dayUse[e].status = "in_progress"
       /\ dayUse[d].room = dayUse[e].room
       => d = e
  /\ \A s \in Stays, d \in DayUses :
       ~ /\ stay[s].status = "in_progress" /\ dayUse[d].status = "in_progress"
         /\ stay[s].room = dayUse[d].room

(* Two active bookings of one room never share a night, through creation,  *)
(* change, relocation, check-in in another room, relocation of the stay    *)
(* and conversion of a day use.                                            *)
NoOverlappingBookings ==
  \A b, c \in Bookings :
    /\ booking[b].status \in ActiveBooking /\ booking[c].status \in ActiveBooking
    /\ booking[b].room # None /\ booking[b].room = booking[c].room
    /\ Overlap(b, booking[c].from, booking[c].to)
    => b = c

(* A booking is checked in exactly when it has a stay; it has one stay, of *)
(* its guest, in its room, also after check-out and relocation.            *)
StayMatchesBooking ==
  /\ \A b \in Bookings : booking[b].status = "checked_in" => HasStay(b)
  /\ \A s \in Stays : stay[s].booking # None =>
       LET b == stay[s].booking IN
       /\ booking[b].status = "checked_in"
       /\ booking[b].guest = stay[s].guest
       /\ booking[b].room = stay[s].room
       /\ \A u \in Stays : stay[u].booking = b => u = s

(* The nights that bookings hold: the front desk keeps the promise of      *)
(* RoomNights, also when rooms are chosen at check-in, stays move and day  *)
(* uses become nights.                                                     *)
HeldNights == [b \in Bookings |->
  IF booking[b].room # None /\ booking[b].status \in ActiveBooking
    THEN {booking[b].room} \X (booking[b].from..(booking[b].to - 1))
    ELSE {}]

Reservations == INSTANCE RoomNights WITH held <- HeldNights,
                                         arrived <- {b \in Bookings : HasStay(b)}

KeepsReservations == Reservations!Spec

(* A stay that starts or moves, and a day use that starts, finds its new   *)
(* room without occupant, clean and in service.                            *)
Enters(r) ==
  \/ \E s \in Stays : /\ stay'[s].status = "in_progress" /\ stay'[s].room = r
                      /\ ~(stay[s].status = "in_progress" /\ stay[s].room = r)
  \/ \E d \in DayUses : /\ dayUse'[d].status = "in_progress" /\ dayUse'[d].room = r
                        /\ ~(dayUse[d].status = "in_progress" /\ dayUse[d].room = r)

ArrivalsInFitRooms ==
  [][\A r \in Rooms : Enters(r) => ~Occupied(r) /\ ~Blocked(r) /\ ~Dirty(r)]_vars

(* docs/business_rules.md: a room becomes available by hand after          *)
(* housekeeping has validated it, so never straight from occupied.         *)
CleanedBeforeAvailable ==
  [][\A r \in Rooms : roomStatus[r] = "occupied" => roomStatus'[r] # "available"]_vars

(* docs/business_rules.md: "reserved" is the status of a room with a       *)
(* confirmed booking, "available" that of a room that may be sold.         *)
ConfirmedRoomNotForSale ==
  \A b \in Bookings :
    /\ booking[b].status = "confirmed" /\ booking[b].room # None
    /\ booking[b].from <= today /\ today < booking[b].to
    => roomStatus[booking[b].room] # "available"
=============================================================================
