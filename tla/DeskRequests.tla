---------------------------- MODULE DeskRequests ----------------------------
(***************************************************************************)
(* The front desk of FrontDesk.tla with requests that interleave.  A       *)
(* worker loads rows into objects, checks them, and writes later; in       *)
(* between other workers commit.  The database is PostgreSQL with its      *)
(* default isolation: a statement outside transaction.atomic commits at    *)
(* once, a transaction becomes visible when it commits.                    *)
(*                                                                         *)
(* A transaction that locks its rows (select_for_update) before it reads   *)
(* them is one step: a booking that is created or relocated, a relocated   *)
(* stay, the check-in and check-out of a day use, its conversion.  So is   *)
(* each locked part of the other requests.  What they read before their    *)
(* lock, or without one, is a step of its own.                             *)
(*                                                                         *)
(* Left out here: the check-in in a room chosen at the desk, the changes   *)
(* of a day use other than those above, incidents and manual tasks.        *)
(***************************************************************************)
EXTENDS FrontDesk

CONSTANTS
  Workers,      \* the server's threads
  Traffic       \* bound: the kinds of requests that arrive

VARIABLE worker     \* the request each worker is serving

tables == <<today, booking, stay, dayUse, openTasks, blocking>>
deskVars == <<today, booking, stay, dayUse, openTasks, blocking, roomStatus, worker>>

-----------------------------------------------------------------------------
(* A request is what its worker holds in memory. *)

Idle == [pc |-> "idle"]

(* A guest to check in, with a booking or without; shown is room.status as *)
(* it was loaded.                                                          *)
Arrival == [pc : {"validate", "insert"}, booking : Bookings \cup {None},
            guest : Guests \cup {None}, room : Rooms, shown : RoomStatus]
Departure == [pc : {"depart"}, stay : Stays, room : Rooms]

(* A booking to save: all of its columns, or its status only. *)
Change == [pc : {"save"}, booking : Bookings, row : BookingRow, all : BOOLEAN]
Closing == [pc : {"close"}, dayUse : DayUses]

(* sync_room_operational_status: compute the status, store it if it is not *)
(* the one that was loaded.                                                *)
Refresh == [pc : {"resolve"}, room : Rooms, shown : RoomStatus]
Store == [pc : {"store"}, room : Rooms, target : RoomStatus]

Request == {Idle} \cup Arrival \cup Departure \cup Change \cup Closing
           \cup Refresh \cup Store

DeskTypeOK == TypeOK /\ worker \in [Workers -> Request]

DeskInit == Init /\ worker = [w \in Workers |-> Idle]

At(w, pc) == worker[w].pc = pc
Becomes(w, request) == worker' = [worker EXCEPT ![w] = request]

(* An idle worker takes a request and loads its objects. *)
Take(w, kind, request) ==
  /\ kind \in Traffic
  /\ worker[w] = Idle
  /\ Becomes(w, request)
  /\ UNCHANGED vars

RefreshOf(r) == [pc |-> "resolve", room |-> r, shown |-> roomStatus[r]]

-----------------------------------------------------------------------------
(* The dashboards, and the end of the requests that save without a lock *)

LoadDashboard(w, r) == Take(w, "dashboard", RefreshOf(r))

(* Mutant: an occupied room is left to its check-out. *)
ResolveUnlessOccupied(w) ==
  LET q == worker[w] IN
  /\ At(w, "resolve")
  /\ Becomes(w, IF q.shown \in {"occupied", Resolved(q.room)} THEN Idle
                ELSE [pc |-> "store", room |-> q.room, target |-> Resolved(q.room)])
  /\ UNCHANGED vars

Resolve(w) ==
  LET q == worker[w] IN
  /\ At(w, "resolve")
  /\ Becomes(w, IF q.shown = Resolved(q.room) THEN Idle
                ELSE [pc |-> "store", room |-> q.room, target |-> Resolved(q.room)])
  /\ UNCHANGED vars

StoreStatus(w) ==
  /\ At(w, "store")
  /\ roomStatus' = [roomStatus EXCEPT ![worker[w].room] = worker[w].target]
  /\ Becomes(w, Idle)
  /\ UNCHANGED tables

(* Mutant: a task completed twice counts twice. *)
CompleteTaskAgain(w, r) ==
  /\ "task" \in Traffic
  /\ worker[w] = Idle
  /\ openTasks' = [openTasks EXCEPT ![r] = @ - 1]
  /\ Becomes(w, RefreshOf(r))
  /\ UNCHANGED <<today, booking, stay, dayUse, blocking, roomStatus>>

(* RoomHousekeepingTask.save of a task that is completed. *)
CompleteTask(w, r) ==
  /\ "task" \in Traffic
  /\ worker[w] = Idle
  /\ openTasks[r] > 0
  /\ openTasks' = [openTasks EXCEPT ![r] = @ - 1]
  /\ Becomes(w, RefreshOf(r))
  /\ UNCHANGED <<today, booking, stay, dayUse, blocking, roomStatus>>

-----------------------------------------------------------------------------
(* Check-in: the status of the booking and of the room are those loaded,   *)
(* the stays in the way are read before the transaction.                   *)

LoadCheckIn(w, b) ==
  /\ booking[b].status = "confirmed"
  /\ booking[b].from <= today
  /\ booking[b].room # None
  /\ Take(w, "check_in", [pc |-> "validate", booking |-> b, guest |-> booking[b].guest,
                          room |-> booking[b].room, shown |-> roomStatus[booking[b].room]])

LoadWalkIn(w, g, r) ==
  Take(w, "walk_in", [pc |-> "validate", booking |-> None, guest |-> g,
                      room |-> r, shown |-> roomStatus[r]])

(* Stay.full_clean *)
MayArrive(q) ==
  /\ q.shown = "available" \/ (q.shown = "reserved" /\ q.booking # None)
  /\ \A u \in Stays : stay[u].status = "in_progress" =>
                         stay[u].room # q.room /\ stay[u].guest # q.guest
  /\ q.booking # None => ~HasStay(q.booking)

ValidateArrival(w) ==
  /\ At(w, "validate")
  /\ Becomes(w, IF MayArrive(worker[w]) THEN [worker[w] EXCEPT !.pc = "insert"] ELSE Idle)
  /\ UNCHANGED vars

(* The columns a check-in writes in the booking, whatever status it has by *)
(* now; saving it checks the other bookings of the room.                   *)
ArrivalBooking(q) == [booking[q.booking] EXCEPT !.status = "checked_in", !.room = q.room]

(* Mutant: stay.booking is a plain foreign key. *)
InsertableTwice(q) ==
  \E s \in Stays : stay[s].status = "none"

(* stay.booking is unique in the database. *)
Insertable(q) ==
  /\ \E s \in Stays : stay[s].status = "none"
  /\ q.booking # None => /\ ~HasStay(q.booking)
                         /\ RoomFree(q.room, booking[q.booking].from,
                                     booking[q.booking].to, q.booking)

InsertStay(w, s) ==
  LET q == worker[w] IN
  /\ At(w, "insert") /\ Insertable(q)
  /\ stay[s].status = "none"
  /\ stay' = [stay EXCEPT ![s] = [status |-> "in_progress", guest |-> q.guest,
                                  room |-> q.room, booking |-> q.booking]]
  /\ booking' = IF q.booking = None THEN booking
                ELSE [booking EXCEPT ![q.booking] = ArrivalBooking(q)]
  /\ roomStatus' = [roomStatus EXCEPT ![q.room] = "occupied"]
  /\ Becomes(w, Idle)
  /\ UNCHANGED <<today, dayUse, openTasks, blocking>>

(* The database refuses, and the transaction is rolled back. *)
AbortArrival(w) ==
  /\ At(w, "insert") /\ ~Insertable(worker[w])
  /\ Becomes(w, Idle)
  /\ UNCHANGED vars

-----------------------------------------------------------------------------
(* Check-out: the room that is vacated is the one that was loaded. *)

LoadCheckOut(w, s) ==
  /\ stay[s].status = "in_progress"
  /\ Take(w, "check_out", [pc |-> "depart", stay |-> s, room |-> stay[s].room])

MayDepart(q) ==
  LET b == stay[q.stay].booking IN
  /\ b # None => /\ booking[b].guest = stay[q.stay].guest
                 /\ booking[b].room \in {None, q.room}
  /\ NoStayConflict(q.stay, stay[q.stay].guest, q.room)

Depart(w) ==
  LET q == worker[w] IN
  /\ At(w, "depart") /\ MayDepart(q)
  /\ stay' = [stay EXCEPT ![q.stay].status = "completed"]
  /\ UNCHANGED <<today, booking, dayUse, blocking>>
  /\ Vacate(q.room, ~Dirty(q.room), {})
  /\ Becomes(w, Idle)

RefuseDeparture(w) ==
  /\ At(w, "depart") /\ ~MayDepart(worker[w])
  /\ Becomes(w, Idle)
  /\ UNCHANGED vars

-----------------------------------------------------------------------------
(* Changes of a booking *)

Changed(b, row, all) == [pc |-> "save", booking |-> b, row |-> row, all |-> all]

LoadStatusChange(w, b, kind, from, to) ==
  /\ booking[b].status \in from
  /\ Take(w, kind, Changed(b, [booking[b] EXCEPT !.status = to], FALSE))

LoadConfirm(w, b) == LoadStatusChange(w, b, "confirm", {"pending"}, "confirmed")

LoadCancel(w, b) ==
  ~HasStay(b) /\ LoadStatusChange(w, b, "cancel", {"pending", "confirmed"}, "cancelled")
LoadNoShow(w, b) ==
  ~HasStay(b) /\ LoadStatusChange(w, b, "no_show", {"confirmed"}, "no_show")

LoadUpdate(w, b, r, from, to) ==
  /\ booking[b].status # "none"
  /\ HasStay(b) => r = booking[b].room
  /\ from >= today
  /\ Take(w, "update",
          Changed(b, [booking[b] EXCEPT !.room = r, !.from = from, !.to = to], TRUE))

(* The row that the save leaves in the table. *)
Written(q) == IF q.all THEN q.row ELSE [booking[q.booking] EXCEPT !.status = q.row.status]

(* Mutant: no exclusion constraint, the checks of clean() are trusted. *)
SavableObject(q) ==
  Savable(q.booking, q.row.room, q.row.from, q.row.to, q.row.status)

(* Booking.full_clean looks at the object, under the lock of the object's  *)
(* room; the exclusion constraint of the table looks at the row written.   *)
SavableRow(q) ==
  /\ Savable(q.booking, q.row.room, q.row.from, q.row.to, q.row.status)
  /\ LET row == Written(q) IN
       row.room # None /\ row.status \in ActiveBooking =>
         RoomFree(row.room, row.from, row.to, q.booking)

SaveChange(w) ==
  LET q == worker[w] IN
  /\ At(w, "save") /\ SavableRow(q)
  /\ booking' = [booking EXCEPT ![q.booking] = Written(q)]
  /\ Becomes(w, IF q.row.room = None THEN Idle ELSE RefreshOf(q.row.room))
  /\ UNCHANGED <<today, stay, dayUse, openTasks, blocking, roomStatus>>

RefuseChange(w) ==
  /\ At(w, "save") /\ ~SavableRow(worker[w])
  /\ Becomes(w, Idle)
  /\ UNCHANGED vars

-----------------------------------------------------------------------------
(* Cancellation of a day use: its status is checked on the object loaded   *)
(* before the lock.                                                        *)

LoadClosing(w, d) ==
  /\ dayUse[d].status = "ready"
  /\ Take(w, "close_day_use", [pc |-> "close", dayUse |-> d])

CloseLoaded(w) ==
  /\ At(w, "close")
  /\ MoveDayUse(worker[w].dayUse, {"ready", "in_progress", "overtime", "left"}, "left")
  /\ Becomes(w, Idle)

-----------------------------------------------------------------------------
(* Requests that are one locked transaction *)

Transaction ==
  \/ "booking" \in Traffic /\ \E b \in Bookings, g \in Guests, r \in Rooms, from \in Days,
                                 to \in Nights : CreateBooking(b, g, r, from, to)
  \/ "relocate" \in Traffic /\ \E b \in Bookings, r \in Rooms : RelocateBooking(b, r)
  \/ "relocate" \in Traffic /\ \E s \in Stays, r \in Rooms : RelocateStay(s, r)
  \/ "day_use" \in Traffic /\ \E d \in DayUses, r \in Rooms, day \in Days :
                                 CreateDayUse(d, r, day)
  \/ "day_use" \in Traffic /\ \E d \in DayUses : DayUseCheckIn(d) \/ DayUseCheckOut(d)
  \/ "convert" \in Traffic /\ \E d \in DayUses, b \in Bookings, g \in Guests, to \in Nights :
                                 ConvertToNight(d, b, g, to)

Load(w) ==
  \/ \E r \in Rooms : LoadDashboard(w, r) \/ CompleteTask(w, r)
  \/ \E b \in Bookings : LoadCheckIn(w, b) \/ LoadConfirm(w, b) \/ LoadCancel(w, b)
                         \/ LoadNoShow(w, b)
  \/ \E b \in Bookings, r \in Rooms \cup {None}, from \in Days, to \in Nights :
       LoadUpdate(w, b, r, from, to)
  \/ \E g \in Guests, r \in Rooms : LoadWalkIn(w, g, r)
  \/ \E s \in Stays : LoadCheckOut(w, s)
  \/ \E d \in DayUses : LoadClosing(w, d)

Continue(w) ==
  \/ Resolve(w)
  \/ StoreStatus(w)
  \/ ValidateArrival(w)
  \/ \E s \in Stays : InsertStay(w, s)
  \/ AbortArrival(w)
  \/ Depart(w)
  \/ RefuseDeparture(w)
  \/ SaveChange(w)
  \/ RefuseChange(w)
  \/ CloseLoaded(w)

DeskNext ==
  \/ \E w \in Workers : Load(w) \/ Continue(w)
  \/ Transaction /\ (\E w \in Workers : worker[w] = Idle) /\ UNCHANGED worker
  \/ NextDay /\ UNCHANGED worker

DeskSpec == DeskInit /\ [][DeskNext]_deskVars

(* A worker finishes what it took, and every room is polled again and      *)
(* again: the room screen asks for all rooms every 15 seconds, and a poll  *)
(* that waits is served some day.                                          *)
Fairness ==
  /\ \A w \in Workers : WF_deskVars(Continue(w))
  /\ \A r \in Rooms : SF_deskVars(\E w \in Workers : LoadDashboard(w, r))

FairDeskSpec == DeskSpec /\ Fairness

-----------------------------------------------------------------------------
(* Properties that the locks and the constraints of the database protect.  *)
(* NoOverlappingBookings of FrontDesk is checked here too: stale objects   *)
(* are saved over newer rows, and still no night is sold twice.            *)

(* A booking that reads checked_in has a stay, and one stay at most, under *)
(* double check-ins, cancellations and stale saves.                        *)
CheckedInOnce ==
  /\ \A b \in Bookings : booking[b].status = "checked_in" => HasStay(b)
  /\ \A s, u \in Stays : stay[s].booking # None /\ stay[s].booking = stay[u].booking => s = u

(* When nothing but the dashboards touches the rooms any more, the cached  *)
(* status of every room becomes and stays the one the tables imply: a      *)
(* status stored late by sync_room_operational_status is repaired.         *)
StatusConverges ==
  <>[][UNCHANGED tables]_deskVars => <>[](\A r \in Rooms : roomStatus[r] = Resolved(r))

-----------------------------------------------------------------------------
(* What the code and its documents say, and interleavings break *)

(* stays/models.py: no two active stays in one room. *)
OneStayPerRoom ==
  \A s, u \in Stays : /\ stay[s].status = "in_progress" /\ stay[u].status = "in_progress"
                      /\ stay[s].room = stay[u].room
                      => s = u

(* docs/business_rules.md: a room with a stay is shown occupied, not free. *)
OccupiedNotForSale == \A r \in Rooms : StayIn(r) => roomStatus[r] # "available"

(* docs/business_rules.md draws the life of a booking: only a confirmed one *)
(* is checked in, and a cancelled one, a no-show and one that is checked   *)
(* in are what they are for ever.                                          *)
LifeCycle == {<<"none", "pending">>, <<"none", "confirmed">>,
              <<"pending", "confirmed">>, <<"pending", "cancelled">>,
              <<"confirmed", "cancelled">>, <<"confirmed", "no_show">>,
              <<"confirmed", "checked_in">>}

BookingLifeCycle ==
  [][\A b \in Bookings :
       booking'[b].status # booking[b].status =>
         <<booking[b].status, booking'[b].status>> \in LifeCycle]_deskVars

(* docs/business_rules.md and day_use/services.py: whoever was in a room   *)
(* leaves it by a check-out, which sends that room to cleaning.            *)
LeavingCleans ==
  [][/\ \A s \in Stays : stay[s].status = "in_progress" /\ stay'[s].status = "completed" =>
                           roomStatus'[stay[s].room] = "cleaning"
     /\ \A d \in DayUses : dayUse[d].status = "in_progress" /\ dayUse'[d].status = "left" =>
                             roomStatus'[dayUse[d].room] = "cleaning"]_deskVars
=============================================================================
