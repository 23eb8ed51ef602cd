----------------------------- MODULE RoomNights -----------------------------
(***************************************************************************)
(* What reservations promise, without rooms' statuses, stays, day uses or  *)
(* the ways a booking changes: a night of a room is held by one booking at *)
(* most, a hold is of consecutive nights of one room, and the hold of a    *)
(* guest who has arrived may move to other nights but is never given up.   *)
(***************************************************************************)
EXTENDS Integers

CONSTANTS Rooms, Bookings, LastDay

VARIABLES
  held,         \* the nights each booking holds, as pairs of room and day
  arrived       \* the bookings whose guest has arrived

reservations == <<held, arrived>>

NightsOf(r, from, to) == {r} \X (from..(to - 1))

FreeFor(b, nights) == \A c \in Bookings \ {b} : held[c] \cap nights = {}

Hold(b) ==
  \E r \in Rooms, from \in 0..LastDay, to \in 0..(LastDay + 1) :
    /\ from < to
    /\ FreeFor(b, NightsOf(r, from, to))
    /\ held' = [held EXCEPT ![b] = NightsOf(r, from, to)]

(* A new hold, or another one instead. *)
Reserve(b) == Hold(b) /\ UNCHANGED arrived

Release(b) ==
  /\ b \notin arrived
  /\ held' = [held EXCEPT ![b] = {}]
  /\ UNCHANGED arrived

Arrive(b) ==
  /\ b \notin arrived
  /\ Hold(b)
  /\ arrived' = arrived \cup {b}

Init == held = [b \in Bookings |-> {}] /\ arrived = {}

Next == \E b \in Bookings : Reserve(b) \/ Release(b) \/ Arrive(b)

Spec == Init /\ [][Next]_reservations
=============================================================================
