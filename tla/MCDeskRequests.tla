--------------------------- MODULE MCDeskRequests ---------------------------
(* Instances of DeskRequests for TLC. *)
EXTENDS DeskRequests, TLC

Symmetry == Permutations(Rooms) \cup Permutations(Guests) \cup Permutations(Bookings)
            \cup Permutations(Stays) \cup Permutations(Workers)
=============================================================================
