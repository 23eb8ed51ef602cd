----------------------------- MODULE MCFrontDesk -----------------------------
(* Instances of FrontDesk for TLC. *)
EXTENDS FrontDesk, TLC

(* Identifiers are interchangeable: only dates are compared by order. *)
Symmetry == Permutations(Rooms) \cup Permutations(Guests)
            \cup Permutations(Bookings) \cup Permutations(Stays)
            \cup Permutations(DayUses)
=============================================================================
