--------------------------- MODULE MCReservations ---------------------------
EXTENDS Reservations, TLC

MCBlackouts == {[start |-> 4, end |-> 5]}

Symmetry == Permutations(Bookings) \cup Permutations(Calls)
=============================================================================
