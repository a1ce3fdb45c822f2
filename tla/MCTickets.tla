----------------------------- MODULE MCTickets -----------------------------
EXTENDS Tickets, TLC

Symmetry == Permutations(Calls) \cup Permutations(Workers)
=============================================================================
