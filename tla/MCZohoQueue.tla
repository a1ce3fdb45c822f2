---------------------------- MODULE MCZohoQueue ----------------------------
EXTENDS ZohoQueue, TLC

CONSTANTS p1, p2

\* The payments are instalments of one request.
MCRequestOf == [p \in Payments |-> 1]
=============================================================================
