-------------------------- MODULE MCFinanceRequest --------------------------
EXTENDS FinanceRequest, TLC

CONSTANTS ann, bob, cat, k1, k2, s1, s2

MCAmountOf == k1 :> 1 @@ k2 :> 2

Interchangeable == Permutations(Sessions)
=============================================================================
