------------------------- MODULE MCSubscriptionApi -------------------------
(***************************************************************************)
(* SubscriptionApi for TLC. Calls, and names, differ in nothing but        *)
(* themselves, and only invariants are checked: both are symmetric.        *)
(***************************************************************************)
EXTENDS SubscriptionApi, TLC

Symmetry == Permutations(Requests) \cup Permutations(Names)
=============================================================================
