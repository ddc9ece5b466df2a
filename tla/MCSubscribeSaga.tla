-------------------------- MODULE MCSubscribeSaga --------------------------
(* Instances of SubscribeSaga for TLC. *)
EXTENDS SubscribeSaga

\* Every pair has a request; with more requests than pairs some of them
\* collide on the unique constraint.
Spread == CHOOSE f \in [Sagas -> Pairs] : \A p \in Pairs : \E s \in Sagas : f[s] = p
=============================================================================
