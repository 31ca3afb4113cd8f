-------------------------- MODULE MC_OrderPayments --------------------------
(* OrderPayments on small instances: the constants TLC checks it with. *)
EXTENDS OrderPayments, TLC

CONSTANTS c1, c2, d1, d2, p1, cod

MCTwoClerks == {c1, c2}
MCTwoHooks == {d1, d2}
MCOneCard == {p1}
MCCash == {cod}
MCStaff == {"FULFILLED"}

\* Requests and deliveries are interchangeable.
MCSymmetry == Permutations(MCTwoClerks) \cup Permutations(MCTwoHooks)

=============================================================================
