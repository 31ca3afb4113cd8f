----------------------------- MODULE StockLedger -----------------------------
(***************************************************************************)
(* What the inventory component promises to its callers, with the          *)
(* optimistic-locking protocol abstracted away: each stock row keeps a     *)
(* total of claimed units and a count of the claims it has acknowledged.   *)
(* Every acknowledged reservation adds exactly its own quantity and every  *)
(* acknowledged release gives back exactly its own (never below zero), as  *)
(* if the read and the write of the row happened at one instant.           *)
(* Inventory implements this specification.                                *)
(***************************************************************************)
EXTENDS Integers

CONSTANTS Locations,   \* the warehouses holding the variant
          Reservable,  \* units one request may reserve
          Releasable   \* units one request may give back

VARIABLES claimed,     \* units reserved at each location
          acked        \* reservations and releases acknowledged, plus the row's first version

ledgerVars == <<claimed, acked>>

\* Math.max(0, n)
Clamp(n) == IF n > 0 THEN n ELSE 0

Init ==
  /\ claimed = [l \in Locations |-> 0]
  /\ acked \in [Locations -> {0, 1}]

\* A stock row comes into existence (version 0 stands for "no row").
Open(l) ==
  /\ acked[l] = 0
  /\ acked' = [acked EXCEPT ![l] = 1]
  /\ UNCHANGED claimed

Acknowledge(l, n) ==
  /\ acked[l] > 0
  /\ claimed' = [claimed EXCEPT ![l] = n]
  /\ acked' = [acked EXCEPT ![l] = @ + 1]

Take(l, q) == Acknowledge(l, claimed[l] + q)

GiveBack(l, q) == Acknowledge(l, Clamp(claimed[l] - q))

Next ==
  \E l \in Locations :
    \/ Open(l)
    \/ \E q \in Reservable : Take(l, q)
    \/ \E q \in Releasable : GiveBack(l, q)

Spec == Init /\ [][Next]_ledgerVars
=============================================================================
