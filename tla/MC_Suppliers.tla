----------------------------- MODULE MC_Suppliers -----------------------------
(***************************************************************************)
(* The parts that deal with suppliers, on small instances: an order placed *)
(* with CJ, the tokens its API takes, what is kept of the suppliers'       *)
(* catalogs, the scheduler's lock and the sync jobs it queues.  They share *)
(* no state here, so a behaviour is one of a single part.                  *)
(***************************************************************************)
EXTENDS SupplierOrders, Sourcing, ResyncLock, ProductSync, TLC

CONSTANTS c1, c2, p1, p2, t1, t2

VARIABLE part

mcVars == <<part, supplyVars, tokenVars, sourcingVars, lockVars, syncVars>>

MCInit ==
  /\ part \in {"orders", "tokens", "sourcing", "scheduler", "sync"}
  /\ SupplyInit /\ TokenInit /\ SourcingInit /\ LockInit /\ SyncInit
  /\ part # "orders" => fillable

MCNext ==
  \/ part = "orders" /\ SupplyNext
       /\ UNCHANGED <<part, tokenVars, sourcingVars, lockVars, syncVars>>
  \/ part = "tokens" /\ TokenNext
       /\ UNCHANGED <<part, supplyVars, sourcingVars, lockVars, syncVars>>
  \/ part = "sourcing" /\ SourcingNext
       /\ UNCHANGED <<part, supplyVars, tokenVars, lockVars, syncVars>>
  \/ part = "scheduler" /\ LockNext
       /\ UNCHANGED <<part, supplyVars, tokenVars, sourcingVars, syncVars>>
  \/ part = "sync" /\ SyncNext
       /\ UNCHANGED <<part, supplyVars, tokenVars, sourcingVars, lockVars>>

MCSpec == MCInit /\ [][MCNext]_mcVars

MCDesks == {c1, c2}
MCSymmetry == Permutations(MCDesks)

\* Two jobs over a product they share.
MCProducts == {p1, p2}
MCTasks == {t1, t2}
MCChunk == (t1 :> {p1, p2}) @@ (t2 :> {p1})

=============================================================================
