------------------------------ MODULE MC_Returns ------------------------------
(***************************************************************************)
(* Return requests on small instances: the money of an order's returns     *)
(* (Returns), and the file of one (ReturnFile).  The two are views of the  *)
(* same rows that share no variable, so a behaviour is one of a single     *)
(* part.  The money of one return is checked with requests that overlap    *)
(* and fail, that of two returns with webhooks that do, one request at a   *)
(* time.                                                                   *)
(***************************************************************************)
EXTENDS Returns, ReturnFile, TLC

CONSTANTS r1, r2, c1, c2, d1, d2

VARIABLE part

mcVars == <<part, vars, fileVars>>

MCInit ==
  /\ part \in {"one", "two", "file"}
  /\ Init /\ FileInit

Money == part # "file" /\ UNCHANGED <<part, fileVars>>

OneReturn == part = "one" => status'[r2] = "none" /\ hook'[d2] = Idle
TwoReturns == part = "two" => OneRequest' /\ UNCHANGED <<disputes, atCJ, faults>>

Filing == part = "file" /\ UNCHANGED <<part, vars>>

MCNext ==
  \/ Money /\ Next /\ OneReturn /\ TwoReturns
  \/ Filing /\ FileNext

MCSpec == MCInit /\ [][MCNext]_mcVars

MCReturns == {r1, r2}
MCCase == {r1}
MCNone == {}
MCOneRequest == {c1}
MCRequests == {c1, c2}
MCHooks == {d1, d2}
MCUnit == {1}
MCAmounts == {1, 2}
MCSymmetry == Permutations(MCRequests)
=============================================================================
