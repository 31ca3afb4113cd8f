------------------------------ MODULE MC_Access ------------------------------
(* Access on a small instance: the constants TLC checks it with. *)
EXTENDS Access, TLC

CONSTANTS p1, p2, c1, c2, v1

MCStaff == {p1, p2}
MCClients == {c1, c2}
MCVisitors == {v1}
MCFounders ==
  {[tenant |-> "fashion", user |-> "ana", role |-> "OWNER"],
   [tenant |-> "fashion", user |-> "ben", role |-> "OWNER"],
   [tenant |-> "fashion", user |-> "dan", role |-> "ADMIN_MANAGER"]}

MCKinds == {"sign-in", "staff", "settings", "visits"}
Mix(signing, staffing, settings, visits) ==
  ("sign-in" :> signing) @@ ("staff" :> staffing) @@ ("settings" :> settings)
    @@ ("visits" :> visits)
MCMixes == {Mix(3, 0, 1, 0), Mix(0, 2, 0, 0), Mix(1, 1, 0, 0), Mix(0, 0, 2, 1)}
=============================================================================
