------------------------------- MODULE MCFleet -------------------------------
(* A small instance of Fleet for TLC: a faulty specialist may claim what   *)
(* is not its to claim, without trust, with a value of the wrong type, or  *)
(* twice with two values.                                                  *)
EXTENDS Fleet

MCCatalogs ==
  {Specialists, Specialists \ {"systems"}, Specialists \ {"network"}}

MCProposals == UNION {[1..n -> Specialists] : n \in 0..2}

Found(key, value, trusted) == [key |-> key, value |-> value, trusted |-> trusted]

Upto2(items) == UNION {[1..n -> items] : n \in 0..2}

MCReports ==
  [network  |-> Upto2({Found("network_reachable", Gate!Bool(TRUE), TRUE),
                       Found("network_reachable", Gate!Bool(FALSE), TRUE),
                       Found("network_reachable", Gate!Bool(TRUE), FALSE),
                       Found("network_reachable", Gate!Num(1), TRUE),
                       Found("service_unhealthy", Gate!Bool(TRUE), TRUE)}),
   security |-> Upto2({Found("identity_posture_sound", Gate!Bool(TRUE), TRUE),
                       Found("network_reachable", Gate!Bool(TRUE), TRUE)})]
=============================================================================
