-------------------------- MODULE MCSessionRegistry --------------------------
(* Two threads, two keys of which one has a second spelling, a blank name, and  *)
(* two sessions made with the same alias.                                      *)
EXTENDS SessionRegistry

MCNames == {"dmm", " DMM", "psu", " "}

MCKey == [n \in MCNames \ {" "} |-> IF n = " DMM" THEN "dmm" ELSE n]

MCSessions == {"s1", "s2", "s3"}

MCAliasOf == [s \in MCSessions |-> IF s = "s3" THEN "psu" ELSE " DMM"]
==============================================================================
