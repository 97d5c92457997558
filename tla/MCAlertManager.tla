--------------------------- MODULE MCAlertManager ---------------------------
(* AlertManager for TLC: two alerts of one class, and one that bypasses;   *)
(* every level of the routes decides for some type in some configuration.  *)
EXTENDS AlertManager

MCCooldowns == [c \in {"default", "resource", "website", "service",
                       "ssh_bruteforce", "web_scan"} |->
                  IF c = "resource" THEN 2 ELSE 1]

MCRoutes == {[key \in {} |-> 1],
             [key \in {"ram_high", "resource", "default"} |->
                CASE key = "ram_high" -> 1 [] key = "resource" -> 2
                  [] key = "default" -> 3]}
=============================================================================
