---------------------------- MODULE MCCooldownParity --------------------------
(* The two cooldown managers for TLC: a resource alert has a cooldown of 2, *)
(* a web alert of 1; the ssh burst's is switched off.                       *)
EXTENDS CooldownParity

MCCooldowns == [c \in {"default", "resource", "website", "service",
                       "ssh_bruteforce", "web_scan"} |->
                  CASE c = "resource"       -> 2
                    [] c = "web_scan"       -> 1
                    [] c = "ssh_bruteforce" -> 0
                    [] OTHER                -> 3]
============================================================================
