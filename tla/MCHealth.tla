------------------------------ MODULE MCHealth ------------------------------
(* HealthMonitors for TLC: file systems of 12 bits, two services and then  *)
(* two sites.                                                              *)
EXTENDS HealthMonitors

MCServices == <<"ssh", "nginx">>
MCWebsites == <<"site", "api">>
=============================================================================
