---------------------------- MODULE MCOperations ----------------------------
(* Two probes in two seconds beside one deployment, which passes through two *)
(* statuses before its end.                                                  *)
EXTENDS Operations

MCUnderway == <<"queued", "starting">>
=============================================================================
