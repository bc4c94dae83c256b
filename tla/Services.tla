------------------------------ MODULE Services ------------------------------
(***************************************************************************)
(* Redis, as the health probes and the deployment poller see it: it answers *)
(* or does not.                                                            *)
(***************************************************************************)

VARIABLE up     \* whether Redis answers

ServicesInit == up = TRUE

\* An outage begins or ends.
Outage == up' = ~up
=============================================================================
