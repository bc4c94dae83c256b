----------------------- MODULE MCConnectionLifecycle -----------------------
(* Two connections, one of which answers its pings.                        *)
EXTENDS ConnectionLifecycle

CONSTANTS c1, c2

MCConns == {c1, c2}
MCResponsive == {c1}
=============================================================================
