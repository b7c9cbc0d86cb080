-------------------------- MODULE MCClienteWorker --------------------------
(* Small values for ClienteWorker.  One unit is about half a minute: the   *)
(* deadlines are one or two units, the idle timer outlasts any call, and   *)
(* the breaker waits one, two and then three units.                        *)
EXTENDS ClienteWorker

CONSTANTS p1, p2

MCPedidos == {p1, p2}
MCLimites == {1, 2}
MCEsperas == <<1, 2, 3>>
=============================================================================
