--------------------------- MODULE MCEstadoLeitor ---------------------------
(* Two handlers and the check at startup: three annotations can be in      *)
(* flight at once, in every order.                                         *)
EXTENDS EstadoLeitor

CONSTANTS a1, a2

MCPedidos == {a1, a2}
=============================================================================
