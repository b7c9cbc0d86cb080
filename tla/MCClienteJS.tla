----------------------------- MODULE MCClienteJS -----------------------------
(* Two operations of a page at a time: a capture, and a comparison or        *)
(* garantirConexao; two ports.                                               *)
EXTENDS ClienteJS

CONSTANTS o1, o2, v1, v2

MCOp == {o1, o2}
MCTipos == [o \in MCOp |-> IF o = o1 THEN {"captura"} ELSE {"comparacao", "conexao"}]
MCAgente == {v1, v2}
=============================================================================
