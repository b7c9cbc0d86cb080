-------------------------- MODULE MCProcessoAgente --------------------------
(* Three connections for two slots and a channel of one; the waits are real. *)
EXTENDS ProcessoAgente

CONSTANTS c1, c2, c3

MCCon == {c1, c2, c3}
MCVidas == {0, 20, 60}
=============================================================================
