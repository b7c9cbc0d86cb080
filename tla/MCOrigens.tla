----------------------------- MODULE MCOrigens -----------------------------
(* Small values for Origens: two origins that must be approved and one     *)
(* that need not, two requests at a time.                                  *)
EXTENDS Origens, TLC

CONSTANTS o1, o2, fixa, h1, h2

MCOrigem == {o1, o2, fixa}
MCPredefinidas == {fixa}
MCHello == {h1, h2}
=============================================================================
