---------------------------- MODULE MCComparador ----------------------------
(* The service, alone or with one run by hand, which are told apart by      *)
(* nothing but their names, and an agent; two secrets and two generations   *)
(* of the certificate, so that each can be replaced.                        *)
EXTENDS Comparador, TLC

CONSTANTS servico, terminal, g1

MCComparadores == {servico, terminal}
MCServico == {servico}
MCAgentes == {g1}
Simetria == Permutations(MCComparadores)
=============================================================================
