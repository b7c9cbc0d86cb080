------------------------------ MODULE MCPasta ------------------------------
(* Two sessions, two origins, a log of two lines.                           *)
EXTENDS Pasta, TLC

CONSTANTS s1, s2, o1, o2, lixo

MCSessoes == {s1, s2}
MCOrigem == {o1, o2}
MCConteudo == SUBSET MCOrigem
MCInicial == {}
MCRasgado == {lixo}
Simetria == Permutations(MCSessoes) \cup Permutations(MCOrigem)
=============================================================================
