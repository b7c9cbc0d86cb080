--------------------------- MODULE ServicoWorker ---------------------------
(***************************************************************************)
(* What clienteWorker promises each call, whatever its process does: the   *)
(* request is executed at most once, never again once it is lost, and the  *)
(* call ends with the answer to that execution or with an error.  When a   *)
(* process is started, killed or let go of is left open.                   *)
(***************************************************************************)
CONSTANTS Pedidos, Nenhum

VARIABLES
  chamado,   \* the request of the call in progress
  andamento, \* "livre" (no call), "pedida", "executa", "feita" or "perdida"
  resposta   \* whose answer the last call returned, Nenhum for an error

vars == <<chamado, andamento, resposta>>

Init == chamado = Nenhum /\ andamento = "livre" /\ resposta = Nenhum

Chama(p) ==
  /\ andamento = "livre"
  /\ chamado' = p /\ andamento' = "pedida"
  /\ UNCHANGED resposta

\* The worker takes the request, and is done with it.
Anda(de, para) == andamento = de /\ andamento' = para /\ UNCHANGED <<chamado, resposta>>

\* The worker dies, is killed or is given up on, at any point of the call.
Perde == andamento # "livre" /\ andamento' = "perdida" /\ UNCHANGED <<chamado, resposta>>

Volta(r) == chamado' = Nenhum /\ andamento' = "livre" /\ resposta' = r

Responde == andamento = "feita" /\ Volta(chamado)

\* Nothing was started for the call, or what was is lost.
Falha == andamento \in {"pedida", "perdida"} /\ Volta(Nenhum)

Next ==
  \/ \E p \in Pedidos : Chama(p)
  \/ Anda("pedida", "executa") \/ Anda("executa", "feita")
  \/ Perde \/ Responde \/ Falha

Spec == Init /\ [][Next]_vars
=============================================================================
